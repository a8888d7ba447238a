---------------------------- MODULE AccountProofs ---------------------------
(***************************************************************************)
(* The safety of start-up, registration and the registration mails, for    *)
(* any number of processes, requests, addresses, releases and faults.      *)
(*                                                                         *)
(* The invariant has a part for the schema with the processes that migrate *)
(* it, one for the captchas with the requests, and one for the mails with  *)
(* their workers.  Only the first says anything about the others: a server *)
(* that is up has read a complete history.                                 *)
(***************************************************************************)
EXTENDS AccountProperties, SequenceTheorems, WellFoundedInduction, TLAPS

-----------------------------------------------------------------------------
(* The schema.                                                             *)

Phases == {"lock", "load", "execute", "record", "redis", "up"}
Started == [phase : Phases, mode : {"up", "verify", "compatibility"}, release : Releases,
            todo : SUBSET Nat, at : Nat]
Versions == 1..Len(Up)

\* The statements of a migration before the i-th left their mark.
Executed(v, i) == \A j \in 1..Len(Up[v]) : j < i => Up[v][j] \in schema \cup {"backfill", "duplicates"}

\* What a process has done, given how far it is.
Migrating(p) ==
  LET q == proc[p] IN
  /\ q.phase \in {"load", "execute", "record"} <=> lock = p
  /\ q.phase \in {"execute", "record"} =>
       /\ q.todo = Pending(q.release) /\ q.todo # {}
       /\ Executed(First(q.todo), q.at)
  /\ q.phase \in {"lock", "load"} => q.at = 1
  /\ q.phase = "execute" => q.at \in 1..Len(Up[First(q.todo)])
  /\ q.phase = "record" => q.at = Len(Up[First(q.todo)]) + 1
  /\ q.phase \in {"redis", "up"} => Pending(q.release) = {}

SchemaInv ==
  /\ proc \in [Procs -> {Off} \cup Started] /\ lock \in Procs \cup {Nobody} /\ unidentified \in Nat
  /\ DOMAIN history \subseteq Versions
  /\ \A v \in DOMAIN history : Effects(v) \subseteq schema
  /\ "notnull" \in schema => unidentified = 0
  /\ \A p \in Procs : Migrating(p)

-----------------------------------------------------------------------------
(* The requests and the captchas.                                          *)

CaptchaPcs == {"store", "mail", "delete"}
RequestPcs == CaptchaPcs \cup {"exists", "consume", "insert", "notify", "check", "upgrade", "clear"}
Handled == [pc : RequestPcs, proc : Procs, email : Emails, code : Nat, tries : Nat]

RequestsTyped ==
  /\ req \in [Requests -> {Idle} \cup Handled]
  /\ script \in [Requests -> Seq(SUBSET ({"captcha", "register", "login"} \X Emails))]
  /\ captcha \in [Emails -> Nat] /\ stored \in [Emails -> Nat] /\ issued \in Nat

\* A captcha under way is one of its request alone, and not reported yet.
CodesAreOwn ==
  /\ told \subseteq 1..issued
  /\ \A e \in Emails : stored[e] <= issued
  /\ \A r \in Requests : req[r].pc \in CaptchaPcs => req[r].code \in 1..issued \ told
  /\ \A r, s \in Requests : /\ req[r].pc \in CaptchaPcs /\ req[s].pc \in CaptchaPcs
                            /\ req[r].code = req[s].code
                            => r = s

\* A captcha that was lost is no longer to be reported.
LostIsUnreported ==
  \A e \in Emails : captcha[e] # stored[e] =>
    /\ stored[e] \notin told
    /\ \A r \in Requests : req[r].pc \in {"store", "mail"} => req[r].code # stored[e]

CaptchaInv == RequestsTyped /\ CodesAreOwn /\ LostIsUnreported

-----------------------------------------------------------------------------
(* The users and the mails.                                                *)

User == [row : {TRUE}, pending : BOOLEAN, due : BOOLEAN, hash : {"md5", "bcrypt"}]
Looking == [pc : {"wait", "list", "send"}, todo : SUBSET Emails]
Marking == [pc : {"sent", "failed"}, todo : SUBSET Emails, user : Emails]

MailInv ==
  /\ users \in [Emails -> {NoUser} \cup User]
  /\ mails \in [Emails -> 0..2]
  /\ worker \in [Procs -> Looking \cup Marking]
  /\ \A p \in Procs : \A e \in worker[p].todo : users[e].row
  /\ \A p \in Procs : worker[p] \in Marking => users[worker[p].user].row
  /\ \A p \in Procs : worker[p].pc = "sent" => mails[worker[p].user] > 0
  /\ \A r \in Requests : req[r].pc = "upgrade" => users[req[r].email].row
  /\ PendingUntilMailed

IInv == SchemaInv /\ CaptchaInv /\ MailInv

-----------------------------------------------------------------------------
(* The migrations.                                                         *)

\* Every version has statements.
LEMMA UpShape ==
  ASSUME NEW v \in Versions
  PROVE  /\ Len(Up[v]) \in Nat /\ Len(Up[v]) >= 1 /\ v \in Nat
         /\ Effects(v) = {Up[v][i] : i \in 1..Len(Up[v])} \ {"backfill", "duplicates"}
  <1>1. v \in {1, 2, 3, 4, 5}
    BY DEF Versions, Up
  <1>2. Up[1] = <<"baseline">> /\ Up[3] = <<"sessions_index">> /\ Up[5] = <<"scan_index">>
        /\ Up[2] = <<"column", "backfill", "duplicates", "unique", "notnull">>
        /\ Up[4] = <<"operation_column", "operation_index">>
    BY DEF Up
  <1>3. DOMAIN Up[v] = 1..Len(Up[v]) /\ Len(Up[v]) \in {1, 2, 5}
    <2>1. CASE v = 1
      <3>1. Up[v] = <<"baseline">>
        BY <1>2, <2>1
      <3>2. Len(Up[v]) = 1 /\ DOMAIN Up[v] = 1..1
        BY <3>1
      <3> QED BY <3>2
    <2>2. CASE v = 2
      <3>1. Up[v] = <<"column", "backfill", "duplicates", "unique", "notnull">>
        BY <1>2, <2>2
      <3>2. Len(Up[v]) = 5 /\ DOMAIN Up[v] = 1..5
        BY <3>1
      <3> QED BY <3>2
    <2>3. CASE v = 3
      <3>1. Up[v] = <<"sessions_index">>
        BY <1>2, <2>3
      <3>2. Len(Up[v]) = 1 /\ DOMAIN Up[v] = 1..1
        BY <3>1
      <3> QED BY <3>2
    <2>4. CASE v = 4
      <3>1. Up[v] = <<"operation_column", "operation_index">>
        BY <1>2, <2>4
      <3>2. Len(Up[v]) = 2 /\ DOMAIN Up[v] = 1..2
        BY <3>1
      <3> QED BY <3>2
    <2>5. CASE v = 5
      <3>1. Up[v] = <<"scan_index">>
        BY <1>2, <2>5
      <3>2. Len(Up[v]) = 1 /\ DOMAIN Up[v] = 1..1
        BY <3>1
      <3> QED BY <3>2
    <2> QED BY <1>1, <2>1, <2>2, <2>3, <2>4, <2>5
  <1>4. Len(Up[v]) \in Nat /\ Len(Up[v]) >= 1 /\ v \in Nat
    <2>1. v \in Nat
      BY <1>1
    <2>2. PICK l \in {1, 2, 5} : l = Len(Up[v])
      BY <1>3
    <2>3. l \in Nat /\ l >= 1
      OBVIOUS
    <2> QED BY <2>1, <2>2, <2>3
  <1>5. Effects(v) = {Up[v][i] : i \in 1..Len(Up[v])} \ {"backfill", "duplicates"}
    BY <1>3 DEF Effects
  <1> QED BY <1>4, <1>5

\* A nonempty set of versions has a first one.
LEMMA FirstIn ==
  ASSUME NEW S, S \subseteq Nat, S # {}
  PROVE  First(S) \in S
  <1>1. \A x, y \in Nat : <<y, x>> \in OpToRel(<, Nat) <=> y < x
    BY Zenon DEF OpToRel
  <1>2. PICK x \in S : \A y \in S : ~(<<y, x>> \in OpToRel(<, Nat))
    BY NatLessThanWellFounded, WFMin, Zenon
  <1>3. \A y \in S : ~(y < x)
    BY <1>1, <1>2, Zenon
  <1>4. \A y \in S : x <= y
    BY <1>3
  <1> QED BY <1>4 DEF First

\* The versions a release knows are versions of Up.
LEMMA ReleaseVersions ==
  ASSUME MigrationAssumption, NEW r \in Releases
  PROVE  DOMAIN r \subseteq Versions /\ Versions \subseteq Nat
  <1>1. r \in Seq(Nat) /\ Len(r) \in 1..Len(Up) /\ Len(Up) \in Nat
    BY DEF MigrationAssumption, Up
  <1>2. DOMAIN r = 1..Len(r)
    BY <1>1, LenProperties
  <1> QED BY <1>1, <1>2 DEF Versions

\* What is left to do is some version.
LEMMA NextVersion ==
  ASSUME MigrationAssumption, NEW r \in Releases, NEW S, S \subseteq DOMAIN r, S # {}
  PROVE  First(S) \in S /\ First(S) \in Versions
  BY ReleaseVersions, FirstIn

\* A process does not disturb what the others have done: nobody but the holder
\* of the lock records a version.
LEMMA Others ==
  ASSUME SchemaInv, NEW p \in Procs, NEW d \in Procs, proc'[d] = proc[d], d # p,
         lock = d <=> lock' = d, schema \subseteq schema', DOMAIN history \subseteq DOMAIN history',
         history' = history \/ lock = p
  PROVE  Migrating(d)'
  <1>1. Migrating(d)
    BY DEF SchemaInv
  <1>2. CASE lock = d
    <2>1. history' = history /\ lock' = d
      BY <1>2
    <2> QED BY <1>1, <1>2, <2>1 DEF Migrating, Executed, Pending
  <1>3. CASE lock # d
    <2>1. proc[d].phase \notin {"load", "execute", "record"} /\ lock' # d
      BY <1>1, <1>3 DEF Migrating
    <2> QED BY <1>1, <2>1 DEF Migrating, Pending
  <1> QED BY <1>2, <1>3

\* A step of one process.
LEMMA ProcessStep ==
  ASSUME SchemaInv, NEW p \in Procs, NEW q \in {Off} \cup Started, proc' = [proc EXCEPT ![p] = q],
         lock' \in Procs \cup {Nobody}, \A d \in Procs : d # p => (lock = d <=> lock' = d),
         schema \subseteq schema', DOMAIN history \subseteq DOMAIN history', DOMAIN history' \subseteq Versions,
         history' = history \/ lock = p,
         \A v \in DOMAIN history' : Effects(v) \subseteq schema',
         unidentified' \in Nat, "notnull" \in schema' => unidentified' = 0, Migrating(p)'
  PROVE  SchemaInv'
  <1>1. proc \in [Procs -> {Off} \cup Started]
    BY DEF SchemaInv
  <1>2. proc' \in [Procs -> {Off} \cup Started] /\ \A d \in Procs : d # p => proc'[d] = proc[d]
    BY <1>1
  <1>3. \A d \in Procs : Migrating(d)'
    BY <1>2, Others
  <1> QED BY <1>2, <1>3 DEF SchemaInv

\* A step that leaves the recorded schema alone.
LEMMA ProcessMoves ==
  ASSUME SchemaInv, NEW p \in Procs, NEW q \in {Off} \cup Started, proc' = [proc EXCEPT ![p] = q],
         lock' \in Procs \cup {Nobody}, \A d \in Procs : d # p => (lock = d <=> lock' = d),
         UNCHANGED <<history, schema, unidentified>>, Migrating(p)'
  PROVE  SchemaInv'
  <1>1. /\ DOMAIN history \subseteq Versions /\ unidentified \in Nat
        /\ \A v \in DOMAIN history : Effects(v) \subseteq schema
        /\ "notnull" \in schema => unidentified = 0
    BY DEF SchemaInv
  <1>2. /\ DOMAIN history' \subseteq Versions /\ unidentified' \in Nat
        /\ \A v \in DOMAIN history' : Effects(v) \subseteq schema'
        /\ "notnull" \in schema' => unidentified' = 0
        /\ schema \subseteq schema' /\ DOMAIN history \subseteq DOMAIN history' /\ history' = history
    BY <1>1
  <1> QED BY <1>2, ProcessStep

\* What a process finds when it takes a step.
LEMMA ProcessIs ==
  ASSUME SchemaInv, NEW p \in Procs, ~In(p, "off")
  PROVE  \E q \in Started : q = proc[p]
  BY DEF SchemaInv, In, Off

\* The process exits and holds no lock.
LEMMA ExitsInv ==
  ASSUME SchemaInv, MigrationAssumption, NEW p \in Procs, proc' = [proc EXCEPT ![p] = Off],
         lock' = (IF lock = p THEN Nobody ELSE lock),
         UNCHANGED <<history, schema, unidentified>>
  PROVE  SchemaInv'
  <1>1. lock \in Procs \cup {Nobody} /\ proc \in [Procs -> {Off} \cup Started] /\ Nobody \notin Procs
    BY DEF SchemaInv, MigrationAssumption
  <1>2. lock' \in Procs \cup {Nobody} /\ lock' # p /\ \A d \in Procs : d # p => (lock = d <=> lock' = d)
    BY <1>1
  <1>3. proc'[p].phase = "off"
    BY <1>1 DEF Off
  <1>4. Migrating(p)'
    BY <1>2, <1>3 DEF Migrating
  <1> QED BY <1>2, <1>4, ProcessMoves

\* Start: the process has done nothing yet.
LEMMA StartInv ==
  ASSUME SchemaInv, MigrationAssumption, StartupAssumption, NEW p \in Procs, Start(p)
  PROVE  SchemaInv'
  <1>1. lock \in Procs \cup {Nobody} /\ proc \in [Procs -> {Off} \cup Started]
    BY DEF SchemaInv
  <1>2. PICK m \in Modes[p] :
          proc' = [proc EXCEPT ![p] =
                     [phase |-> "lock", mode |-> m[1], release |-> m[2], todo |-> {}, at |-> 1]]
    BY DEF Start
  <1>3. m[1] \in {"up", "verify", "compatibility"} /\ m[2] \in Releases
    BY DEF StartupAssumption
  <1>4. PICK q : q = [phase |-> "lock", mode |-> m[1], release |-> m[2], todo |-> {}, at |-> 1]
    OBVIOUS
  <1>5. q \in Started /\ q.phase = "lock" /\ q.at = 1
    BY <1>3, <1>4 DEF Started, Phases
  <1>6. proc' = [proc EXCEPT ![p] = q] /\ proc'[p] = q
    BY <1>1, <1>2, <1>4
  <1>7. lock # p /\ UNCHANGED <<lock, history, schema, unidentified>>
    BY DEF SchemaInv, Migrating, Start, In, schemaVars
  <1>8. Migrating(p)'
    BY <1>5, <1>6, <1>7 DEF Migrating
  <1> QED BY <1>1, <1>5, <1>6, <1>7, <1>8, ProcessMoves

\* TakeLock: nobody else migrates.
LEMMA TakeLockInv ==
  ASSUME SchemaInv, MigrationAssumption, NEW p \in Procs, TakeLock(p)
  PROVE  SchemaInv'
  <1>1. PICK q \in Started : q = proc[p]
    BY ProcessIs DEF TakeLock, In
  <1>2. PICK t : t = [q EXCEPT !.phase = "load"]
    OBVIOUS
  <1>3. t \in Started /\ t.phase = "load" /\ t.at = q.at
    BY <1>2 DEF Started, Phases
  <1>4. proc \in [Procs -> {Off} \cup Started] /\ proc' = [proc EXCEPT ![p] = t] /\ proc'[p] = t
    BY <1>1, <1>2 DEF SchemaInv, TakeLock, Enter
  <1>5. /\ lock = Nobody /\ lock' = p /\ UNCHANGED <<history, schema, unidentified>> /\ q.at = 1
        /\ Nobody \notin Procs
    BY <1>1 DEF TakeLock, MigrationAssumption, SchemaInv, Migrating, In
  <1>6. Migrating(p)'
    BY <1>3, <1>4, <1>5 DEF Migrating
  <1> QED BY <1>3, <1>4, <1>5, <1>6, ProcessMoves

\* All migrations of the release are recorded.
LEMMA ProceedInv ==
  ASSUME SchemaInv, MigrationAssumption, NEW p \in Procs, NEW q \in Started, q = proc[p], lock = p,
         Proceed(p), UNCHANGED <<schema, unidentified>>,
         DOMAIN history \subseteq DOMAIN history', DOMAIN history' \subseteq Versions,
         \A v \in DOMAIN history' : Effects(v) \subseteq schema,
         DOMAIN q.release \subseteq DOMAIN history'
  PROVE  SchemaInv'
  <1>1. proc \in [Procs -> {Off} \cup Started]
    BY DEF SchemaInv
  <1>2. PICK t : t = IF q.mode = "up" THEN Off ELSE [q EXCEPT !.phase = "redis", !.todo = {}, !.at = 1]
    OBVIOUS
  <1>3. t \in {Off} \cup Started /\ t.phase \in {"off", "redis"} /\ (t.phase = "redis" => t.release = q.release)
    <2>1. CASE q.mode = "up"
      BY <1>2, <2>1 DEF Off
    <2>2. CASE q.mode # "up"
      BY <1>2, <2>2 DEF Started, Phases
    <2> QED BY <2>1, <2>2
  <1>4. proc' = [proc EXCEPT ![p] = t]
    BY <1>1, <1>2 DEF Proceed
  <1>5. lock' = Nobody /\ Nobody \notin Procs /\ proc'[p] = t
    BY <1>1, <1>4 DEF Proceed, MigrationAssumption
  <1>6. Migrating(p)'
    BY <1>3, <1>5 DEF Migrating, Pending
  <1>7. /\ unidentified' \in Nat /\ ("notnull" \in schema' => unidentified' = 0) /\ schema \subseteq schema'
        /\ \A v \in DOMAIN history' : Effects(v) \subseteq schema'
    BY DEF SchemaInv
  <1> QED BY <1>3, <1>4, <1>5, <1>6, <1>7, ProcessStep

\* Load: the process finds its history complete, gives up, or begins with the
\* first version that is missing.
LEMMA LoadInv ==
  ASSUME SchemaInv, MigrationAssumption, NEW p \in Procs, Load(p)
  PROVE  SchemaInv'
  <1>1. PICK q \in Started : q = proc[p] /\ q.phase = "load"
    BY ProcessIs DEF Load, In
  <1>2. lock = p /\ q.at = 1 /\ proc \in [Procs -> {Off} \cup Started] /\ q.release \in Releases
    BY <1>1 DEF SchemaInv, Migrating, Started
  <1>3. UNCHANGED <<history, schema, unidentified>>
    BY DEF Load
  <1>4. /\ DOMAIN history' \subseteq Versions /\ DOMAIN history \subseteq DOMAIN history'
        /\ \A v \in DOMAIN history' : Effects(v) \subseteq schema
    BY <1>3 DEF SchemaInv
  <1>5. CASE GiveUp(p)
    BY <1>2, <1>3, <1>5, ExitsInv DEF GiveUp
  <1>6. CASE Proceed(p) /\ Pending(q.release) = {}
    <2>1. DOMAIN q.release \subseteq DOMAIN history'
      BY <1>3, <1>6 DEF Pending
    <2> QED BY <1>1, <1>2, <1>3, <1>4, <1>6, <2>1, ProceedInv
  <1>7. CASE /\ proc' = [proc EXCEPT ![p].phase = "execute", ![p].todo = Pending(q.release)]
             /\ UNCHANGED lock /\ Pending(q.release) # {}
    <2>1. PICK S : S = Pending(q.release)
      OBVIOUS
    <2>2. S \subseteq DOMAIN q.release /\ S # {} /\ S \subseteq Nat
      BY <1>2, <1>7, <2>1, ReleaseVersions DEF Pending
    <2>3. First(S) \in Versions
      BY <1>2, <2>2, NextVersion
    <2>4. PICK t : t = [q EXCEPT !.phase = "execute", !.todo = S]
      OBVIOUS
    <2>5. /\ t \in Started /\ t.phase = "execute" /\ t.todo = S /\ t.at = 1 /\ t.release = q.release
      BY <1>2, <2>2, <2>4 DEF Started, Phases
    <2>6. proc' = [proc EXCEPT ![p] = t] /\ proc'[p] = t
      BY <1>1, <1>2, <1>7, <2>1, <2>4
    <2>7. 1 \in 1..Len(Up[First(S)]) /\ \A j \in 1..Len(Up[First(S)]) : ~(j < 1)
      BY <2>3, UpShape
    <2>8. Executed(First(S), 1)'
      BY <2>7 DEF Executed
    <2>9. Pending(q.release)' = S
      BY <1>3, <2>1 DEF Pending
    <2>10. Migrating(p)'
      BY <1>2, <1>7, <2>2, <2>5, <2>6, <2>7, <2>8, <2>9 DEF Migrating
    <2> QED BY <1>2, <1>3, <1>7, <2>5, <2>6, <2>10, ProcessMoves
  <1>8. \/ GiveUp(p)
        \/ Proceed(p) /\ Pending(q.release) = {}
        \/ /\ proc' = [proc EXCEPT ![p].phase = "execute", ![p].todo = Pending(q.release)]
           /\ UNCHANGED lock /\ Pending(q.release) # {}
    <2>1. CASE q.mode = "verify"
      <3>1. IF Verifies(q.release) THEN Proceed(p) ELSE GiveUp(p)
        BY <1>1, <2>1 DEF Load, Release
      <3>2. Verifies(q.release) => Pending(q.release) = {}
        BY DEF Verifies
      <3> QED BY <3>1, <3>2
    <2>2. CASE q.mode # "verify" /\ ~Matches(q.release)
      <3>1. GiveUp(p)
        BY <1>1, <2>2 DEF Load, Release
      <3> QED BY <3>1
    <2>3. CASE q.mode # "verify" /\ Matches(q.release) /\ Pending(q.release) = {}
      BY <1>1, <2>3 DEF Load, Release
    <2>4. CASE q.mode # "verify" /\ Matches(q.release) /\ Pending(q.release) # {}
      BY <1>1, <2>4 DEF Load, Release
    <2> QED BY <2>1, <2>2, <2>3, <2>4
  <1> QED BY <1>5, <1>6, <1>7, <1>8

\* ExecuteNext: one more statement of the version has left its mark.
LEMMA ExecuteNextInv ==
  ASSUME SchemaInv, MigrationAssumption, NEW p \in Procs, ExecuteNext(p)
  PROVE  SchemaInv'
  <1>1. PICK q \in Started : q = proc[p] /\ q.phase = "execute"
    BY ProcessIs DEF ExecuteNext, In
  <1>2. /\ lock = p /\ proc \in [Procs -> {Off} \cup Started] /\ q.release \in Releases
        /\ q.todo = Pending(q.release) /\ q.todo # {} /\ Executed(First(q.todo), q.at)
        /\ q.at \in 1..Len(Up[First(q.todo)])
    BY <1>1 DEF SchemaInv, Migrating, Started
  <1>3. PICK v \in Versions : v = First(q.todo)
    BY <1>2, NextVersion DEF Pending
  <1>4. PICK i \in 1..Len(Up[v]) : i = q.at
    BY <1>2, <1>3
  <1>5. PICK s : s = Up[v][i]
    OBVIOUS
  <1>6. Len(Up[v]) \in Nat /\ i \in Nat
    BY UpShape
  <1>7. UNCHANGED history
    BY DEF ExecuteNext
  <1>8. \/ GiveUp(p) /\ UNCHANGED <<schema, unidentified>>
        \/ /\ Execute(s) /\ UNCHANGED lock
           /\ proc' = [proc EXCEPT ![p].at = @ + 1,
                                   ![p].phase = IF proc[p].at = Len(Up[v]) THEN "record" ELSE "execute"]
    BY <1>1, <1>3, <1>4, <1>5 DEF ExecuteNext
  <1>9. CASE GiveUp(p) /\ UNCHANGED <<schema, unidentified>>
    BY <1>2, <1>7, <1>9, ExitsInv DEF GiveUp
  <1>10. CASE /\ Execute(s) /\ UNCHANGED lock
              /\ proc' = [proc EXCEPT ![p].at = @ + 1,
                                      ![p].phase = IF proc[p].at = Len(Up[v]) THEN "record" ELSE "execute"]
    <2>1. PICK ph \in {"record", "execute"} : ph = IF i = Len(Up[v]) THEN "record" ELSE "execute"
      OBVIOUS
    <2>2. PICK k \in Nat : k = i + 1
      BY <1>6
    <2>3. PICK t : t = [q EXCEPT !.at = k, !.phase = ph]
      OBVIOUS
    <2>4. t \in Started /\ t.phase = ph /\ t.at = k /\ t.todo = q.todo /\ t.release = q.release
      BY <2>3 DEF Started, Phases
    <2>5. proc' = [proc EXCEPT ![p] = t] /\ proc'[p] = t
      BY <1>1, <1>2, <1>4, <1>10, <2>1, <2>2, <2>3
    <2>6. schema \subseteq schema' /\ s \in schema' \cup {"backfill", "duplicates"}
      BY <1>10 DEF Execute
    <2>7. Executed(v, k)'
      <3> SUFFICES ASSUME NEW j \in 1..Len(Up[v]), j < k
                   PROVE  Up[v][j] \in schema' \cup {"backfill", "duplicates"}
        BY DEF Executed
      <3>1. j = i \/ j < i
        BY <1>6, <2>2
      <3>2. CASE j = i
        BY <1>5, <2>6, <3>2
      <3>3. CASE j < i
        <4>1. Up[v][j] \in schema \cup {"backfill", "duplicates"}
          BY <1>2, <1>3, <1>4, <3>3 DEF Executed
        <4> QED BY <2>6, <4>1
      <3> QED BY <3>1, <3>2, <3>3
    <2>8. Pending(q.release)' = q.todo
      BY <1>2, <1>7 DEF Pending
    <2>9. (ph = "execute" => k \in 1..Len(Up[v])) /\ (ph = "record" => k = Len(Up[v]) + 1)
      BY <1>6, <2>1, <2>2
    <2>10. Migrating(p)'
      BY <1>2, <1>3, <1>10, <2>1, <2>4, <2>5, <2>7, <2>8, <2>9 DEF Migrating
    <2>11. unidentified' \in Nat /\ ("notnull" \in schema' => unidentified' = 0)
      <3>1. unidentified \in Nat /\ ("notnull" \in schema => unidentified = 0)
        BY DEF SchemaInv
      <3>2. s = "notnull" => unidentified = 0
        BY <1>10, <3>1 DEF Execute, Refuses
      <3>3. unidentified' = 0 \/ unidentified' = unidentified
        BY <1>10 DEF Execute
      <3>4. "notnull" \in schema' => "notnull" \in schema \/ s = "notnull"
        BY <1>10 DEF Execute
      <3> QED BY <3>1, <3>2, <3>3, <3>4
    <2>12. /\ DOMAIN history' \subseteq Versions /\ DOMAIN history \subseteq DOMAIN history'
           /\ \A w \in DOMAIN history' : Effects(w) \subseteq schema'
      BY <1>7, <2>6 DEF SchemaInv
    <2> QED BY <1>2, <1>7, <1>10, <2>4, <2>5, <2>6, <2>10, <2>11, <2>12, ProcessStep
  <1> QED BY <1>8, <1>9, <1>10

\* A version is recorded when all of its statements have run.
LEMMA RecordInv ==
  ASSUME SchemaInv, MigrationAssumption, NEW p \in Procs, Record(p)
  PROVE  SchemaInv'
  <1>1. PICK q \in Started : q = proc[p] /\ q.phase = "record"
    BY ProcessIs DEF Record, In
  <1>2. /\ lock = p /\ proc \in [Procs -> {Off} \cup Started] /\ q.release \in Releases
        /\ q.todo = Pending(q.release) /\ q.todo # {} /\ Executed(First(q.todo), q.at)
        /\ q.at = Len(Up[First(q.todo)]) + 1
    BY <1>1 DEF SchemaInv, Migrating, Started
  <1>3. PICK v \in Versions : v = First(q.todo) /\ v \in q.todo
    BY <1>2, NextVersion DEF Pending
  <1>4. UNCHANGED <<schema, unidentified>>
    BY DEF Record
  <1>5. DOMAIN history' = DOMAIN history \cup {v}
    BY <1>1, <1>3 DEF Record
  <1>6. Effects(v) \subseteq schema
    <2>1. Len(Up[v]) \in Nat /\ Effects(v) = {Up[v][i] : i \in 1..Len(Up[v])} \ {"backfill", "duplicates"}
      BY UpShape
    <2>2. \A j \in 1..Len(Up[v]) : j < Len(Up[v]) + 1
      BY <2>1
    <2>3. \A j \in 1..Len(Up[v]) : Up[v][j] \in schema \cup {"backfill", "duplicates"}
      BY <1>2, <1>3, <2>2 DEF Executed
    <2> QED BY <2>1, <2>3
  <1>7. /\ DOMAIN history' \subseteq Versions /\ DOMAIN history \subseteq DOMAIN history'
        /\ \A w \in DOMAIN history' : Effects(w) \subseteq schema
    BY <1>5, <1>6 DEF SchemaInv
  <1>8. Pending(q.release)' = q.todo \ {v}
    BY <1>2, <1>5 DEF Pending
  <1>9. CASE q.todo = {v}
    <2>1. Proceed(p)
      BY <1>1, <1>3, <1>9 DEF Record
    <2>2. DOMAIN q.release \subseteq DOMAIN history'
      BY <1>8, <1>9 DEF Pending
    <2> QED BY <1>1, <1>2, <1>4, <1>7, <2>1, <2>2, ProceedInv
  <1>10. CASE q.todo # {v}
    <2>1. PICK S : S = q.todo \ {v}
      OBVIOUS
    <2>2. S \subseteq DOMAIN q.release /\ S # {} /\ S \subseteq Nat
      BY <1>2, <1>3, <1>10, <2>1, ReleaseVersions DEF Pending
    <2>3. First(S) \in Versions
      BY <1>2, <2>2, NextVersion
    <2>4. PICK t : t = [q EXCEPT !.phase = "execute", !.todo = S, !.at = 1]
      OBVIOUS
    <2>5. /\ t \in Started /\ t.phase = "execute" /\ t.todo = S /\ t.at = 1 /\ t.release = q.release
      BY <2>2, <2>4 DEF Started, Phases
    <2>6. /\ proc' = [proc EXCEPT ![p].phase = "execute", ![p].todo = @ \ {v}, ![p].at = 1]
          /\ UNCHANGED lock
      BY <1>1, <1>3, <1>10 DEF Record
    <2>7. proc' = [proc EXCEPT ![p] = t] /\ proc'[p] = t
      BY <1>1, <1>2, <2>1, <2>4, <2>6
    <2>8. 1 \in 1..Len(Up[First(S)]) /\ \A j \in 1..Len(Up[First(S)]) : ~(j < 1)
      BY <2>3, UpShape
    <2>9. Executed(First(S), 1)'
      BY <2>8 DEF Executed
    <2>10. Migrating(p)'
      BY <1>2, <1>8, <2>1, <2>2, <2>5, <2>6, <2>7, <2>8, <2>9 DEF Migrating
    <2>11. /\ unidentified' \in Nat /\ ("notnull" \in schema' => unidentified' = 0) /\ schema \subseteq schema'
           /\ \A w \in DOMAIN history' : Effects(w) \subseteq schema' /\ lock' \in Procs \cup {Nobody}
      BY <1>2, <1>4, <1>7, <2>6 DEF SchemaInv
    <2> QED BY <1>2, <1>7, <2>5, <2>6, <2>7, <2>10, <2>11, ProcessStep
  <1> QED BY <1>9, <1>10

\* Serve: the history is still complete, since versions are never removed.
LEMMA ServeInv ==
  ASSUME SchemaInv, NEW p \in Procs, Serve(p)
  PROVE  SchemaInv'
  <1>1. PICK q \in Started : q = proc[p] /\ q.phase = "redis"
    BY ProcessIs DEF Serve, In
  <1>2. /\ proc \in [Procs -> {Off} \cup Started] /\ lock \in Procs \cup {Nobody} /\ lock # p
        /\ Pending(q.release) = {}
    BY <1>1 DEF SchemaInv, Migrating
  <1>3. PICK t : t = [q EXCEPT !.phase = "up"]
    OBVIOUS
  <1>4. t \in Started /\ t.phase = "up" /\ t.release = q.release
    BY <1>3 DEF Started, Phases
  <1>5. proc' = [proc EXCEPT ![p] = t] /\ proc'[p] = t /\ UNCHANGED <<lock, history, schema, unidentified>>
    BY <1>1, <1>2, <1>3 DEF Serve, Enter, schemaVars
  <1>6. Migrating(p)'
    BY <1>2, <1>4, <1>5 DEF Migrating, Pending
  <1> QED BY <1>2, <1>4, <1>5, <1>6, ProcessMoves

\* A message of an older binary arrives before its column is NOT NULL.
LEMMA LegacyInv ==
  ASSUME SchemaInv, LegacyInsert, UNCHANGED proc
  PROVE  SchemaInv'
  <1>1. \A p \in Procs : Migrating(p)'
    BY DEF SchemaInv, LegacyInsert, Migrating, Executed, Pending
  <1>2. unidentified' \in Nat /\ "notnull" \notin schema'
    BY DEF SchemaInv, LegacyInsert
  <1> QED BY <1>1, <1>2 DEF SchemaInv, LegacyInsert

\* A step that leaves the schema and the processes alone.
LEMMA SchemaStays ==
  ASSUME SchemaInv, UNCHANGED <<schemaVars, proc>>
  PROVE  SchemaInv'
  <1>1. UNCHANGED <<lock, history, schema, unidentified, proc>>
    BY DEF schemaVars
  <1>2. \A p \in Procs : Migrating(p)'
    BY <1>1 DEF SchemaInv, Migrating, Executed, Pending
  <1> QED BY <1>1, <1>2 DEF SchemaInv

\* Every step keeps the schema and its migrations consistent.
LEMMA SchemaNext ==
  ASSUME SchemaInv, MigrationAssumption, StartupAssumption, [Next]_vars
  PROVE  SchemaInv'
  <1>1. ASSUME NEW p \in Procs, Boot(p)
        PROVE  SchemaInv'
    BY <1>1, StartInv, TakeLockInv, LoadInv, ExecuteNextInv, RecordInv, ServeInv DEF Boot, Starting
  <1>2. ASSUME NEW p \in Procs, Crash(p)
        PROVE  SchemaInv'
    BY <1>2, ExitsInv DEF Crash, Die
  <1>3. ASSUME NEW p \in Procs, EmailLoop(p)
        PROVE  SchemaInv'
    BY <1>3, SchemaStays DEF EmailLoop, WakeUp, ListPending, SendMail, Mark, Undisturbed
  <1>4. ASSUME NEW r \in Requests, Handle(r)
        PROVE  SchemaInv'
    BY <1>4, SchemaStays DEF Handle
  <1>5. ASSUME NEW r \in Requests, Request(r)
        PROVE  SchemaInv'
    BY <1>5, SchemaStays DEF Request, StoreCaptcha, MailCaptcha, DeleteCaptcha, CheckEmail, ConsumeCaptcha,
         InsertUser, Notify, CheckPassword, UpgradePasswordHash, ClearLoginAccountLimit, Elsewhere
  <1>6. ASSUME NEW e \in Emails, BackoffEnds(e) \/ CaptchaExpires(e)
        PROVE  SchemaInv'
    BY <1>6, SchemaStays DEF BackoffEnds, CaptchaExpires, Undisturbed
  <1>7. ASSUME NEW k \in Keys, WindowEnds(k)
        PROVE  SchemaInv'
    BY <1>7, SchemaStays DEF WindowEnds
  <1>8. CASE LegacyInsert /\ UNCHANGED proc
    BY <1>8, LegacyInv
  <1>9. CASE UNCHANGED vars
    BY <1>9, SchemaStays DEF vars
  <1> QED BY <1>1, <1>2, <1>3, <1>4, <1>5, <1>6, <1>7, <1>8, <1>9 DEF Next

-----------------------------------------------------------------------------
(* The captchas.                                                           *)

\* The requests go on without a captcha they did not have.
RequestsKeep ==
  /\ req' \in [Requests -> {Idle} \cup Handled]
  /\ \A s \in Requests : req'[s].pc \in CaptchaPcs =>
       req[s].pc \in CaptchaPcs /\ req'[s].code = req[s].code
  /\ \A s \in Requests : req'[s].pc \in {"store", "mail"} => req[s].pc \in {"store", "mail"}

\* One request takes a step.
LEMMA OneRequest ==
  ASSUME CaptchaInv, NEW r \in Requests, NEW t \in {Idle} \cup Handled, req' = [req EXCEPT ![r] = t],
         t.pc \in CaptchaPcs => req[r].pc \in CaptchaPcs /\ t.code = req[r].code,
         t.pc \in {"store", "mail"} => req[r].pc \in {"store", "mail"}
  PROVE  RequestsKeep
  <1>1. req \in [Requests -> {Idle} \cup Handled]
    BY DEF CaptchaInv, RequestsTyped
  <1>2. /\ req' \in [Requests -> {Idle} \cup Handled] /\ req'[r] = t
        /\ \A s \in Requests : s # r => req'[s] = req[s]
    BY <1>1
  <1> QED BY <1>2 DEF RequestsKeep

\* A request finishes or moves on.
LEMMA RequestEnds ==
  ASSUME CaptchaInv, NEW r \in Requests, Finish(r)
  PROVE  RequestsKeep
  <1>1. Idle.pc \notin CaptchaPcs /\ Idle.pc \notin {"store", "mail"}
    BY DEF Idle, CaptchaPcs
  <1> QED BY <1>1, OneRequest DEF Finish

\* A request under way has its record.
LEMMA RequestIs ==
  ASSUME CaptchaInv, NEW r \in Requests, req[r].pc # "idle"
  PROVE  \E q \in Handled : q = req[r]
  BY DEF CaptchaInv, RequestsTyped, Idle

\* A request moves on with the captcha it has.
LEMMA RequestMoves ==
  ASSUME CaptchaInv, NEW r \in Requests, NEW pc \in RequestPcs, Goto(r, pc), req[r].pc # "idle",
         pc \in CaptchaPcs => req[r].pc \in CaptchaPcs,
         pc \in {"store", "mail"} => req[r].pc \in {"store", "mail"}
  PROVE  RequestsKeep
  <1>1. PICK q \in Handled : q = req[r]
    BY RequestIs
  <1>2. PICK t : t = [q EXCEPT !.pc = pc]
    OBVIOUS
  <1>3. t \in Handled /\ t.pc = pc /\ t.code = q.code
    BY <1>2 DEF Handled
  <1>4. req' = [req EXCEPT ![r] = t]
    BY <1>1, <1>2 DEF Goto, CaptchaInv, RequestsTyped
  <1> QED BY <1>1, <1>3, <1>4, OneRequest

\* A captcha is stored, used or expires, in Redis and for the observer alike.
LEMMA CaptchaKept ==
  ASSUME CaptchaInv, RequestsKeep, UNCHANGED <<issued, told, script>>,
         captcha' \in [Emails -> Nat], stored' \in [Emails -> Nat],
         \A e \in Emails : \/ captcha'[e] = captcha[e] /\ stored'[e] = stored[e]
                           \/ captcha'[e] = stored'[e] /\ stored'[e] <= issued
  PROVE  CaptchaInv'
  <1>1. RequestsTyped'
    BY DEF CaptchaInv, RequestsTyped, RequestsKeep
  <1>2. CodesAreOwn'
    <2>1. told' \subseteq 1..issued' /\ \A e \in Emails : stored'[e] <= issued'
      BY DEF CaptchaInv, CodesAreOwn
    <2>2. \A r \in Requests : req'[r].pc \in CaptchaPcs => req'[r].code \in 1..issued' \ told'
      BY DEF CaptchaInv, CodesAreOwn, RequestsKeep
    <2>3. \A r, s \in Requests : /\ req'[r].pc \in CaptchaPcs /\ req'[s].pc \in CaptchaPcs
                                 /\ req'[r].code = req'[s].code
                                 => r = s
      BY DEF CaptchaInv, CodesAreOwn, RequestsKeep
    <2> QED BY <2>1, <2>2, <2>3 DEF CodesAreOwn
  <1>3. LostIsUnreported'
    <2> SUFFICES ASSUME NEW e \in Emails, captcha'[e] # stored'[e]
                 PROVE  /\ stored'[e] \notin told'
                        /\ \A r \in Requests : req'[r].pc \in {"store", "mail"} => req'[r].code # stored'[e]
      BY DEF LostIsUnreported
    <2>1. captcha'[e] = captcha[e] /\ stored'[e] = stored[e]
      OBVIOUS
    <2>2. /\ stored[e] \notin told
          /\ \A r \in Requests : req[r].pc \in {"store", "mail"} => req[r].code # stored[e]
      BY <2>1 DEF CaptchaInv, LostIsUnreported
    <2> QED BY <2>1, <2>2 DEF RequestsKeep, CaptchaPcs
  <1> QED BY <1>1, <1>2, <1>3 DEF CaptchaInv

\* A step that leaves the captchas alone.
LEMMA CaptchaStays ==
  ASSUME CaptchaInv, RequestsKeep, UNCHANGED <<issued, told, script, captcha, stored>>
  PROVE  CaptchaInv'
  BY CaptchaKept DEF CaptchaInv, RequestsTyped

\* No request takes a step.
LEMMA NoRequest ==
  ASSUME CaptchaInv, UNCHANGED req
  PROVE  RequestsKeep
  BY DEF RequestsKeep, CaptchaInv, RequestsTyped

\* A captcha that is stored is a new one.
LEMMA StoreCaptchaInv ==
  ASSUME CaptchaInv, NEW r \in Requests, StoreCaptcha(r)
  PROVE  CaptchaInv'
  <1>1. PICK q \in Handled : q = req[r] /\ q.pc = "store"
    BY RequestIs DEF StoreCaptcha, At
  <1>2. q.email \in Emails /\ q.code \in Nat /\ q.code <= issued /\ issued \in Nat
    <2>1. q.email \in Emails /\ q.code \in Nat /\ issued \in Nat
      BY DEF Handled, CaptchaInv, RequestsTyped
    <2>2. q.code \in 1..issued
      BY <1>1 DEF CaptchaInv, CodesAreOwn, CaptchaPcs
    <2> QED BY <2>1, <2>2
  <1>3. UNCHANGED <<issued, told, script>> /\ captcha \in [Emails -> Nat] /\ stored \in [Emails -> Nat]
    BY DEF StoreCaptcha, Elsewhere, CaptchaInv, RequestsTyped
  <1>4. CASE /\ Goto(r, "mail") /\ captcha' = [captcha EXCEPT ![q.email] = q.code]
             /\ stored' = [stored EXCEPT ![q.email] = q.code]
    <2>1. RequestsKeep
      BY <1>1, <1>4, RequestMoves DEF RequestPcs, CaptchaPcs
    <2>2. /\ captcha' \in [Emails -> Nat] /\ stored' \in [Emails -> Nat]
          /\ \A e \in Emails : \/ captcha'[e] = captcha[e] /\ stored'[e] = stored[e]
                               \/ captcha'[e] = stored'[e] /\ stored'[e] <= issued
      BY <1>2, <1>3, <1>4
    <2> QED BY <1>3, <2>1, <2>2, CaptchaKept
  <1>5. CASE Finish(r) /\ UNCHANGED <<captcha, stored>>
    BY <1>3, <1>5, RequestEnds, CaptchaStays
  <1> QED BY <1>1, <1>4, <1>5 DEF StoreCaptcha, Email

\* A captcha that is reported is still the one in Redis.
LEMMA MailCaptchaInv ==
  ASSUME CaptchaInv, NEW r \in Requests, MailCaptcha(r)
  PROVE  CaptchaInv'
  <1>1. PICK q \in Handled : q = req[r] /\ q.pc = "mail"
    BY RequestIs DEF MailCaptcha, At
  <1>2. UNCHANGED <<issued, script, captcha, stored>>
    BY DEF MailCaptcha, Elsewhere, redisVars
  <1>3. CASE Goto(r, "delete") /\ UNCHANGED told
    BY <1>1, <1>2, <1>3, RequestMoves, CaptchaStays DEF RequestPcs, CaptchaPcs
  <1>4. CASE Finish(r) /\ told' = told \cup {q.code}
    <2>1. RequestsKeep
      BY <1>4, RequestEnds
    <2>2. req'[r] = Idle /\ Idle.pc \notin CaptchaPcs
      BY <1>4 DEF Finish, CaptchaInv, RequestsTyped, Idle, CaptchaPcs
    <2>3. RequestsTyped'
      BY <1>2, <2>1 DEF CaptchaInv, RequestsTyped, RequestsKeep
    <2>4. CodesAreOwn
      BY DEF CaptchaInv
    <2>5. q.code \in 1..issued /\ q.pc \in CaptchaPcs
      BY <1>1, <2>4 DEF CodesAreOwn, CaptchaPcs
    <2>6. \A s \in Requests : req'[s].pc \in CaptchaPcs => req'[s].code \in 1..issued \ told'
      <3> SUFFICES ASSUME NEW s \in Requests, req'[s].pc \in CaptchaPcs
                   PROVE  req'[s].code \in 1..issued \ told'
        OBVIOUS
      <3>1. s # r /\ req[s].pc \in CaptchaPcs /\ req'[s].code = req[s].code
        BY <2>1, <2>2 DEF RequestsKeep
      <3>2. req[s].code # q.code /\ req[s].code \in 1..issued \ told
        BY <1>1, <2>4, <2>5, <3>1 DEF CodesAreOwn
      <3> QED BY <1>4, <3>1, <3>2
    <2>7. \A s, u \in Requests : /\ req'[s].pc \in CaptchaPcs /\ req'[u].pc \in CaptchaPcs
                                 /\ req'[s].code = req'[u].code
                                 => s = u
      BY <2>1, <2>4 DEF CodesAreOwn, RequestsKeep
    <2>8. told' \subseteq 1..issued /\ \A e \in Emails : stored[e] <= issued
      BY <1>4, <2>4, <2>5 DEF CodesAreOwn
    <2>9. CodesAreOwn'
      BY <1>2, <2>6, <2>7, <2>8 DEF CodesAreOwn
    <2>10. LostIsUnreported'
      <3> SUFFICES ASSUME NEW e \in Emails, captcha[e] # stored[e]
                   PROVE  /\ stored[e] \notin told'
                          /\ \A s \in Requests : req'[s].pc \in {"store", "mail"} => req'[s].code # stored[e]
        BY <1>2 DEF LostIsUnreported
      <3>1. /\ stored[e] \notin told
            /\ \A s \in Requests : req[s].pc \in {"store", "mail"} => req[s].code # stored[e]
        BY DEF CaptchaInv, LostIsUnreported
      <3>2. stored[e] # q.code
        BY <1>1, <3>1
      <3> QED BY <1>4, <2>1, <3>1, <3>2 DEF RequestsKeep, CaptchaPcs
    <2> QED BY <2>3, <2>9, <2>10 DEF CaptchaInv
  <1> QED BY <1>1, <1>3, <1>4 DEF MailCaptcha

\* A captcha that could not be mailed is deleted if it is still there.
LEMMA DeleteCaptchaInv ==
  ASSUME CaptchaInv, NEW r \in Requests, DeleteCaptcha(r)
  PROVE  CaptchaInv'
  <1>1. PICK q \in Handled : q = req[r] /\ q.pc = "delete"
    BY RequestIs DEF DeleteCaptcha, At
  <1>2. UNCHANGED <<issued, told, script, stored>> /\ RequestsKeep
    BY RequestEnds DEF DeleteCaptcha, Elsewhere
  <1>3. CASE captcha' = captcha
    BY <1>2, <1>3, CaptchaStays
  <1>4. CASE captcha[q.email] = q.code /\ captcha' = [captcha EXCEPT ![q.email] = 0]
    <2>1. /\ captcha \in [Emails -> Nat] /\ q.email \in Emails /\ captcha' \in [Emails -> Nat]
          /\ \A e \in Emails : e # q.email => captcha'[e] = captcha[e]
      BY <1>4 DEF CaptchaInv, RequestsTyped, Handled
    <2>2. RequestsTyped'
      BY <1>2, <2>1 DEF CaptchaInv, RequestsTyped, RequestsKeep
    <2>3. CodesAreOwn
      BY DEF CaptchaInv
    <2>4. CodesAreOwn'
      <3>1. \A s \in Requests : req'[s].pc \in CaptchaPcs => req'[s].code \in 1..issued \ told
        BY <1>2, <2>3 DEF CodesAreOwn, RequestsKeep
      <3>2. \A s, u \in Requests : /\ req'[s].pc \in CaptchaPcs /\ req'[u].pc \in CaptchaPcs
                                   /\ req'[s].code = req'[u].code
                                   => s = u
        BY <1>2, <2>3 DEF CodesAreOwn, RequestsKeep
      <3> QED BY <1>2, <2>3, <3>1, <3>2 DEF CodesAreOwn
    <2>5. req'[r].pc \notin CaptchaPcs
      BY DEF DeleteCaptcha, Finish, CaptchaInv, RequestsTyped, Idle, CaptchaPcs
    <2>6. q.code \notin told /\ \A s \in Requests : req'[s].pc \in CaptchaPcs => req'[s].code # q.code
      <3>1. q.pc \in CaptchaPcs /\ q.code \notin told
        BY <1>1, <2>3 DEF CodesAreOwn, CaptchaPcs
      <3>2. ASSUME NEW s \in Requests, req'[s].pc \in CaptchaPcs
            PROVE  req'[s].code # q.code
        <4>1. s # r /\ req[s].pc \in CaptchaPcs /\ req'[s].code = req[s].code
          BY <1>2, <2>5, <3>2 DEF RequestsKeep
        <4> QED BY <1>1, <2>3, <3>1, <4>1 DEF CodesAreOwn
      <3> QED BY <3>1, <3>2
    <2>7. LostIsUnreported'
      <3> SUFFICES ASSUME NEW e \in Emails, captcha'[e] # stored[e]
                   PROVE  /\ stored[e] \notin told
                          /\ \A s \in Requests : req'[s].pc \in {"store", "mail"} => req'[s].code # stored[e]
        BY <1>2 DEF LostIsUnreported
      <3>1. CASE captcha[e] # stored[e]
        <4>1. /\ stored[e] \notin told
              /\ \A s \in Requests : req[s].pc \in {"store", "mail"} => req[s].code # stored[e]
          BY <3>1 DEF CaptchaInv, LostIsUnreported
        <4> QED BY <1>2, <4>1 DEF RequestsKeep, CaptchaPcs
      <3>2. CASE captcha[e] = stored[e]
        <4>1. stored[e] = q.code
          BY <1>4, <2>1, <3>2
        <4> QED BY <2>6, <4>1 DEF CaptchaPcs
      <3> QED BY <3>1, <3>2
    <2> QED BY <2>2, <2>4, <2>7 DEF CaptchaInv
  <1> QED BY <1>1, <1>3, <1>4 DEF DeleteCaptcha, Email

\* The captcha of a registration is used up.
LEMMA ConsumeCaptchaInv ==
  ASSUME CaptchaInv, NEW r \in Requests, ConsumeCaptcha(r)
  PROVE  CaptchaInv'
  <1>1. PICK q \in Handled : q = req[r] /\ q.pc = "consume"
    BY RequestIs DEF ConsumeCaptcha, At
  <1>2. UNCHANGED <<issued, told, script>> /\ issued \in Nat
    BY DEF ConsumeCaptcha, Elsewhere, CaptchaInv, RequestsTyped
  <1>3. RequestsKeep
    <2>1. Goto(r, "insert") \/ Finish(r)
      BY DEF ConsumeCaptcha
    <2> QED BY <1>1, <2>1, RequestEnds, RequestMoves DEF RequestPcs, CaptchaPcs
  <1>4. q.email \in Emails /\ captcha \in [Emails -> Nat] /\ stored \in [Emails -> Nat]
    BY DEF Handled, CaptchaInv, RequestsTyped
  <1>5. \/ captcha' = captcha /\ stored' = stored
        \/ captcha' = [captcha EXCEPT ![q.email] = 0] /\ stored' = [stored EXCEPT ![q.email] = 0]
    BY <1>1 DEF ConsumeCaptcha, Email
  <1>6. /\ captcha' \in [Emails -> Nat] /\ stored' \in [Emails -> Nat]
        /\ \A e \in Emails : \/ captcha'[e] = captcha[e] /\ stored'[e] = stored[e]
                             \/ captcha'[e] = stored'[e] /\ stored'[e] <= issued
    BY <1>2, <1>4, <1>5
  <1> QED BY <1>2, <1>3, <1>6, CaptchaKept

\* An expired captcha is gone for the observer too.
LEMMA CaptchaExpiresInv ==
  ASSUME CaptchaInv, NEW e \in Emails, CaptchaExpires(e)
  PROVE  CaptchaInv'
  <1>1. UNCHANGED <<issued, told, script, req>> /\ issued \in Nat
    BY DEF CaptchaExpires, requestVars, CaptchaInv, RequestsTyped
  <1>2. captcha \in [Emails -> Nat] /\ stored \in [Emails -> Nat]
    BY DEF CaptchaInv, RequestsTyped
  <1>3. /\ captcha' \in [Emails -> Nat] /\ stored' \in [Emails -> Nat]
        /\ \A f \in Emails : \/ captcha'[f] = captcha[f] /\ stored'[f] = stored[f]
                             \/ captcha'[f] = stored'[f] /\ stored'[f] <= issued
    BY <1>1, <1>2 DEF CaptchaExpires
  <1> QED BY <1>1, <1>3, NoRequest, CaptchaKept

\* The other steps of a request have nothing to do with captchas.
LEMMA PlainRequest ==
  ASSUME CaptchaInv, NEW r \in Requests,
         CheckEmail(r) \/ InsertUser(r) \/ Notify(r) \/ CheckPassword(r) \/ UpgradePasswordHash(r)
         \/ ClearLoginAccountLimit(r)
  PROVE  CaptchaInv'
  <1>1. UNCHANGED <<issued, told, script, captcha, stored>>
    BY DEF CheckEmail, InsertUser, Notify, CheckPassword, UpgradePasswordHash, ClearLoginAccountLimit,
           Elsewhere, redisVars
  <1>2. PICK q \in Handled : q = req[r] /\ q.pc \in {"exists", "insert", "notify", "check", "upgrade", "clear"}
    BY RequestIs DEF CheckEmail, InsertUser, Notify, CheckPassword, UpgradePasswordHash,
         ClearLoginAccountLimit, At
  <1>3. \/ Finish(r)
        \/ \E pc \in {"consume", "notify", "upgrade", "clear"} : Goto(r, pc)
        \/ req' = [req EXCEPT ![r].tries = @ + 1]
    BY DEF CheckEmail, InsertUser, Notify, CheckPassword, UpgradePasswordHash, ClearLoginAccountLimit
  <1>4. CASE Finish(r)
    BY <1>1, <1>4, RequestEnds, CaptchaStays
  <1>5. ASSUME NEW pc \in {"consume", "notify", "upgrade", "clear"}, Goto(r, pc)
        PROVE  CaptchaInv'
    BY <1>1, <1>2, <1>5, RequestMoves, CaptchaStays DEF RequestPcs, CaptchaPcs
  <1>6. CASE req' = [req EXCEPT ![r].tries = @ + 1]
    <2>1. PICK k \in Nat : k = q.tries + 1
      BY DEF Handled
    <2>2. PICK t : t = [q EXCEPT !.tries = k]
      OBVIOUS
    <2>3. t \in Handled /\ t.pc = q.pc
      BY <2>2 DEF Handled
    <2>4. req' = [req EXCEPT ![r] = t]
      BY <1>2, <1>6, <2>1, <2>2 DEF CaptchaInv, RequestsTyped
    <2>5. q.pc \notin CaptchaPcs /\ q.pc \notin {"store", "mail"}
      BY <1>2 DEF CaptchaPcs
    <2> QED BY <1>1, <2>3, <2>4, <2>5, OneRequest, CaptchaStays
  <1> QED BY <1>3, <1>4, <1>5, <1>6

\* A captcha request gets a number nobody had.
LEMMA HandleInv ==
  ASSUME CaptchaInv, NEW r \in Requests, Handle(r)
  PROVE  CaptchaInv'
  <1> DEFINE Ops == {"captcha", "register", "login"}
  <1>1. /\ req \in [Requests -> {Idle} \cup Handled] /\ issued \in Nat
        /\ script \in [Requests -> Seq(SUBSET (Ops \X Emails))]
        /\ captcha \in [Emails -> Nat] /\ stored \in [Emails -> Nat]
    BY DEF CaptchaInv, RequestsTyped
  <1>2. PICK s \in Seq(SUBSET (Ops \X Emails)) : s = script[r]
    BY <1>1
  <1>3. s # <<>> /\ script' = [script EXCEPT ![r] = Tail(s)] /\ UNCHANGED <<told, captcha, stored>>
    BY <1>1, <1>2 DEF Handle
  <1>4. Head(s) \in SUBSET (Ops \X Emails) /\ Tail(s) \in Seq(SUBSET (Ops \X Emails))
    BY <1>3, HeadTailProperties
  <1>5. script' \in [Requests -> Seq(SUBSET (Ops \X Emails))]
    BY <1>1, <1>3, <1>4
  <1>6. PICK p \in Procs, o \in Head(script[r]), guess \in 0..issued :
          /\ issued' = IF o[1] = "captcha" THEN issued + 1 ELSE issued
          /\ req' = [req EXCEPT ![r] =
               [pc |-> CASE o[1] = "captcha" -> "store" [] o[1] = "register" -> "exists" [] OTHER -> "check",
                proc |-> p, email |-> o[2],
                code |-> IF o[1] = "captcha" THEN issued + 1 ELSE guess, tries |-> 0]]
    BY Zenon DEF Handle
  <1>7. o[1] \in Ops /\ o[2] \in Emails
    <2>1. o \in Head(s)
      BY <1>2
    <2> QED BY <1>4, <2>1
  <1>8. PICK pc \in {"store", "exists", "check"} :
          /\ pc = CASE o[1] = "captcha" -> "store" [] o[1] = "register" -> "exists" [] OTHER -> "check"
          /\ pc = "store" <=> o[1] = "captcha"
    BY <1>7
  <1>9. PICK k \in Nat : k = IF o[1] = "captcha" THEN issued + 1 ELSE guess
    BY <1>1
  <1>10. PICK t : t = [pc |-> pc, proc |-> p, email |-> o[2], code |-> k, tries |-> 0]
    OBVIOUS
  <1>11. t \in Handled /\ t.pc = pc /\ t.code = k
    BY <1>7, <1>10 DEF Handled, RequestPcs, CaptchaPcs
  <1>12. req' = [req EXCEPT ![r] = t]
    BY <1>6, <1>8, <1>9, <1>10
  <1>13. /\ req' \in [Requests -> {Idle} \cup Handled] /\ req'[r] = t
         /\ \A u \in Requests : u # r => req'[u] = req[u]
    BY <1>1, <1>11, <1>12
  <1>14. issued' \in Nat /\ issued <= issued'
    BY <1>1, <1>6
  <1>15. RequestsTyped'
    BY <1>1, <1>3, <1>5, <1>13, <1>14 DEF RequestsTyped
  <1>16. CASE o[1] # "captcha"
    <2>1. t.pc \notin CaptchaPcs /\ t.pc \notin {"store", "mail"} /\ issued' = issued
      BY <1>6, <1>8, <1>11, <1>16 DEF CaptchaPcs
    <2>2. CodesAreOwn'
      <3>1. CodesAreOwn
        BY DEF CaptchaInv
      <3>2. \A u \in Requests : req'[u].pc \in CaptchaPcs => req'[u].code \in 1..issued \ told
        BY <1>13, <2>1, <3>1 DEF CodesAreOwn
      <3>3. \A u, v \in Requests : /\ req'[u].pc \in CaptchaPcs /\ req'[v].pc \in CaptchaPcs
                                   /\ req'[u].code = req'[v].code
                                   => u = v
        BY <1>13, <2>1, <3>1 DEF CodesAreOwn
      <3> QED BY <1>3, <2>1, <3>1, <3>2, <3>3 DEF CodesAreOwn
    <2>3. LostIsUnreported'
      BY <1>3, <1>13, <2>1 DEF CaptchaInv, LostIsUnreported
    <2> QED BY <1>15, <2>2, <2>3 DEF CaptchaInv
  <1>17. CASE o[1] = "captcha"
    <2>1. k = issued + 1 /\ issued' = issued + 1
      BY <1>6, <1>9, <1>17
    <2>2. CodesAreOwn /\ LostIsUnreported
      BY DEF CaptchaInv
    <2>3. /\ \A n \in 1..issued : n \in 1..issued' /\ n # k
          /\ \A n \in Nat : n <= issued => n <= issued' /\ n # k
          /\ k \in 1..issued'
      BY <1>1, <1>14, <2>1
    <2>4. told \subseteq 1..issued /\ k \notin told
      BY <2>2, <2>3 DEF CodesAreOwn
    <2>5. ASSUME NEW u \in Requests, u # r, req'[u].pc \in CaptchaPcs
          PROVE  req'[u].code \in 1..issued \ told /\ req'[u].code # k
      <3>1. req'[u] = req[u]
        BY <1>13, <2>5
      <3>2. req[u].code \in 1..issued \ told
        BY <2>2, <2>5, <3>1 DEF CodesAreOwn
      <3> QED BY <2>3, <3>1, <3>2
    <2>6. CodesAreOwn'
      <3>1. told' \subseteq 1..issued'
        BY <1>3, <2>3, <2>4
      <3>2. \A e \in Emails : stored'[e] <= issued'
        BY <1>1, <1>3, <2>2, <2>3 DEF CodesAreOwn
      <3>3. \A u \in Requests : req'[u].pc \in CaptchaPcs => req'[u].code \in 1..issued' \ told'
        BY <1>3, <1>11, <1>13, <2>3, <2>4, <2>5
      <3>4. \A u, v \in Requests : /\ req'[u].pc \in CaptchaPcs /\ req'[v].pc \in CaptchaPcs
                                   /\ req'[u].code = req'[v].code
                                   => u = v
        BY <1>11, <1>13, <2>2, <2>5 DEF CodesAreOwn
      <3> QED BY <3>1, <3>2, <3>3, <3>4 DEF CodesAreOwn
    <2>7. LostIsUnreported'
      <3> SUFFICES ASSUME NEW e \in Emails, captcha[e] # stored[e]
                   PROVE  /\ stored[e] \notin told
                          /\ \A u \in Requests : req'[u].pc \in {"store", "mail"} => req'[u].code # stored[e]
        BY <1>3 DEF LostIsUnreported
      <3>1. /\ stored[e] \notin told
            /\ \A u \in Requests : req[u].pc \in {"store", "mail"} => req[u].code # stored[e]
        BY <2>2 DEF LostIsUnreported
      <3>2. stored[e] # k
        BY <1>1, <2>2, <2>3 DEF CodesAreOwn
      <3> QED BY <1>11, <1>13, <3>1, <3>2
    <2> QED BY <1>15, <2>6, <2>7 DEF CaptchaInv
  <1> QED BY <1>16, <1>17

\* The requests of a process that dies are gone.
LEMMA CrashRequests ==
  ASSUME CaptchaInv, NEW p \in Procs, Crash(p)
  PROVE  CaptchaInv'
  <1>1. UNCHANGED <<issued, told, script, captcha, stored>>
    BY DEF Crash, redisVars
  <1>2. req \in [Requests -> {Idle} \cup Handled]
    BY DEF CaptchaInv, RequestsTyped
  <1>3. \A s \in Requests : req'[s] = Idle \/ req'[s] = req[s]
    BY DEF Crash
  <1>4. req' \in [Requests -> {Idle} \cup Handled]
    BY <1>2, <1>3 DEF Crash
  <1>5. Idle.pc \notin CaptchaPcs /\ Idle.pc \notin {"store", "mail"}
    BY DEF Idle, CaptchaPcs
  <1>6. RequestsKeep
    BY <1>3, <1>4, <1>5 DEF RequestsKeep
  <1> QED BY <1>1, <1>6, CaptchaStays

\* Every step keeps the captchas consistent.
LEMMA CaptchaNext ==
  ASSUME CaptchaInv, [Next]_vars
  PROVE  CaptchaInv'
  <1>1. ASSUME NEW r \in Requests, Handle(r) \/ Request(r)
        PROVE  CaptchaInv'
    BY <1>1, HandleInv, StoreCaptchaInv, MailCaptchaInv, DeleteCaptchaInv, ConsumeCaptchaInv, PlainRequest
       DEF Request
  <1>2. ASSUME NEW p \in Procs, Crash(p)
        PROVE  CaptchaInv'
    BY <1>2, CrashRequests
  <1>3. ASSUME NEW e \in Emails, CaptchaExpires(e)
        PROVE  CaptchaInv'
    BY <1>3, CaptchaExpiresInv
  <1>4. ASSUME UNCHANGED <<issued, told, script, captcha, stored, req>>
        PROVE  CaptchaInv'
    BY <1>4, NoRequest, CaptchaStays
  <1>5. ASSUME NEW p \in Procs, Boot(p) \/ EmailLoop(p)
        PROVE  CaptchaInv'
    BY <1>4, <1>5 DEF Boot, EmailLoop, WakeUp, ListPending, SendMail, Mark, Undisturbed, redisVars, requestVars
  <1>6. ASSUME NEW e \in Emails, BackoffEnds(e)
        PROVE  CaptchaInv'
    BY <1>4, <1>6 DEF BackoffEnds, Undisturbed, redisVars, requestVars
  <1>7. ASSUME NEW k \in Keys, WindowEnds(k)
        PROVE  CaptchaInv'
    BY <1>4, <1>7 DEF WindowEnds, requestVars
  <1>8. CASE LegacyInsert /\ UNCHANGED <<proc, faults, users, redisVars, requestVars, windows, mailVars>>
    BY <1>4, <1>8 DEF redisVars, requestVars
  <1>9. CASE UNCHANGED vars
    BY <1>4, <1>9 DEF vars, redisVars, requestVars
  <1> QED BY <1>1, <1>2, <1>3, <1>5, <1>6, <1>7, <1>8, <1>9 DEF Next

-----------------------------------------------------------------------------
(* The registration mails.                                                 *)

\* No row is deleted and no mail unsent.
RowsStay ==
  /\ users' \in [Emails -> {NoUser} \cup User] /\ mails' \in [Emails -> 0..2]
  /\ \A e \in Emails : users[e].row => users'[e].row
  /\ \A e \in Emails : mails[e] > 0 => mails'[e] > 0

UpgradesHaveRows == \A r \in Requests : req[r].pc = "upgrade" => users[req[r].email].row

\* A step of one worker.
LEMMA WorkerStep ==
  ASSUME MailInv, RowsStay, NEW p \in Procs, NEW t \in Looking \cup Marking,
         worker' = [worker EXCEPT ![p] = t],
         \A e \in t.todo : users'[e].row,
         t \in Marking => users'[t.user].row,
         t.pc = "sent" => mails'[t.user] > 0,
         UpgradesHaveRows', PendingUntilMailed'
  PROVE  MailInv'
  <1>1. worker \in [Procs -> Looking \cup Marking]
    BY DEF MailInv
  <1>2. /\ worker' \in [Procs -> Looking \cup Marking] /\ worker'[p] = t
        /\ \A q \in Procs : q # p => worker'[q] = worker[q]
    BY <1>1
  <1>3. \A q \in Procs : /\ worker[q].todo \subseteq Emails
                         /\ worker[q] \in Marking => worker[q].user \in Emails
                         /\ worker[q].pc = "sent" => worker[q] \in Marking
    BY <1>1 DEF Looking, Marking
  <1>4. \A q \in Procs : \A e \in worker'[q].todo : users'[e].row
    BY <1>2, <1>3 DEF MailInv, RowsStay
  <1>5. \A q \in Procs : worker'[q] \in Marking => users'[worker'[q].user].row
    BY <1>2, <1>3 DEF MailInv, RowsStay
  <1>6. \A q \in Procs : worker'[q].pc = "sent" => mails'[worker'[q].user] > 0
    BY <1>2, <1>3 DEF MailInv, RowsStay
  <1> QED BY <1>2, <1>4, <1>5, <1>6 DEF MailInv, RowsStay, UpgradesHaveRows

\* A step of no worker.
LEMMA WorkersStay ==
  ASSUME MailInv, RowsStay, UNCHANGED worker, UpgradesHaveRows', PendingUntilMailed'
  PROVE  MailInv'
  <1>1. worker \in [Procs -> Looking \cup Marking]
    BY DEF MailInv
  <1>3. \A q \in Procs : /\ worker[q].todo \subseteq Emails
                         /\ worker[q] \in Marking => worker[q].user \in Emails
                         /\ worker[q].pc = "sent" => worker[q] \in Marking
    BY <1>1 DEF Looking, Marking
  <1>4. \A q \in Procs : \A e \in worker'[q].todo : users'[e].row
    BY <1>3 DEF MailInv, RowsStay
  <1>5. \A q \in Procs : worker'[q] \in Marking => users'[worker'[q].user].row
    BY <1>3 DEF MailInv, RowsStay
  <1>6. \A q \in Procs : worker'[q].pc = "sent" => mails'[worker'[q].user] > 0
    BY <1>3 DEF MailInv, RowsStay
  <1> QED BY <1>1, <1>4, <1>5, <1>6 DEF MailInv, RowsStay, UpgradesHaveRows

\* A step that leaves users and mails alone.
LEMMA UsersStay ==
  ASSUME MailInv, UNCHANGED <<users, mails>>
  PROVE  RowsStay /\ PendingUntilMailed'
  BY DEF MailInv, RowsStay, PendingUntilMailed

\* A step that leaves users and requests alone.
LEMMA UpgradesStay ==
  ASSUME MailInv, UNCHANGED <<users, req>>
  PROVE  UpgradesHaveRows'
  BY DEF MailInv, UpgradesHaveRows

\* The requests that upgrade a hash found its row.
LEMMA UpgradesKept ==
  ASSUME CaptchaInv, MailInv, RowsStay, NEW r \in Requests, NEW t, req' = [req EXCEPT ![r] = t],
         t.pc = "upgrade" => users'[t.email].row
  PROVE  UpgradesHaveRows'
  <1>1. req \in [Requests -> {Idle} \cup Handled]
    BY DEF CaptchaInv, RequestsTyped
  <1>2. req'[r] = t /\ \A s \in Requests : s # r => req'[s] = req[s]
    BY <1>1
  <1>3. \A s \in Requests : req[s].pc = "upgrade" => req[s].email \in Emails
    BY <1>1 DEF Idle, Handled
  <1> QED BY <1>2, <1>3 DEF UpgradesHaveRows, MailInv, RowsStay

\* A request that finishes upgrades nothing.
LEMMA FinishedKept ==
  ASSUME CaptchaInv, MailInv, RowsStay, NEW r \in Requests, Finish(r)
  PROVE  UpgradesHaveRows'
  <1>1. Idle.pc # "upgrade"
    BY DEF Idle
  <1> QED BY <1>1, UpgradesKept DEF Finish

\* A request moves on to the upgrade only with a row.
LEMMA MovedKept ==
  ASSUME CaptchaInv, MailInv, RowsStay, NEW r \in Requests, NEW pc, Goto(r, pc), req[r].pc # "idle",
         pc = "upgrade" => users'[req[r].email].row
  PROVE  UpgradesHaveRows'
  <1>1. PICK q \in Handled : q = req[r]
    BY RequestIs
  <1>2. PICK t : t = [q EXCEPT !.pc = pc]
    OBVIOUS
  <1>3. t.pc = pc /\ t.email = q.email
    BY <1>2 DEF Handled
  <1>4. req' = [req EXCEPT ![r] = t]
    BY <1>1, <1>2 DEF Goto, CaptchaInv, RequestsTyped
  <1> QED BY <1>1, <1>3, <1>4, UpgradesKept

\* The steps of a request that leave the users alone.
LEMMA RequestMail ==
  ASSUME CaptchaInv, MailInv, NEW r \in Requests,
         StoreCaptcha(r) \/ MailCaptcha(r) \/ DeleteCaptcha(r) \/ CheckEmail(r) \/ ConsumeCaptcha(r)
         \/ Notify(r) \/ CheckPassword(r) \/ ClearLoginAccountLimit(r)
  PROVE  MailInv'
  <1>1. UNCHANGED <<users, mails, worker>>
    BY DEF StoreCaptcha, MailCaptcha, DeleteCaptcha, CheckEmail, ConsumeCaptcha, Notify, CheckPassword,
           ClearLoginAccountLimit, mailVars
  <1>2. RowsStay /\ PendingUntilMailed'
    BY <1>1, UsersStay
  <1>3. UpgradesHaveRows'
    <2>1. CASE Finish(r)
      BY <1>2, <2>1, FinishedKept
    <2>2. CASE ~Finish(r)
      <3>1. PICK pc : Goto(r, pc) /\ req[r].pc # "idle" /\ (pc = "upgrade" => users[Email(r)].row)
        BY <2>2 DEF StoreCaptcha, MailCaptcha, DeleteCaptcha, CheckEmail, ConsumeCaptcha, Notify,
             CheckPassword, ClearLoginAccountLimit, At
      <3> QED BY <1>1, <1>2, <3>1, MovedKept DEF Email
    <2> QED BY <2>1, <2>2
  <1> QED BY <1>1, <1>2, <1>3, WorkersStay

\* InsertUser: a new user is pending.
LEMMA InsertUserMail ==
  ASSUME CaptchaInv, MailInv, NEW r \in Requests, InsertUser(r)
  PROVE  MailInv'
  <1>1. PICK q \in Handled : q = req[r] /\ q.pc = "insert"
    BY RequestIs DEF InsertUser, At
  <1>2. q.email \in Emails /\ users \in [Emails -> {NoUser} \cup User] /\ UNCHANGED <<mails, worker>>
    BY DEF Handled, MailInv, InsertUser, mailVars
  <1>3. users' = users \/ users' = [users EXCEPT ![q.email] = NewUser]
    BY <1>1 DEF InsertUser, Email
  <1>4. NewUser \in User /\ NewUser.row /\ NewUser.pending
    BY DEF NewUser, User
  <1>5. RowsStay
    BY <1>2, <1>3, <1>4 DEF RowsStay, MailInv
  <1>6. PendingUntilMailed'
    BY <1>2, <1>3, <1>4 DEF MailInv, PendingUntilMailed
  <1>7. UpgradesHaveRows'
    <2>1. Finish(r) \/ Goto(r, "notify") \/ req' = [req EXCEPT ![r].tries = @ + 1]
      BY DEF InsertUser
    <2>2. CASE Finish(r)
      BY <1>5, <2>2, FinishedKept
    <2>3. CASE Goto(r, "notify")
      BY <1>1, <1>5, <2>3, MovedKept
    <2>4. CASE req' = [req EXCEPT ![r].tries = @ + 1]
      <3>1. PICK t : t = [q EXCEPT !.tries = @ + 1]
        OBVIOUS
      <3>2. t.pc = q.pc
        BY <3>1 DEF Handled
      <3>3. req' = [req EXCEPT ![r] = t]
        BY <1>1, <2>4, <3>1 DEF CaptchaInv, RequestsTyped
      <3> QED BY <1>1, <1>5, <3>2, <3>3, UpgradesKept
    <2> QED BY <2>1, <2>2, <2>3, <2>4
  <1> QED BY <1>2, <1>5, <1>6, <1>7, WorkersStay

\* UpgradePasswordHash: the mail of the user is none of its business.
LEMMA UpgradeMail ==
  ASSUME CaptchaInv, MailInv, NEW r \in Requests, UpgradePasswordHash(r)
  PROVE  MailInv'
  <1>1. PICK q \in Handled : q = req[r] /\ q.pc = "upgrade"
    BY RequestIs DEF UpgradePasswordHash, At
  <1>2. PICK e \in Emails : e = q.email
    BY DEF Handled
  <1>3. /\ users \in [Emails -> {NoUser} \cup User] /\ users[e].row
        /\ UNCHANGED <<mails, worker>> /\ NoUser.row = FALSE
    BY <1>1, <1>2 DEF MailInv, UpgradePasswordHash, mailVars, NoUser
  <1>4. PICK u \in User : u = users[e]
    BY <1>3
  <1>5. PICK v : v = [u EXCEPT !.hash = "bcrypt"]
    OBVIOUS
  <1>6. v \in User /\ v.row /\ v.pending = u.pending
    BY <1>5 DEF User
  <1>7. users' = users \/ users' = [users EXCEPT ![e] = v]
    BY <1>1, <1>2, <1>3, <1>4, <1>5 DEF UpgradePasswordHash, Email
  <1>8. RowsStay
    BY <1>3, <1>6, <1>7 DEF RowsStay, MailInv
  <1>9. PendingUntilMailed'
    BY <1>3, <1>4, <1>6, <1>7 DEF MailInv, PendingUntilMailed
  <1>10. UpgradesHaveRows'
    BY <1>1, <1>8, MovedKept DEF UpgradePasswordHash
  <1> QED BY <1>3, <1>8, <1>9, <1>10, WorkersStay

\* Handle: a new request upgrades nothing.
LEMMA HandleMail ==
  ASSUME CaptchaInv, MailInv, NEW r \in Requests, Handle(r)
  PROVE  MailInv'
  <1>1. UNCHANGED <<users, mails, worker>>
    BY DEF Handle, mailVars
  <1>2. RowsStay /\ PendingUntilMailed'
    BY <1>1, UsersStay
  <1>3. PICK p \in Procs, o \in Head(script[r]), guess \in 0..issued :
          req' = [req EXCEPT ![r] =
               [pc |-> CASE o[1] = "captcha" -> "store" [] o[1] = "register" -> "exists" [] OTHER -> "check",
                proc |-> p, email |-> o[2],
                code |-> IF o[1] = "captcha" THEN issued + 1 ELSE guess, tries |-> 0]]
    BY Zenon DEF Handle
  <1>4. PICK pc : pc = CASE o[1] = "captcha" -> "store" [] o[1] = "register" -> "exists" [] OTHER -> "check"
    OBVIOUS
  <1>5. pc # "upgrade"
    BY <1>4
  <1>6. PICK k : k = IF o[1] = "captcha" THEN issued + 1 ELSE guess
    OBVIOUS
  <1>7. PICK t : t = [pc |-> pc, proc |-> p, email |-> o[2], code |-> k, tries |-> 0]
    OBVIOUS
  <1>8. req' = [req EXCEPT ![r] = t] /\ t.pc # "upgrade"
    BY <1>3, <1>4, <1>5, <1>6, <1>7
  <1>9. UpgradesHaveRows'
    BY <1>2, <1>8, UpgradesKept
  <1> QED BY <1>1, <1>2, <1>9, WorkersStay

-----------------------------------------------------------------------------
(* The e-mail loop.                                                        *)

\* A worker looks for users or marks one.
LEMMA WorkerIs ==
  ASSUME MailInv, NEW p \in Procs
  PROVE  \E w \in Looking \cup Marking : w = worker[p]
  BY DEF MailInv

\* WakeUp: the worker lists again.
LEMMA WakeUpMail ==
  ASSUME MailInv, NEW p \in Procs, WakeUp(p)
  PROVE  MailInv'
  <1>1. PICK w \in Looking : w = worker[p]
    BY WorkerIs DEF WakeUp, Doing, Marking
  <1>2. UNCHANGED <<users, mails, req>>
    BY DEF WakeUp, Undisturbed, requestVars
  <1>3. PICK t : t = [w EXCEPT !.pc = "list"]
    OBVIOUS
  <1>4. t \in Looking /\ t.todo = w.todo /\ t.pc = "list" /\ t \notin Marking
    BY <1>3 DEF Looking, Marking
  <1>5. worker' = [worker EXCEPT ![p] = t]
    BY <1>1, <1>3 DEF WakeUp, MailInv
  <1>6. \A e \in t.todo : users'[e].row
    BY <1>1, <1>2, <1>4 DEF MailInv
  <1> QED BY <1>2, <1>4, <1>5, <1>6, UsersStay, UpgradesStay, WorkerStep

\* ListPending: the batch holds users only.
LEMMA ListPendingMail ==
  ASSUME MailInv, NEW p \in Procs, ListPending(p)
  PROVE  MailInv'
  <1>1. UNCHANGED <<users, mails, req>>
    BY DEF ListPending, Undisturbed, requestVars
  <1>2. PICK due : due = {e \in Emails : users[e].row /\ users[e].pending /\ users[e].due}
    OBVIOUS
  <1>3. PICK t : /\ t \in {[pc |-> IF due = {} THEN "wait" ELSE "send", todo |-> due], Asleep}
                 /\ worker' = [worker EXCEPT ![p] = t]
    BY <1>2 DEF ListPending
  <1>4. PICK pc \in {"wait", "send"} : pc = IF due = {} THEN "wait" ELSE "send"
    OBVIOUS
  <1>5. t = [pc |-> pc, todo |-> due] \/ t = [pc |-> "wait", todo |-> {}]
    BY <1>3, <1>4 DEF Asleep
  <1>6. due \subseteq Emails /\ \A e \in due : users[e].row
    BY <1>2
  <1>7. t \in Looking /\ (t.todo = due \/ t.todo = {}) /\ t.pc # "sent" /\ t \notin Marking
    BY <1>5, <1>6 DEF Looking, Marking
  <1>8. \A e \in t.todo : users'[e].row
    BY <1>1, <1>6, <1>7
  <1> QED BY <1>1, <1>3, <1>7, <1>8, UsersStay, UpgradesStay, WorkerStep

\* A worker goes on to mark a delivery that was made.
LEMMA SendMailMail ==
  ASSUME MailInv, NEW p \in Procs, SendMail(p)
  PROVE  MailInv'
  <1>1. PICK w \in Looking : w = worker[p]
    BY WorkerIs DEF SendMail, Doing, Marking
  <1>2. UNCHANGED <<users, req>> /\ mails \in [Emails -> 0..2] /\ users \in [Emails -> {NoUser} \cup User]
    BY DEF SendMail, Undisturbed, requestVars, MailInv
  <1>3. PICK e \in w.todo, pc \in {"sent", "failed"} :
          /\ worker' = [worker EXCEPT ![p] = [pc |-> pc, todo |-> @.todo \ {e}, user |-> e]]
          /\ Delivered(e) \/ (UNCHANGED mails /\ pc = "failed")
    BY <1>1 DEF SendMail
  <1>4. w.todo \subseteq Emails /\ e \in Emails
    BY <1>3 DEF Looking
  <1>5. PICK S : S = w.todo \ {e}
    OBVIOUS
  <1>6. PICK t : t = [pc |-> pc, todo |-> S, user |-> e]
    OBVIOUS
  <1>7. t \in Marking /\ t.todo = S /\ t.user = e /\ t.pc = pc
    BY <1>4, <1>5, <1>6 DEF Marking
  <1>8. worker' = [worker EXCEPT ![p] = t]
    BY <1>1, <1>3, <1>5, <1>6 DEF MailInv
  <1>9. /\ mails' \in [Emails -> 0..2] /\ (\A f \in Emails : mails[f] > 0 => mails'[f] > 0)
        /\ Delivered(e) => mails'[e] > 0
    <2>1. CASE Delivered(e)
      <3>1. PICK m \in 0..2 : m = IF mails[e] = 2 THEN 2 ELSE mails[e] + 1
        BY <1>2, <1>4
      <3>2. m > 0
        BY <1>2, <1>4, <3>1
      <3>3. mails' = [mails EXCEPT ![e] = m]
        BY <1>2, <1>4, <2>1, <3>1 DEF Delivered
      <3> QED BY <1>2, <1>4, <3>2, <3>3
    <2>2. CASE ~Delivered(e)
      BY <1>2, <1>3, <2>2
    <2> QED BY <2>1, <2>2
  <1>10. RowsStay
    BY <1>2, <1>9 DEF RowsStay
  <1>11. PendingUntilMailed'
    BY <1>2, <1>9 DEF MailInv, PendingUntilMailed
  <1>12. \A f \in w.todo : users'[f].row
    BY <1>1, <1>2 DEF MailInv
  <1>13. (\A f \in t.todo : users'[f].row) /\ users'[t.user].row
    BY <1>3, <1>5, <1>7, <1>12
  <1>14. t.pc = "sent" => mails'[t.user] > 0
    BY <1>3, <1>7, <1>9
  <1> QED BY <1>2, <1>7, <1>8, <1>10, <1>11, <1>13, <1>14, UpgradesStay, WorkerStep

\* Only a delivery that was made is marked as sent.
LEMMA MarkMail ==
  ASSUME MailInv, NEW p \in Procs, Mark(p)
  PROVE  MailInv'
  <1>1. PICK w \in Marking : w = worker[p]
    BY WorkerIs DEF Mark, Doing, Looking
  <1>2. PICK e \in Emails : e = w.user
    BY DEF Marking
  <1>3. /\ users \in [Emails -> {NoUser} \cup User] /\ mails \in [Emails -> 0..2]
        /\ users[e].row /\ NoUser.row = FALSE /\ UNCHANGED <<mails, req>>
    BY <1>1, <1>2 DEF MailInv, Mark, Undisturbed, requestVars, NoUser
  <1>4. PICK u \in User : u = users[e]
    BY <1>3
  <1>5. PICK v : v = [u EXCEPT !.pending = FALSE, !.due = TRUE]
    OBVIOUS
  <1>6. v \in User /\ v.row
    BY <1>5 DEF User
  <1>7. PICK x : x = [u EXCEPT !.due = FALSE]
    OBVIOUS
  <1>8. x \in User /\ x.row /\ x.pending = u.pending
    BY <1>7 DEF User
  <1>9. \/ users' = users
        \/ users' = [users EXCEPT ![e] = v] /\ w.pc = "sent"
        \/ users' = [users EXCEPT ![e] = x]
    <2>1. \/ users' = users
          \/ users' = [users EXCEPT ![e].pending = FALSE, ![e].due = TRUE] /\ Doing(p, "sent")
          \/ users' = [users EXCEPT ![e].due = FALSE]
      BY <1>1, <1>2 DEF Mark
    <2>2. [users EXCEPT ![e].pending = FALSE, ![e].due = TRUE] = [users EXCEPT ![e] = v]
      BY <1>3, <1>4, <1>5
    <2>3. [users EXCEPT ![e].due = FALSE] = [users EXCEPT ![e] = x]
      BY <1>3, <1>4, <1>7
    <2>4. Doing(p, "sent") => w.pc = "sent"
      BY <1>1 DEF Doing
    <2> QED BY <2>1, <2>2, <2>3, <2>4
  <1>10. RowsStay
    BY <1>3, <1>6, <1>8, <1>9 DEF RowsStay
  <1>11. w.pc = "sent" => mails[e] > 0
    BY <1>1, <1>2 DEF MailInv
  <1>12. PendingUntilMailed'
    <2>1. PendingUntilMailed
      BY DEF MailInv
    <2>2. CASE users' = users
      BY <1>3, <2>1, <2>2 DEF PendingUntilMailed
    <2>3. CASE users' = [users EXCEPT ![e] = v] /\ w.pc = "sent"
      BY <1>3, <1>11, <2>1, <2>3 DEF PendingUntilMailed
    <2>4. CASE users' = [users EXCEPT ![e] = x]
      BY <1>3, <1>4, <1>8, <2>1, <2>4 DEF PendingUntilMailed
    <2> QED BY <1>9, <2>2, <2>3, <2>4
  <1>13. UpgradesHaveRows'
    <2>1. \A r \in Requests : users[req[r].email].row => users'[req[r].email].row
      <3>1. CASE users' = users
        BY <3>1
      <3>2. CASE users' = [users EXCEPT ![e] = v]
        BY <1>3, <1>6, <3>2
      <3>3. CASE users' = [users EXCEPT ![e] = x]
        BY <1>3, <1>8, <3>3
      <3> QED BY <1>9, <3>1, <3>2, <3>3
    <2> QED BY <1>3, <2>1 DEF MailInv, UpgradesHaveRows
  <1>14. PICK pc \in {"wait", "send"} : pc = IF w.todo = {} THEN "wait" ELSE "send"
    OBVIOUS
  <1>15. PICK t : t = [pc |-> pc, todo |-> w.todo]
    OBVIOUS
  <1>16. t \in Looking /\ t.todo = w.todo /\ t.pc # "sent" /\ t \notin Marking
    BY <1>15 DEF Looking, Marking
  <1>17. worker' = [worker EXCEPT ![p] = t]
    BY <1>1, <1>14, <1>15 DEF Mark, Continued
  <1>18. \A f \in w.todo : users'[f].row
    <2>1. w.todo \subseteq Emails /\ \A f \in w.todo : users[f].row
      BY <1>1 DEF Marking, MailInv
    <2> QED BY <1>10, <2>1 DEF RowsStay
  <1> QED BY <1>10, <1>12, <1>13, <1>16, <1>17, <1>18, WorkerStep

\* BackoffEnds: the user is as pending as before.
LEMMA BackoffEndsMail ==
  ASSUME MailInv, NEW e \in Emails, BackoffEnds(e)
  PROVE  MailInv'
  <1>1. /\ users \in [Emails -> {NoUser} \cup User] /\ users[e].row /\ NoUser.row = FALSE
        /\ UNCHANGED <<mails, req, worker>>
    BY DEF MailInv, BackoffEnds, Undisturbed, requestVars, NoUser
  <1>2. PICK u \in User : u = users[e]
    BY <1>1
  <1>3. PICK v : v = [u EXCEPT !.due = TRUE]
    OBVIOUS
  <1>4. v \in User /\ v.row /\ v.pending = u.pending
    BY <1>3 DEF User
  <1>5. users' = [users EXCEPT ![e] = v]
    BY <1>1, <1>2, <1>3 DEF BackoffEnds
  <1>6. RowsStay
    BY <1>1, <1>4, <1>5 DEF RowsStay, MailInv
  <1>7. PendingUntilMailed'
    BY <1>1, <1>2, <1>4, <1>5 DEF MailInv, PendingUntilMailed
  <1>8. UpgradesHaveRows'
    <2>1. \A r \in Requests : users[req[r].email].row => users'[req[r].email].row
      BY <1>1, <1>4, <1>5
    <2> QED BY <1>1, <2>1 DEF MailInv, UpgradesHaveRows
  <1> QED BY <1>1, <1>6, <1>7, <1>8, WorkersStay

\* A worker that dies forgets its batch; the rows are what the next one reads.
LEMMA CrashMail ==
  ASSUME MailInv, NEW p \in Procs, Crash(p)
  PROVE  MailInv'
  <1>1. UNCHANGED <<users, mails>> /\ worker' = [worker EXCEPT ![p] = Fresh]
    BY DEF Crash
  <1>2. Fresh \in Looking /\ Fresh.todo = {} /\ Fresh.pc = "list" /\ Fresh \notin Marking
    BY DEF Fresh, Looking, Marking
  <1>3. \A r \in Requests : req'[r] = Idle \/ req'[r] = req[r]
    BY DEF Crash
  <1>4. UpgradesHaveRows'
    BY <1>1, <1>3 DEF UpgradesHaveRows, MailInv, Idle
  <1> QED BY <1>1, <1>2, <1>4, UsersStay, WorkerStep

\* Every step keeps users, mails and workers consistent.
LEMMA MailNext ==
  ASSUME CaptchaInv, MailInv, [Next]_vars
  PROVE  MailInv'
  <1>1. ASSUME NEW r \in Requests, Handle(r) \/ Request(r)
        PROVE  MailInv'
    BY <1>1, HandleMail, RequestMail, InsertUserMail, UpgradeMail DEF Request
  <1>2. ASSUME NEW p \in Procs, Crash(p)
        PROVE  MailInv'
    BY <1>2, CrashMail
  <1>3. ASSUME NEW e \in Emails, BackoffEnds(e)
        PROVE  MailInv'
    BY <1>3, BackoffEndsMail
  <1>4. ASSUME UNCHANGED <<users, mails, worker, req>>
        PROVE  MailInv'
    BY <1>4, UsersStay, UpgradesStay, WorkersStay
  <1>5. ASSUME NEW p \in Procs, EmailLoop(p)
        PROVE  MailInv'
    BY <1>5, WakeUpMail, ListPendingMail, SendMailMail, MarkMail DEF EmailLoop
  <1>6. ASSUME NEW p \in Procs, Boot(p)
        PROVE  MailInv'
    BY <1>4, <1>6 DEF Boot, requestVars, mailVars
  <1>7. ASSUME NEW e \in Emails, CaptchaExpires(e)
        PROVE  MailInv'
    BY <1>4, <1>7 DEF CaptchaExpires, requestVars, mailVars
  <1>8. ASSUME NEW k \in Keys, WindowEnds(k)
        PROVE  MailInv'
    BY <1>4, <1>8 DEF WindowEnds, requestVars, mailVars
  <1>9. CASE LegacyInsert /\ UNCHANGED <<proc, faults, users, redisVars, requestVars, windows, mailVars>>
    BY <1>4, <1>9 DEF requestVars, mailVars
  <1>10. CASE UNCHANGED vars
    BY <1>4, <1>10 DEF vars, requestVars, mailVars
  <1> QED BY <1>1, <1>2, <1>3, <1>5, <1>6, <1>7, <1>8, <1>9, <1>10 DEF Next

-----------------------------------------------------------------------------
(* The theorems.                                                           *)

\* An empty database with the accounts of the time before.
LEMMA InitInv ==
  ASSUME MigrationAssumption, AccountAssumption, Init
  PROVE  IInv
  <1>1. SchemaInv
    <2>1. /\ proc = [p \in Procs |-> Off] /\ lock = Nobody /\ history = <<>> /\ schema = {}
          /\ unidentified = 0 /\ Nobody \notin Procs
      BY DEF Init, StartupInit, SchemaInit, MigrationAssumption
    <2>2. DOMAIN history = {}
      BY <2>1
    <2>3. \A p \in Procs : proc[p].phase = "off" /\ lock # p
      BY <2>1 DEF Off
    <2>4. \A p \in Procs : Migrating(p)
      BY <2>3 DEF Migrating
    <2> QED BY <2>1, <2>2, <2>4 DEF SchemaInv
  <1>2. CaptchaInv
    <2>1. /\ req = [r \in Requests |-> Idle] /\ script = Script /\ captcha = [e \in Emails |-> 0]
          /\ stored = [e \in Emails |-> 0] /\ issued = 0 /\ told = {}
      BY DEF Init
    <2>2. RequestsTyped
      BY <2>1 DEF RequestsTyped, AccountAssumption
    <2>3. \A r \in Requests : req[r].pc \notin CaptchaPcs
      BY <2>1 DEF Idle, CaptchaPcs
    <2>4. CodesAreOwn /\ LostIsUnreported
      BY <2>1, <2>3 DEF CodesAreOwn, LostIsUnreported
    <2> QED BY <2>2, <2>4 DEF CaptchaInv
  <1>3. MailInv
    <2>1. /\ users = [e \in Emails |-> IF e \in LegacyEmails THEN LegacyUser ELSE NoUser]
          /\ mails = [e \in Emails |-> 0] /\ worker = [p \in Procs |-> Fresh]
          /\ req = [r \in Requests |-> Idle]
      BY DEF Init
    <2>2. LegacyUser \in User /\ NoUser.row = FALSE
      BY DEF LegacyUser, User, NoUser
    <2>3. Fresh \in Looking /\ Fresh.todo = {} /\ Fresh.pc = "list" /\ Fresh \notin Marking
      BY DEF Fresh, Looking, Marking
    <2>4. users \in [Emails -> {NoUser} \cup User] /\ mails \in [Emails -> 0..2]
      BY <2>1, <2>2
    <2>5. PendingUntilMailed
      BY <2>1, <2>2 DEF PendingUntilMailed
    <2>6. \A r \in Requests : req[r].pc # "upgrade"
      BY <2>1 DEF Idle
    <2> QED BY <2>1, <2>3, <2>4, <2>5, <2>6 DEF MailInv
  <1> QED BY <1>1, <1>2, <1>3 DEF IInv

\* Schema, captchas and mails stay consistent, whatever crashes and fails: the
\* inductive invariant of start-up and accounts.
THEOREM AccountInvariant == Spec => []IInv
  <1>1. Init => IInv
    BY MigrationAssumption, AccountAssumption, InitInv
  <1>2. IInv /\ [Next]_vars => IInv'
    BY MigrationAssumption, StartupAssumption, SchemaNext, CaptchaNext, MailNext DEF IInv
  <1> QED BY <1>1, <1>2, PTL DEF Spec

\* ApplyMigrations records a version after its last statement and under the lock,
\* so a server that starts finds every change its release needs.
THEOREM ServersFindTheirSchema == Spec => []ServesOnItsSchema
  <1>1. IInv => ServesOnItsSchema
    <2> SUFFICES ASSUME IInv, NEW p \in Procs, proc[p].phase \in {"redis", "up"},
                        NEW v \in DOMAIN Release(p)
                 PROVE  Effects(v) \subseteq schema /\ ("notnull" \in Effects(v) => unidentified = 0)
      BY DEF ServesOnItsSchema
    <2>1. SchemaInv /\ Migrating(p)
      BY DEF IInv, SchemaInv
    <2>2. v \in DOMAIN history
      BY <2>1 DEF Migrating, Pending, Release
    <2> QED BY <2>1, <2>2 DEF SchemaInv
  <1> QED BY <1>1, AccountInvariant, PTL

\* SendCaptcha reports a captcha only while it is in Redis, and a late
\* DeleteCaptchaIfMatch of another request leaves it there.
THEOREM ReportedCaptchasStayGood == Spec => []ReportedCaptchaIsGood
  <1>1. IInv => ReportedCaptchaIsGood
    BY DEF IInv, CaptchaInv, LostIsUnreported, ReportedCaptchaIsGood
  <1> QED BY <1>1, AccountInvariant, PTL

\* MarkRegistrationEmailSent is called only for a user whose mail was delivered.
THEOREM UsersStayPending == Spec => []PendingUntilMailed
  <1>1. IInv => PendingUntilMailed
    BY DEF IInv, MailInv
  <1> QED BY <1>1, AccountInvariant, PTL
=============================================================================
