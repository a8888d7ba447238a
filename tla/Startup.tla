------------------------------ MODULE Startup -------------------------------
(***************************************************************************)
(* The start of a process (main.go up to the HTTP server, cmd/migrate) on  *)
(* a database it may have to migrate, and its end by an error or a crash.  *)
(***************************************************************************)
EXTENDS Migrations

CONSTANTS
  Modes,      \* per process: what it may be started as and with which release
  MaxFaults   \* bound on crashes and failed calls

ASSUME StartupAssumption ==
  /\ Modes \in [Procs -> SUBSET ({"up", "verify", "compatibility"} \X Releases)]
  /\ MaxFaults \in Nat

VARIABLES
  proc,    \* per process: its release, mode and phase
  faults   \* crashes and failed calls still to come

Off == [phase |-> "off"]

StartupInit == SchemaInit /\ proc = [p \in Procs |-> Off] /\ faults = MaxFaults

In(p, phase) == proc[p].phase = phase
Enter(p, phase) == proc' = [proc EXCEPT ![p].phase = phase]
Release(p) == proc[p].release

\* cmd/migrate ("up"), or a server in one of its two start-up modes.
Start(p) ==
  /\ In(p, "off")
  /\ \E m \in Modes[p] :
       proc' = [proc EXCEPT ![p] = [phase |-> "lock", mode |-> m[1], release |-> m[2], todo |-> {}, at |-> 1]]
  /\ UNCHANGED <<schemaVars, faults>>

\* GET_LOCK waits; a holder that keeps the lock too long makes it fail.
TakeLock(p) ==
  /\ In(p, "lock") /\ lock = Nobody
  /\ lock' = p /\ Enter(p, "load")
  /\ UNCHANGED <<table, history, schema, unidentified, faults>>

\* An error returned under the lock: the lock is released, the process exits.
GiveUp(p) == lock' = Nobody /\ proc' = [proc EXCEPT ![p] = Off]

\* The migrations are done: cmd/migrate exits, a server goes on to Redis.
Proceed(p) ==
  /\ lock' = Nobody
  /\ proc' = IF proc[p].mode = "up" THEN [proc EXCEPT ![p] = Off]
             ELSE [proc EXCEPT ![p].phase = "redis", ![p].todo = {}, ![p].at = 1]

\* ensureMigrationTable or migrationTableExists, and the recorded versions.
Load(p) ==
  /\ In(p, "load")
  /\ table' = (table \/ proc[p].mode # "verify")
  /\ IF proc[p].mode = "verify"
     THEN IF Verifies(Release(p)) THEN Proceed(p) ELSE GiveUp(p)
     ELSE CASE ~Matches(Release(p)) -> GiveUp(p)
            [] Matches(Release(p)) /\ Pending(Release(p)) = {} -> Proceed(p)
            [] OTHER -> /\ proc' = [proc EXCEPT ![p].phase = "execute", ![p].todo = Pending(Release(p))]
                        /\ UNCHANGED lock
  /\ UNCHANGED <<history, schema, unidentified, faults>>

\* Mutant: a migration is recorded before its last statement has run.
ExecuteNextEarly(p) ==
  /\ In(p, "execute")
  /\ LET up == Up[First(proc[p].todo)]
         statement == up[proc[p].at]
     IN IF Refuses(statement)
        THEN GiveUp(p) /\ UNCHANGED <<schema, unidentified>>
        ELSE /\ Execute(statement)
             /\ proc' = [proc EXCEPT ![p].at = @ + 1,
                                     ![p].phase = IF proc[p].at + 1 >= Len(up) THEN "record" ELSE "execute"]
             /\ UNCHANGED lock
  /\ UNCHANGED <<table, history, faults>>

\* The next statement of the next migration.
ExecuteNext(p) ==
  /\ In(p, "execute")
  /\ LET up == Up[First(proc[p].todo)]
         statement == up[proc[p].at]
     IN IF Refuses(statement)
        THEN GiveUp(p) /\ UNCHANGED <<schema, unidentified>>
        ELSE /\ Execute(statement)
             /\ proc' = [proc EXCEPT ![p].at = @ + 1,
                                     ![p].phase = IF proc[p].at = Len(up) THEN "record" ELSE "execute"]
             /\ UNCHANGED lock
  /\ UNCHANGED <<table, history, faults>>

Record(p) ==
  /\ In(p, "record")
  /\ LET v == First(proc[p].todo) IN
       /\ history' = [w \in DOMAIN history \cup {v} |-> IF w = v THEN Release(p)[v] ELSE history[w]]
       /\ IF proc[p].todo = {v} THEN Proceed(p)
          ELSE /\ proc' = [proc EXCEPT ![p].phase = "execute", ![p].todo = @ \ {v}, ![p].at = 1]
               /\ UNCHANGED lock
  /\ UNCHANGED <<table, schema, unidentified, faults>>

\* redis.Init, the workers and the HTTP server.
Serve(p) ==
  /\ In(p, "redis") /\ Enter(p, "up")
  /\ UNCHANGED <<schemaVars, faults>>

\* A crash, or an error of the start (GET_LOCK included), after which the process exits.  MySQL
\* drops the lock with the connection that holds it.
Die(p) ==
  /\ ~In(p, "off") /\ faults > 0
  /\ faults' = faults - 1
  /\ proc' = [proc EXCEPT ![p] = Off]
  /\ lock' = IF lock = p THEN Nobody ELSE lock
  /\ UNCHANGED <<table, history, schema, unidentified>>

Starting(p) == Start(p) \/ TakeLock(p) \/ Load(p) \/ ExecuteNext(p) \/ Record(p) \/ Serve(p)
=============================================================================
