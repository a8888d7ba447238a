------------------------------ MODULE Accounts ------------------------------
(***************************************************************************)
(* Accounts: captchas, registration and login (service/user, dao/user,     *)
(* controller/user) and the worker of each process that mails the account  *)
(* name to newly registered users.  Users and the state of the mails are   *)
(* rows in MySQL, captchas and rate limits live in Redis; both outlive the *)
(* processes.                                                              *)
(*                                                                         *)
(* Captchas are numbered; 0 is none, or a wrong guess.  A request or an    *)
(* e-mail belongs to the process that works on it.  A failed call uses up  *)
(* one of the faults.                                                      *)
(***************************************************************************)
EXTENDS Startup, RateLimit

CONSTANTS
  Emails,        \* addresses; one account each
  LegacyEmails,  \* the ones with an account from before, with an MD5 hash
  Requests,      \* handler goroutines
  CaptchaLimit, VerifyLimit, LoginLimit,  \* limits per address; the IP limits are higher
  InsertAttempts,  \* names Register tries
  Script,          \* bound: per goroutine, what it may handle first, second, ...
  MaxWindowEnds    \* bound on the counters that expire

ASSUME AccountAssumption ==
  /\ LegacyEmails \subseteq Emails
  /\ {CaptchaLimit, VerifyLimit, LoginLimit, InsertAttempts} \subseteq Nat \ {0}
  /\ Script \in [Requests -> Seq(SUBSET ({"captcha", "register", "login"} \X Emails))]

VARIABLES
  users,    \* per address: its row of the users table
  mails,    \* registration mails delivered, 2 for more than one
  captcha,  \* the captcha in Redis, 0 for none
  stored,   \* observer: the captcha stored last, 0 once used or expired
  issued,   \* captchas generated so far
  told,     \* observer: captchas whose delivery was reported to the client
  window,   \* rate-limit counters
  req,      \* per goroutine: its request
  script,   \* what each goroutine may still start
  windows,  \* counters that may still expire
  worker,   \* per process: registrationEmailLoop
  wake      \* per process: registrationEmailWake holds a signal

redisVars == <<captcha, stored, window>>
requestVars == <<issued, told, req, script>>
mailVars == <<mails, worker, wake>>
vars == <<schemaVars, proc, faults, users, redisVars, requestVars, windows, mailVars>>

NoUser == [row |-> FALSE]
NewUser == [row |-> TRUE, pending |-> TRUE, due |-> TRUE, hash |-> "bcrypt"]
LegacyUser == [row |-> TRUE, pending |-> FALSE, due |-> TRUE, hash |-> "md5"]

Idle == [pc |-> "idle"]
Asleep == [pc |-> "wait", todo |-> {}]
Fresh == [pc |-> "list", todo |-> {}]   \* the loop looks at the table before it waits

Keys == {"captcha", "cooldown", "verify", "login"} \X Emails

Init ==
  /\ StartupInit
  /\ users = [e \in Emails |-> IF e \in LegacyEmails THEN LegacyUser ELSE NoUser]
  /\ mails = [e \in Emails |-> 0]
  /\ captcha = [e \in Emails |-> 0] /\ stored = [e \in Emails |-> 0]
  /\ issued = 0 /\ told = {}
  /\ window = [k \in Keys |-> 0] /\ windows = MaxWindowEnds
  /\ req = [r \in Requests |-> Idle] /\ script = Script
  /\ worker = [p \in Procs |-> Fresh] /\ wake = [p \in Procs |-> FALSE]

-----------------------------------------------------------------------------
(* Requests.                                                               *)

At(r, pc) == req[r].pc = pc
Goto(r, pc) == req' = [req EXCEPT ![r].pc = pc]
Finish(r) == req' = [req EXCEPT ![r] = Idle]
Email(r) == req[r].email
Faulty == faults > 0 /\ faults' = faults - 1
Sound == UNCHANGED faults
Elsewhere == UNCHANGED <<schemaVars, proc, script, windows>>

Rules(op, e) ==
  CASE op = "captcha"  -> {Rule(<<"captcha", e>>, CaptchaLimit), Rule(<<"cooldown", e>>, 1)}
    [] op = "register" -> {Rule(<<"verify", e>>, VerifyLimit)}
    [] op = "login"    -> {Rule(<<"login", e>>, LoginLimit)}

\* A handler whose request passes the rate limits; one that does not, or that
\* finds Redis down, answers and changes nothing.
Handle(r) ==
  /\ At(r, "idle") /\ script[r] # <<>>
  /\ \E p \in Procs, o \in Head(script[r]), guess \in 0..issued :
       LET op == o[1] IN
       /\ In(p, "up") /\ Allowed(window, Rules(op, o[2]))
       /\ op # "register" => guess = 0
       /\ window' = Counted(window, Rules(op, o[2]))
       /\ issued' = IF op = "captcha" THEN issued + 1 ELSE issued
       /\ req' = [req EXCEPT ![r] =
            [pc |-> CASE op = "captcha" -> "store" [] op = "register" -> "exists" [] OTHER -> "check",
             proc |-> p, email |-> o[2], code |-> IF op = "captcha" THEN issued + 1 ELSE guess, tries |-> 0]]
  /\ script' = [script EXCEPT ![r] = Tail(@)]
  /\ UNCHANGED <<schemaVars, proc, faults, users, captcha, stored, told, windows, mailVars>>

\* SendCaptcha: SetCaptchaForEmail, ...
StoreCaptcha(r) ==
  /\ At(r, "store")
  /\ \/ /\ Sound /\ Goto(r, "mail")
        /\ captcha' = [captcha EXCEPT ![Email(r)] = req[r].code]
        /\ stored' = [stored EXCEPT ![Email(r)] = req[r].code]
     \/ Faulty /\ Finish(r) /\ UNCHANGED <<captcha, stored>>
  /\ UNCHANGED <<users, window, issued, told, mailVars>> /\ Elsewhere

\* ... the mail, ...
MailCaptcha(r) ==
  /\ At(r, "mail")
  /\ \/ Sound /\ Finish(r) /\ told' = told \cup {req[r].code}
     \/ Faulty /\ Goto(r, "delete") /\ UNCHANGED told
  /\ UNCHANGED <<users, redisVars, issued, mailVars>> /\ Elsewhere

\* Mutant: whatever captcha is stored by now goes.
DeleteCaptchaAny(r) ==
  /\ At(r, "delete") /\ Finish(r)
  /\ captcha' = [captcha EXCEPT ![Email(r)] = 0] /\ Sound
  /\ UNCHANGED <<users, stored, window, issued, told, mailVars>> /\ Elsewhere

\* ... and DeleteCaptchaIfMatch after a failed delivery.
DeleteCaptcha(r) ==
  /\ At(r, "delete") /\ Finish(r)
  /\ \/ Sound /\ captcha' = IF captcha[Email(r)] = req[r].code
                            THEN [captcha EXCEPT ![Email(r)] = 0] ELSE captcha
     \/ Faulty /\ UNCHANGED captcha
  /\ UNCHANGED <<users, stored, window, issued, told, mailVars>> /\ Elsewhere

\* Register: EmailExists, ...
CheckEmail(r) ==
  /\ At(r, "exists")
  /\ \/ Sound /\ IF users[Email(r)].row THEN Finish(r) ELSE Goto(r, "consume")
     \/ Faulty /\ Finish(r)
  /\ UNCHANGED <<users, redisVars, issued, told, mailVars>> /\ Elsewhere

\* ... CheckCaptchaForEmail, one script that compares and deletes, ...
ConsumeCaptcha(r) ==
  /\ At(r, "consume")
  /\ LET e == Email(r)
         right == req[r].code # 0 /\ captcha[e] = req[r].code
     IN \/ /\ Sound
           /\ captcha' = IF right THEN [captcha EXCEPT ![e] = 0] ELSE captcha
           /\ stored' = IF right THEN [stored EXCEPT ![e] = 0] ELSE stored
           /\ IF right THEN Goto(r, "insert") ELSE Finish(r)
        \/ Faulty /\ Finish(r) /\ UNCHANGED <<captcha, stored>>
  /\ UNCHANGED <<users, window, issued, told, mailVars>> /\ Elsewhere

\* ... and the INSERT.  An address that is taken by now ends the request, a name
\* that is taken is drawn again; an error may hide that the row was written,
\* and EmailExists then finds it.
InsertUser(r) ==
  /\ At(r, "insert")
  /\ LET e == Email(r) IN
       \/ users[e].row /\ Sound /\ Finish(r) /\ UNCHANGED users
       \/ /\ ~users[e].row /\ Sound
          /\ users' = [users EXCEPT ![e] = NewUser] /\ Goto(r, "notify")
       \/ /\ ~users[e].row /\ Faulty
          /\ \/ users' = [users EXCEPT ![e] = NewUser] /\ Finish(r)
             \/ UNCHANGED users /\ Finish(r)
       \/ /\ ~users[e].row /\ Sound /\ \E f \in Emails : users[f].row
          /\ UNCHANGED users
          /\ IF req[r].tries + 1 < InsertAttempts
             THEN req' = [req EXCEPT ![r].tries = @ + 1] ELSE Finish(r)
  /\ UNCHANGED <<redisVars, issued, told, mailVars>> /\ Elsewhere

\* NotifyRegistrationEmailWorker: a full channel drops the signal.
Notify(r) ==
  /\ At(r, "notify") /\ Finish(r)
  /\ wake' = [wake EXCEPT ![req[r].proc] = TRUE]
  /\ UNCHANGED <<users, redisVars, issued, told, mails, worker>> /\ Sound /\ Elsewhere

\* Login: a wrong password, or one that matches the stored hash.
CheckPassword(r) ==
  /\ At(r, "check")
  /\ \/ Finish(r)
     \/ users[Email(r)].row /\ Goto(r, IF users[Email(r)].hash = "md5" THEN "upgrade" ELSE "clear")
  /\ UNCHANGED <<users, redisVars, issued, told, mailVars>> /\ Sound /\ Elsewhere

UpgradePasswordHash(r) ==
  /\ At(r, "upgrade") /\ Goto(r, "clear")
  /\ \/ Sound /\ users' = [users EXCEPT ![Email(r)].hash = "bcrypt"]
     \/ Faulty /\ UNCHANGED users
  /\ UNCHANGED <<redisVars, issued, told, mailVars>> /\ Elsewhere

ClearLoginAccountLimit(r) ==
  /\ At(r, "clear") /\ Finish(r)
  /\ \/ Sound /\ window' = Forgotten(window, <<"login", Email(r)>>)
     \/ Faulty /\ UNCHANGED window
  /\ UNCHANGED <<users, captcha, stored, issued, told, mailVars>> /\ Elsewhere

-----------------------------------------------------------------------------
(* registrationEmailLoop.                                                  *)

Doing(p, pc) == In(p, "up") /\ worker[p].pc = pc
Undisturbed == UNCHANGED <<schemaVars, proc, redisVars, requestVars, windows>>

\* Mutant: no ticker, only a signal.
WakeUpSignalled(p) ==
  /\ Doing(p, "wait") /\ wake[p]
  /\ worker' = [worker EXCEPT ![p].pc = "list"]
  /\ wake' = [wake EXCEPT ![p] = FALSE]
  /\ UNCHANGED <<users, mails>> /\ Sound /\ Undisturbed

\* The ticker, or a signal.
WakeUp(p) ==
  /\ Doing(p, "wait")
  /\ worker' = [worker EXCEPT ![p].pc = "list"]
  /\ wake' \in {wake, [wake EXCEPT ![p] = FALSE]}
  /\ UNCHANGED <<users, mails>> /\ Sound /\ Undisturbed

\* ListPendingRegistrationEmails; a batch holds all users of the model.
ListPending(p) ==
  /\ Doing(p, "list")
  /\ \/ /\ Sound
        /\ LET due == {e \in Emails : users[e].row /\ users[e].pending /\ users[e].due} IN
             worker' = [worker EXCEPT ![p] = [pc |-> IF due = {} THEN "wait" ELSE "send", todo |-> due]]
     \/ Faulty /\ worker' = [worker EXCEPT ![p] = Asleep]
  /\ UNCHANGED <<users, mails, wake>> /\ Undisturbed

Delivered(e) == mails' = [mails EXCEPT ![e] = IF @ = 2 THEN 2 ELSE @ + 1]

\* A delivery reported as failed may have happened all the same.
SendMail(p) ==
  /\ Doing(p, "send")
  /\ \E e \in worker[p].todo :
       \/ /\ Sound /\ Delivered(e)
          /\ worker' = [worker EXCEPT ![p] = [pc |-> "sent", todo |-> @.todo \ {e}, user |-> e]]
       \/ /\ Faulty /\ (Delivered(e) \/ UNCHANGED mails)
          /\ worker' = [worker EXCEPT ![p] = [pc |-> "failed", todo |-> @.todo \ {e}, user |-> e]]
  /\ UNCHANGED <<users, wake>> /\ Undisturbed

Continued(p) ==
  [pc |-> IF worker[p].todo = {} THEN "wait" ELSE "send", todo |-> worker[p].todo]

\* Mutant: a failed delivery is marked like a successful one.
MarkAnyway(p) ==
  /\ \E pc \in {"sent", "failed"} : Doing(p, pc)
  /\ LET e == worker[p].user IN
       \/ /\ Sound
          /\ users' = IF ~users[e].pending THEN users
                      ELSE [users EXCEPT ![e].pending = FALSE, ![e].due = TRUE]
       \/ Faulty /\ UNCHANGED users
  /\ worker' = [worker EXCEPT ![p] = Continued(p)]
  /\ UNCHANGED <<mails, wake>> /\ Undisturbed

\* MarkRegistrationEmailSent, or MarkRegistrationEmailFailed with the time of
\* the next attempt; both only touch a row that is still pending.
Mark(p) ==
  /\ \E pc \in {"sent", "failed"} : Doing(p, pc)
  /\ LET e == worker[p].user IN
       \/ /\ Sound
          /\ users' = CASE ~users[e].pending -> users
                        [] Doing(p, "sent") -> [users EXCEPT ![e].pending = FALSE, ![e].due = TRUE]
                        [] OTHER -> [users EXCEPT ![e].due = FALSE]
       \/ Faulty /\ UNCHANGED users
  /\ worker' = [worker EXCEPT ![p] = Continued(p)]
  /\ UNCHANGED <<mails, wake>> /\ Undisturbed

-----------------------------------------------------------------------------
(* Time, and the life of the processes.                                    *)

BackoffEnds(e) ==
  /\ users[e].row /\ ~users[e].due
  /\ users' = [users EXCEPT ![e].due = TRUE]
  /\ UNCHANGED <<mails, worker, wake>> /\ Sound /\ Undisturbed

CaptchaExpires(e) ==
  /\ captcha[e] # 0
  /\ captcha' = [captcha EXCEPT ![e] = 0] /\ stored' = [stored EXCEPT ![e] = 0]
  /\ UNCHANGED <<schemaVars, proc, faults, users, window, requestVars, windows, mailVars>>

WindowEnds(k) ==
  /\ window[k] > 0 /\ windows > 0
  /\ window' = Forgotten(window, k) /\ windows' = windows - 1
  /\ UNCHANGED <<schemaVars, proc, faults, users, captcha, stored, requestVars, mailVars>>

\* The requests and the worker of a process end with it.
Crash(p) ==
  /\ Die(p)
  /\ req' = [r \in Requests |-> IF ~At(r, "idle") /\ req[r].proc = p THEN Idle ELSE req[r]]
  /\ worker' = [worker EXCEPT ![p] = Fresh]
  /\ wake' = [wake EXCEPT ![p] = FALSE]
  /\ UNCHANGED <<users, mails, redisVars, issued, told, script, windows>>

Boot(p) ==
  /\ Starting(p)
  /\ UNCHANGED <<users, redisVars, requestVars, windows, mailVars>>

Request(r) ==
  \/ StoreCaptcha(r) \/ MailCaptcha(r) \/ DeleteCaptcha(r)
  \/ CheckEmail(r) \/ ConsumeCaptcha(r) \/ InsertUser(r) \/ Notify(r)
  \/ CheckPassword(r) \/ UpgradePasswordHash(r) \/ ClearLoginAccountLimit(r)

EmailLoop(p) == WakeUp(p) \/ ListPending(p) \/ SendMail(p) \/ Mark(p)

Next ==
  \/ \E r \in Requests : Handle(r) \/ Request(r)
  \/ \E p \in Procs : Boot(p) \/ EmailLoop(p) \/ Crash(p)
  \/ \E e \in Emails : BackoffEnds(e) \/ CaptchaExpires(e)
  \/ \E k \in Keys : WindowEnds(k)
  \/ LegacyInsert /\ UNCHANGED <<proc, faults, users, redisVars, requestVars, windows, mailVars>>

\* Processes are started again and make progress, GET_LOCK serves its waiters,
\* and the worker's ticker and the backoff elapse.  No client is assumed to act.
Fairness ==
  /\ \A p \in Procs : WF_vars(Boot(p)) /\ SF_vars(TakeLock(p) /\ Boot(p)) /\ WF_vars(EmailLoop(p))
  /\ WF_vars(\E e \in Emails : BackoffEnds(e))

Spec == Init /\ [][Next]_vars /\ Fairness
=============================================================================
