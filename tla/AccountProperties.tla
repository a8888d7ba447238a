------------------------- MODULE AccountProperties --------------------------
(***************************************************************************)
(* What start-up, registration and the e-mail worker promise.              *)
(***************************************************************************)
EXTENDS Accounts

\* The variables keep their types.
TypeOK ==
  /\ lock \in Procs \cup {Nobody} /\ table \in BOOLEAN
  /\ DOMAIN history \subseteq 1..Len(Up)
  /\ unidentified \in 0..MaxUnidentified
  /\ faults \in 0..MaxFaults
  /\ \A e \in Emails : captcha[e] \in 0..issued /\ mails[e] \in 0..2
  /\ window \in [Keys -> Nat] /\ wake \in [Procs -> BOOLEAN]

\* A server runs only on a schema that has every change its release needs, and
\* no message without an id: migrations that crash, are refused or meet rows of
\* an older binary are recorded only when all of their statements took effect.
Effects(v) == {Up[v][i] : i \in DOMAIN Up[v]} \ {"backfill", "duplicates"}
ServesOnItsSchema ==
  \A p \in Procs : proc[p].phase \in {"redis", "up"} =>
    \A v \in DOMAIN Release(p) :
      /\ Effects(v) \subseteq schema
      /\ "notnull" \in Effects(v) => unidentified = 0

\* A captcha reported as sent stays good until it is used, expires or is
\* replaced, also when an earlier delivery to the same address fails late.
ReportedCaptchaIsGood ==
  \A e \in Emails : stored[e] \in told => captcha[e] = stored[e]

\* The worker stops mailing a new user only after a mail was delivered,
\* whatever crashes, failed updates and other workers come between.
PendingUntilMailed ==
  \A e \in Emails \ LegacyEmails : users[e].row /\ ~users[e].pending => mails[e] > 0

\* Every account that was registered is mailed, also when its process dies
\* before the worker is notified or the first deliveries fail.
RegisteredIsMailed ==
  \A e \in Emails \ LegacyEmails : users[e].row ~> mails[e] > 0
=============================================================================
