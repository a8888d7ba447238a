----------------------------- MODULE RateLimit ------------------------------
(***************************************************************************)
(* Fixed-window quotas in Redis (common/redis/rate_limit.go).  A window    *)
(* maps a key to the requests counted in it; a key that has expired counts *)
(* zero.  A rule is a key with its limit.  AllowRateLimits runs one Lua    *)
(* script, so checking and counting all rules of a request is one step;    *)
(* INCR from zero sets the expiry in the same script, so every counted key *)
(* expires some day.                                                       *)
(***************************************************************************)
EXTENDS Naturals

Rule(key, limit) == [key |-> key, limit |-> limit]

Exhausted(window, rules) == \E r \in rules : window[r.key] >= r.limit

Counted(window, rules) ==
  [k \in DOMAIN window |-> window[k] + IF \E r \in rules : r.key = k THEN 1 ELSE 0]

Allowed(window, rules) == ~Exhausted(window, rules)

\* DEL by ResetRateLimits, and the expiry of a key by Redis itself.
Forgotten(window, key) == [window EXCEPT ![key] = 0]
=============================================================================
