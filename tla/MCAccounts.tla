----------------------------- MODULE MCAccounts -----------------------------
(* Instances of start-up and accounts for TLC.                             *)
EXTENDS AccountProperties, TLC

CONSTANTS p1, p2, r1, r2   \* processes and handler goroutines

\* The previous release, without the last migration, and the current one.
Previous == <<1, 1, 1, 1>>
Newest == <<1, 1, 1, 1, 1>>
MCReleases == {Previous, Newest}
MCModes == p1 :> {<<"up", Previous>>, <<"verify", Newest>>} @@ p2 :> {<<"compatibility", Newest>>}
MCScript ==
  r1 :> <<{<<"captcha", "new">>}, {<<"register", "new">>}>> @@
  r2 :> <<{<<"captcha", "new">>, <<"login", "old">>}>>
=============================================================================
