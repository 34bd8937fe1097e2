----------------------------- MODULE MCSessions -----------------------------
(* Two requests at a time on one account that starts signed in once, with  *)
(* and without a second factor.                                            *)
EXTENDS Sessions, TLC

CONSTANTS c1, c2
TwoClients == {c1, c2}
AnyTwo == Permutations(TwoClients)

Everything == {"signin", "mfa", "refresh", "signout", "signout all", "password", "enrol",
               "confirm", "disable", "remove"}
=============================================================================
