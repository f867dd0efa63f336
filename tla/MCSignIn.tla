------------------------------ MODULE MCSignIn ------------------------------
(* Instances of SignIn: the proxy and a second process. *)
EXTENDS SignIn
CONSTANT lister
Both == {proxy, lister}
=============================================================================
