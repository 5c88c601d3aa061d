------------------------------- MODULE MCAuth -------------------------------
(* Two backends, one of them on the host of the authentication service.    *)
EXTENDS Auth

TheBackends == <<"auth", "b">>
=============================================================================
