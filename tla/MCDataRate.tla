----------------------------- MODULE MCDataRate -----------------------------
(* The bounds of DataRate: many bytes under changing defaults, or few bytes  *)
(* while the default and the vhost's own limit or alarm are set.             *)
EXTENDS DataRate

Defaulting(l) == [limit |-> l, alarm |-> Unlimited]

TheBounds ==
    {[default |-> Defaulting(2), issued |-> {<<k, "default">>}, backlog |-> 3]
        : k \in Kind}
    \cup
    {[default |-> Defaulting(Unlimited), issued |-> {k} \X {"default", "vhost"},
      backlog |-> 1] : k \in Kind}
=============================================================================
