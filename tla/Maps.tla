-------------------------------- MODULE Maps --------------------------------
(* Maps that grow, as functions: what @@ and :> of TLC make, in the form   *)
(* that the provers know.                                                  *)

Put(map, key, value) == [k \in DOMAIN map \cup {key} |-> IF k = key THEN value ELSE map[k]]

\* The entries of upper, and those of lower for the keys that upper has not.
Over(upper, lower) == [k \in DOMAIN upper \cup DOMAIN lower |-> IF k \in DOMAIN upper THEN upper[k] ELSE lower[k]]

=============================================================================
