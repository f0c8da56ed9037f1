---------------------------- MODULE WriteService ----------------------------
(***************************************************************************)
(* What the plugin promises to a client that writes to a device, without   *)
(* queues, batches, locks or goroutines.  A write is accepted, is started  *)
(* at most once, and is then resolved for good as done or as error.  It is *)
(* done only if the device applied it; an error says nothing: the device   *)
(* may have refused the write, may apply it later, or never.  A client     *)
(* that waits for its writes is told an outcome only when it is final.     *)
(***************************************************************************)
CONSTANT Writes       \* the writes that clients may ever request

VARIABLES outcome,    \* what the transaction of a write says
          applied,    \* the writes that took effect on their device
          told        \* the outcome a waiting client was told

vars == <<outcome, applied, told>>

Resolved == {"done", "error"}

TypeOK ==
  /\ outcome \in [Writes -> {"none", "pending", "writing"} \cup Resolved]
  /\ applied \in SUBSET Writes
  /\ told \in [Writes -> {"none"} \cup Resolved]

Init ==
  /\ outcome = [w \in Writes |-> "none"]
  /\ applied = {}
  /\ told = [w \in Writes |-> "none"]

\* The write gets a transaction, which the client can look up.
Accept(w) ==
  /\ outcome[w] = "none"
  /\ outcome' = [outcome EXCEPT ![w] = "pending"]
  /\ UNCHANGED <<applied, told>>

\* The device is asked to perform the write; this happens once.
Start(w) ==
  /\ outcome[w] = "pending"
  /\ outcome' = [outcome EXCEPT ![w] = "writing"]
  /\ UNCHANGED <<applied, told>>

\* The device applies a started write, perhaps after it was given up.
Apply(w) ==
  /\ outcome[w] \in {"writing", "error"}
  /\ w \notin applied
  /\ applied' = applied \cup {w}
  /\ UNCHANGED <<outcome, told>>

Succeed(w) ==
  /\ outcome[w] = "writing"
  /\ w \in applied
  /\ outcome' = [outcome EXCEPT ![w] = "done"]
  /\ UNCHANGED <<applied, told>>

Fail(w) ==
  /\ outcome[w] = "writing"
  /\ outcome' = [outcome EXCEPT ![w] = "error"]
  /\ UNCHANGED <<applied, told>>

\* A waiting client is told the final outcome of all the writes of its call.
Tell(S) ==
  /\ \A w \in S : outcome[w] \in Resolved /\ told[w] = "none"
  /\ told' = [w \in Writes |-> IF w \in S THEN outcome[w] ELSE told[w]]
  /\ UNCHANGED <<outcome, applied>>

Next ==
  \/ \E w \in Writes : Accept(w) \/ Start(w) \/ Apply(w) \/ Succeed(w) \/ Fail(w)
  \/ \E S \in (SUBSET Writes) \ {{}} : Tell(S)

Spec == Init /\ [][Next]_vars
=============================================================================
