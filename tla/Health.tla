------------------------------- MODULE Health -------------------------------
(***************************************************************************)
(* The health manager: checks that run in goroutines of their own, their   *)
(* summary, and the file that stands for it.  The file is updated first by *)
(* Start, then by a goroutine, one update at a time.                       *)
(***************************************************************************)
EXTENDS Naturals, FiniteSets

CONSTANTS MaxFlips     \* how often what the checks look at may change

ASSUME FlipsAssumption == MaxFlips \in Nat

VARIABLES
  healthy,     \* what each check would find
  found,       \* what a check that is running has found, or "none"
  status,      \* whether each check is ok as far as its manager knows
  update,      \* the update of the file: its step, the checks to read, what it knows
  file,        \* whether the health file exists
  flips

healthVars == <<healthy, found, status, update, file, flips>>

Idle == [at |-> "idle", left |-> {}, ok |-> TRUE, exists |-> FALSE]

\* A check is ok before it has run.
HealthInit(checks, failing, leftover) ==
  /\ healthy = [check \in checks |-> check \notin failing]
  /\ found = [check \in checks |-> "none"]
  /\ status = [check \in checks |-> TRUE]
  /\ update = Idle
  /\ file = leftover
  /\ flips = 0

Flip(check) ==
  /\ flips < MaxFlips
  /\ flips' = flips + 1
  /\ healthy' = [healthy EXCEPT ![check] = ~@]
  /\ UNCHANGED <<found, status, update, file>>

\* Run: on every tick the check is made, without the lock, and then its result is stored.
Check(check) ==
  /\ found[check] = "none"
  /\ found' = [found EXCEPT ![check] = IF healthy[check] THEN "ok" ELSE "error"]
  /\ UNCHANGED <<healthy, status, update, file, flips>>

Store(check) ==
  /\ found[check] # "none"
  /\ status' = [status EXCEPT ![check] = found[check] = "ok"]
  /\ found' = [found EXCEPT ![check] = "none"]
  /\ UNCHANGED <<healthy, update, file, flips>>

\* updateHealthFile: the status of one check after the other, then the file.
BeginUpdate(counted) ==
  /\ update.at = "idle"
  /\ update' = [at |-> "status", left |-> counted, ok |-> TRUE, exists |-> FALSE]
  /\ UNCHANGED <<healthy, found, status, file, flips>>

ReadStatus(check) ==
  /\ update.at = "status" /\ check \in update.left
  /\ update' = [update EXCEPT !.left = @ \ {check}, !.ok = @ /\ status[check]]
  /\ UNCHANGED <<healthy, found, status, file, flips>>

Stat ==
  /\ update.at = "status" /\ update.left = {}
  /\ update' = [update EXCEPT !.at = "write", !.exists = file]
  /\ UNCHANGED <<healthy, found, status, file, flips>>

FileAfter_Kept(summary, exists) == summary \/ exists     \* faulty
FileAfter(summary, exists) == IF summary /\ ~exists THEN TRUE
                              ELSE IF ~summary /\ exists THEN FALSE
                              ELSE exists

WriteFile ==
  /\ update.at = "write"
  /\ file' = FileAfter(update.ok, update.exists)
  /\ update' = Idle
  /\ UNCHANGED <<healthy, found, status, flips>>

=============================================================================
