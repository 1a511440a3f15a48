-------------------------- MODULE TransmissionQueue --------------------------
(* The transmission_queue table of internal/storage/database.go and the     *)
(* loop that empties it, Daemon.transmissionLoop.                           *)
(*                                                                          *)
(* A row is durable; the item in the loop's hands is not.  The table is     *)
(* shared with cleanupLoop, which runs between any two statements of the    *)
(* transmission loop.  The clock is left out: a row's scheduled_at is       *)
(* "later", "due" (<= now) or "stale" (more than 60 s ago) and only time    *)
(* moves it on; ORDER BY scheduled_at becomes fairness among due rows.      *)
EXTENDS Naturals

CONSTANTS
  Row,          \* the rows that are ever inserted
  Unbuildable,  \* rows that MSGFromDict cannot turn back into a frame
  MaxRetries,   \* argument of MarkTransmissionFailed (3 in the code)
  MaxFaults     \* bound on crashes and failed statements

ASSUME QueueAssumption ==
  /\ Unbuildable \subseteq Row
  /\ MaxRetries \in Nat \ {0}
  /\ MaxFaults \in Nat

VARIABLES
  status,    \* column status; "none" before INSERT, "deleted" after DELETE
  attempts,  \* column attempts
  sched,     \* column scheduled_at, relative to now
  tx,        \* the transmission loop: idle, holding a row, or just sent it
  writes,    \* history: how often the row's frame was written to the TNC
  faults     \* history: crashes and failed statements so far

vars == <<status, attempts, sched, tx, writes, faults>>

Idle    == [pc |-> "idle"]
Held(r) == [pc |-> "held", row |-> r]
Sent(r) == [pc |-> "sent", row |-> r]

TypeOK ==
  /\ status \in [Row -> {"none", "pending", "transmitting", "sent", "failed", "deleted"}]
  /\ attempts \in [Row -> Nat]
  /\ sched \in [Row -> {"later", "due", "stale"}]
  /\ tx \in {Idle} \cup {Held(r) : r \in Row} \cup {Sent(r) : r \in Row}
  /\ writes \in [Row -> Nat]
  /\ faults \in 0..MaxFaults

Init ==
  /\ status   = [r \in Row |-> "none"]
  /\ attempts = [r \in Row |-> 0]
  /\ sched    = [r \in Row |-> "later"]
  /\ tx = Idle
  /\ writes   = [r \in Row |-> 0]
  /\ faults = 0

Live(r)    == status[r] \in {"pending", "transmitting"}
Settled(r) == status[r] \in {"sent", "failed", "deleted"}

-----------------------------------------------------------------------------
\* QueueTransmission; a delay that rounds to 0 makes the row due at once.
QueueTransmission(r) ==
  /\ status[r] = "none"
  /\ status' = [status EXCEPT ![r] = "pending"]
  /\ \E s \in {"later", "due"} : sched' = [sched EXCEPT ![r] = s]
  /\ UNCHANGED <<attempts, tx, writes, faults>>

\* Time passes scheduled_at, and then a minute more.
TimePasses(r) ==
  /\ Live(r)
  /\ \/ sched[r] = "later" /\ sched' = [sched EXCEPT ![r] = "due"]
     \/ sched[r] = "due" /\ sched' = [sched EXCEPT ![r] = "stale"]
  /\ UNCHANGED <<status, attempts, tx, writes, faults>>

\* GetNextTransmission: a due pending row becomes 'transmitting'.
GetNextTransmission(r) ==
  /\ tx = Idle
  /\ status[r] = "pending" /\ sched[r] # "later"
  /\ status' = [status EXCEPT ![r] = "transmitting"]
  /\ tx' = Held(r)
  /\ UNCHANGED <<attempts, sched, writes, faults>>

\* Its UPDATE fails: the error is dropped and the item returned all the same.
GetNextUnmarked(r) ==
  /\ faults < MaxFaults
  /\ tx = Idle
  /\ status[r] = "pending" /\ sched[r] # "later"
  /\ tx' = Held(r)
  /\ faults' = faults + 1
  /\ UNCHANGED <<status, attempts, sched, writes>>

\* SendFrame returns nil: the frame was written to the connection.
SendFrame(r) ==
  /\ tx = Held(r) /\ r \notin Unbuildable
  /\ tx' = Sent(r)
  /\ writes' = [writes EXCEPT ![r] = @ + 1]
  /\ UNCHANGED <<status, attempts, sched, faults>>

(* What is done with a row whose attempts were read as n: it waits for      *)
(* another minute, or has failed with its last attempt.                     *)
RetryAfter(r, n) ==
  /\ IF n >= MaxRetries - 1
     THEN status' = [status EXCEPT ![r] = "failed"] /\ UNCHANGED sched
     ELSE /\ status' = [status EXCEPT ![r] = "pending"]
          /\ sched' = [sched EXCEPT ![r] = "later"]
  /\ attempts' = [attempts EXCEPT ![r] = @ + 1]

\* Mutants: the last attempt does not give up; an error is not recorded.
RetryOnceMore(r) ==
  /\ tx = Held(r) /\ r \notin Unbuildable
  /\ RetryAfter(r, attempts[r] - 1)
  /\ tx' = Idle
  /\ UNCHANGED <<writes, faults>>
FailureForgotten(r) ==
  /\ tx = Held(r) /\ r \notin Unbuildable
  /\ tx' = Idle
  /\ UNCHANGED <<status, attempts, sched, writes, faults>>

\* SendFrame returns an error (not connected, write error).
MarkTransmissionFailed(r) ==
  /\ tx = Held(r) /\ r \notin Unbuildable
  /\ RetryAfter(r, attempts[r])
  /\ tx' = Idle
  /\ UNCHANGED <<writes, faults>>

(* So it does, and then the SELECT of the attempts fails: the error of Scan *)
(* is dropped and the variable is still 0, but the UPDATE adds to the       *)
(* column.  A row at its last attempt pends once more.                      *)
MarkFailedUnread(r) ==
  /\ faults < MaxFaults
  /\ tx = Held(r) /\ r \notin Unbuildable
  /\ RetryAfter(r, 0)
  /\ tx' = Idle
  /\ faults' = faults + 1
  /\ UNCHANGED writes

\* Mutant: UPDATE ... WHERE status = 'transmitting'.
MarkTransmittedGuarded(r) ==
  /\ tx = Sent(r)
  /\ status' = [status EXCEPT ![r] = IF @ = "transmitting" THEN "sent" ELSE @]
  /\ tx' = Idle
  /\ UNCHANGED <<attempts, sched, writes, faults>>

\* MarkTransmitted, whatever the status has become in the meantime.
MarkTransmitted(r) ==
  /\ tx = Sent(r)
  /\ status' = [status EXCEPT ![r] = "sent"]
  /\ tx' = Idle
  /\ UNCHANGED <<attempts, sched, writes, faults>>

\* The UPDATE after SendFrame fails: its error is dropped.
MarkFails(r) ==
  /\ faults < MaxFaults
  /\ tx \in {Held(r), Sent(r)} /\ r \notin Unbuildable
  /\ tx' = Idle
  /\ faults' = faults + 1
  /\ UNCHANGED <<status, attempts, sched, writes>>

(* MSGFromDict returns (nil *MSG, error); the error is dropped and the nil  *)
(* pointer stored in a Frame interface, which then is not nil.  The test    *)
(* frame == nil misses it, and Encode dereferences the pointer: the daemon  *)
(* panics and is started again.                                             *)
PanicOnUnbuildable(r) ==
  /\ tx = Held(r) /\ r \in Unbuildable
  /\ tx' = Idle
  /\ UNCHANGED <<status, attempts, sched, writes, faults>>

\* Mutants: old rows are deleted whatever their status, or brought back, or
\* stale ones are left alone.
CleanupAnything(gone) ==
  /\ gone \subseteq {r \in Row : status[r] # "none"}
  /\ status' = [r \in Row |-> IF r \in gone THEN "deleted" ELSE status[r]]
  /\ UNCHANGED <<attempts, sched, tx, writes, faults>>
CleanupRevives(gone) ==
  /\ gone \subseteq {r \in Row : status[r] \in {"sent", "failed"}}
  /\ status' = [r \in Row |->
       IF r \in gone THEN "deleted"
       ELSE IF status[r] \in {"transmitting", "failed"} /\ sched[r] = "stale" THEN "pending"
       ELSE status[r]]
  /\ UNCHANGED <<attempts, sched, tx, writes, faults>>
CleanupWithoutReset(gone) ==
  /\ gone \subseteq {r \in Row : status[r] \in {"sent", "failed"}}
  /\ status' = [r \in Row |-> IF r \in gone THEN "deleted" ELSE status[r]]
  /\ UNCHANGED <<attempts, sched, tx, writes, faults>>

(* CleanupTransmissionQueue: old settled rows are deleted; rows that have   *)
(* been 'transmitting' for long are taken for abandoned and pend again.     *)
CleanupTransmissionQueue(gone) ==
  /\ gone \subseteq {r \in Row : status[r] \in {"sent", "failed"}}
  /\ status' = [r \in Row |->
       IF r \in gone THEN "deleted"
       ELSE IF status[r] = "transmitting" /\ sched[r] = "stale" THEN "pending"
       ELSE status[r]]
  /\ UNCHANGED <<attempts, sched, tx, writes, faults>>

\* The UPDATE of a cleanup fails: stale rows wait for the next one.
CleanupResetFails(gone) ==
  /\ faults < MaxFaults
  /\ gone \subseteq {r \in Row : status[r] \in {"sent", "failed"}}
  /\ status' = [r \in Row |-> IF r \in gone THEN "deleted" ELSE status[r]]
  /\ faults' = faults + 1
  /\ UNCHANGED <<attempts, sched, tx, writes>>

\* The daemon stops and is started again.
Crash ==
  /\ faults < MaxFaults
  /\ tx' = Idle
  /\ faults' = faults + 1
  /\ UNCHANGED <<status, attempts, sched, writes>>

Next ==
  \/ \E r \in Row :
       \/ QueueTransmission(r) \/ TimePasses(r)
       \/ GetNextTransmission(r) \/ GetNextUnmarked(r)
       \/ SendFrame(r) \/ MarkTransmissionFailed(r) \/ MarkFailedUnread(r)
       \/ MarkTransmitted(r) \/ MarkFails(r)
       \/ PanicOnUnbuildable(r)
  \/ \E gone \in SUBSET Row : CleanupTransmissionQueue(gone) \/ CleanupResetFails(gone)
  \/ Crash

Spec == Init /\ [][Next]_vars

(* Time passes, the loop and the cleanup ticker run; the earliest due row   *)
(* is taken first, so each row has its turn.                                *)
Fairness ==
  /\ \A r \in Row : /\ WF_vars(TimePasses(r))
                    /\ SF_vars(GetNextTransmission(r))
                    /\ WF_vars(SendFrame(r) \/ MarkTransmissionFailed(r))
                    /\ WF_vars(MarkTransmitted(r))
                    /\ WF_vars(PanicOnUnbuildable(r))
  /\ WF_vars(CleanupTransmissionQueue({}))

FairSpec == Spec /\ Fairness

-----------------------------------------------------------------------------
(* A frame is written to the TNC at most once more than there were crashes  *)
(* and failed statements; in particular cleanup may set a row that is just     *)
(* being sent back to 'pending' and it is still not sent again.             *)
SentOnce == \A r \in Row : writes[r] <= 1 + faults

(* Nothing is taken for sent that was not written, nothing is given up      *)
(* before its last attempt, and a row has at most one attempt more for each *)
(* time that the number of attempts could not be read.                      *)
SettledHonestly == \A r \in Row :
  /\ status[r] = "sent" => writes[r] > 0
  /\ status[r] = "failed" => attempts[r] >= MaxRetries
  /\ attempts[r] < MaxRetries + faults + (IF Settled(r) THEN 1 ELSE 0)

(* The row in the loop's hands is never settled or deleted under its feet   *)
(* by cleanupLoop.                                                          *)
HeldIsLive == \A r \in Row : tx \in {Held(r), Sent(r)} => Live(r)

(* A row is 'transmitting' and in nobody's hands only after a crash, a      *)
(* panic or a failed UPDATE; no return path of the loop forgets one.        *)
NoneForgotten == \A r \in Row \ Unbuildable :
  status[r] = "transmitting" /\ tx \notin {Held(r), Sent(r)} => faults > 0

\* A settled row never comes back (CleanupTransmissionQueue, MarkTransmitted).
SettledForGood == [][\A r \in Row : Settled(r) => Settled(r)']_vars

(* Every frame that can be rebuilt is sent or given up in the end: also     *)
(* when the daemon stops while the row is 'transmitting', and while another *)
(* row makes it panic again and again.                                      *)
Settles == \A r \in Row \ Unbuildable : status[r] = "pending" ~> Settled(r)

(* The check frame == nil of transmissionLoop: a row that cannot be rebuilt *)
(* is marked as sent and skipped, so that every row is settled.             *)
AllSettle == \A r \in Row : status[r] = "pending" ~> Settled(r)
=============================================================================
