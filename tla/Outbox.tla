------------------------------- MODULE Outbox -------------------------------
(***************************************************************************)
(* The transactional outbox: transfers and settlements insert a row into   *)
(* outbox_event in the transaction that moves the money; every five        *)
(* seconds OutboxPublisher.publishPendingEvents reads the oldest rows that *)
(* are not processed, adds a job to the domain-events queue for each and   *)
(* marks it processed.                                                     *)
(*                                                                         *)
(* A run p of Run is one call of publishPendingEvents by the scheduler of  *)
(* the server ServerOf[p].  The database, Redis and the servers may fail   *)
(* between any two awaits; a failed call to Redis may have taken effect.   *)
(***************************************************************************)
EXTENDS Naturals, FiniteSets

CONSTANTS
  Event,        \* ids of the rows of outbox_event
  Server,       \* running instances of the program
  Run,          \* calls of publishPendingEvents that may overlap
  ServerOf,     \* ServerOf[p]: the instance that makes call p
  Limit,        \* the parameter limit of findUnprocessed (50)
  MAX_RETRIES,  \* attempts after which a row is left alone (5)
  MaxFaults     \* bound: failed calls and restarts in a behaviour

ASSUME ServersAssumption == IsFiniteSet(Server) /\ ServerOf \in [Run -> Server]
ASSUME EventsAssumption == IsFiniteSet(Event)
ASSUME LimitsAssumption == Limit \in Nat \ {0} /\ MAX_RETRIES \in Nat \ {0}
ASSUME BoundsAssumption == MaxFaults \in Nat

VARIABLES
  created,      \* created[e]: place of the row e in the order of created_at; 0: no row
  retry_count,  \* retry_count[e]: the column retry_count
  processed,    \* the rows whose processed_at is set
  jobs,         \* jobs[e]: jobs added to domain-events for row e
  processing,   \* processing[s]: the flag of the publisher of server s
  pc,           \* pc[p]: the await call p has reached
  batch,        \* batch[p]: the rows call p read and is not done with
  faults        \* failures so far

vars == <<created, retry_count, processed, jobs, processing, pc, batch, faults>>

-----------------------------------------------------------------------------
Steps == {"idle", "findUnprocessed", "add", "markProcessed", "markFailedAttempt"}

Goto(p, step) == pc' = [pc EXCEPT ![p] = step]

\* manager.save(outboxItem), in the transaction of a transfer or a settlement.
Rows == {e \in Event : created[e] > 0}

Save(e) ==
  /\ created[e] = 0
  /\ created' = [created EXCEPT ![e] = Cardinality(Rows) + 1]
  /\ UNCHANGED <<retry_count, processed, jobs, processing, pc, batch, faults>>

Fault ==
  /\ faults < MaxFaults
  /\ faults' = faults + 1

\* The first n rows of R in the order of created_at.
Oldest(R, n) == {e \in R : Cardinality({f \in R : created[f] < created[e]}) < n}

\* where: processed_at IS NULL and retry_count < MAX_RETRIES
NotYetCommittedToo == {e \in Event : e \notin processed /\ retry_count[e] < MAX_RETRIES}
Unprocessed == {e \in Rows : e \notin processed /\ retry_count[e] < MAX_RETRIES}

-----------------------------------------------------------------------------
(* publishPendingEvents                                                    *)
\* A call that finds the flag set returns at once and changes nothing.
MayStartAlways(s) == TRUE
MayStart(s) == ~processing[s]

Start(p) ==
  /\ pc[p] = "idle"
  /\ MayStart(ServerOf[p])
  /\ processing' = [processing EXCEPT ![ServerOf[p]] = TRUE]
  /\ Goto(p, "findUnprocessed")
  /\ UNCHANGED <<created, retry_count, processed, jobs, batch, faults>>

\* finally: the flag is reset however the call ends.
LeavesFlag(s) == UNCHANGED processing
ResetsFlag(s) == processing' = [processing EXCEPT ![s] = FALSE]

Finish(p) ==
  /\ ResetsFlag(ServerOf[p])
  /\ Goto(p, "idle")
  /\ batch' = [batch EXCEPT ![p] = {}]

\* On to the next row of the batch, or out of the loop.
NextRow(p, e) ==
  \/ /\ batch[p] = {e}
     /\ Finish(p)
  \/ /\ batch[p] # {e}
     /\ batch' = [batch EXCEPT ![p] = @ \ {e}]
     /\ Goto(p, "add")
     /\ UNCHANGED processing

FindUnprocessed(p) ==
  /\ pc[p] = "findUnprocessed"
  /\ \/ /\ Unprocessed = {}
        /\ Finish(p)
     \/ /\ Unprocessed # {}
        /\ batch' = [batch EXCEPT ![p] = Oldest(Unprocessed, Limit)]
        /\ Goto(p, "add")
        /\ UNCHANGED processing
  /\ UNCHANGED <<created, retry_count, processed, jobs, faults>>

Current(p, e) == e \in Oldest(batch[p], 1)

AddJob(e) == jobs' = [jobs EXCEPT ![e] = @ + 1]

Add(p, e) ==
  /\ pc[p] = "add"
  /\ Current(p, e)
  /\ AddJob(e)
  /\ Goto(p, "markProcessed")
  /\ UNCHANGED <<created, retry_count, processed, processing, batch, faults>>

\* What follows a row whose add or markProcessed threw: the catch block.
CarriesOn(p) == Goto(p, "markProcessed")
Catches(p) == Goto(p, "markFailedAttempt")

\* Redis refuses the job, or the answer is lost and the job is there.
AddFails(p, e) ==
  /\ pc[p] = "add"
  /\ Current(p, e)
  /\ Fault
  /\ AddJob(e) \/ UNCHANGED jobs
  /\ Catches(p)
  /\ UNCHANGED <<created, retry_count, processed, processing, batch>>

MarkProcessed(p, e) ==
  /\ pc[p] = "markProcessed"
  /\ Current(p, e)
  /\ processed' = processed \cup {e}
  /\ NextRow(p, e)
  /\ UNCHANGED <<created, retry_count, jobs, faults>>

\* The update throws after the job was added, done or not: the row counts as
\* failed.
MarkProcessedFails(p, e) ==
  /\ pc[p] = "markProcessed"
  /\ Current(p, e)
  /\ Fault
  /\ processed' \in {processed, processed \cup {e}}
  /\ Goto(p, "markFailedAttempt")
  /\ UNCHANGED <<created, retry_count, jobs, processing, batch>>

MarkFailedAttempt(p, e) ==
  /\ pc[p] = "markFailedAttempt"
  /\ Current(p, e)
  /\ retry_count' = [retry_count EXCEPT ![e] = @ + 1]
  /\ NextRow(p, e)
  /\ UNCHANGED <<created, processed, jobs, faults>>

\* findUnprocessed throws, or the increment in the catch block does: the rest
\* of the batch is given up.
CallAborts(p) ==
  /\ pc[p] \in {"findUnprocessed", "markFailedAttempt"}
  /\ Fault
  /\ Finish(p)
  /\ UNCHANGED <<created, retry_count, processed, jobs>>

\* The server stops and starts again.
Restart(s) ==
  LET calls == {p \in Run : ServerOf[p] = s}
  IN  /\ \E p \in calls : pc[p] # "idle"
      /\ Fault
      /\ processing' = [processing EXCEPT ![s] = FALSE]
      /\ pc' = [p \in Run |-> IF p \in calls THEN "idle" ELSE pc[p]]
      /\ batch' = [p \in Run |-> IF p \in calls THEN {} ELSE batch[p]]
      /\ UNCHANGED <<created, retry_count, processed, jobs>>

-----------------------------------------------------------------------------
Init ==
  /\ created = [e \in Event |-> 0]
  /\ retry_count = [e \in Event |-> 0]
  /\ processed = {}
  /\ jobs = [e \in Event |-> 0]
  /\ processing = [s \in Server |-> FALSE]
  /\ pc = [p \in Run |-> "idle"]
  /\ batch = [p \in Run |-> {}]
  /\ faults = 0

\* A call goes on by itself until it returns.
Continue(p) ==
  \/ FindUnprocessed(p)
  \/ \E e \in Event : Add(p, e) \/ MarkProcessed(p, e) \/ MarkFailedAttempt(p, e)

Next ==
  \/ \E e \in Event : Save(e)
  \/ \E p \in Run :
       \/ Start(p)
       \/ Continue(p)
       \/ CallAborts(p)
       \/ \E e \in Event : AddFails(p, e) \/ MarkProcessedFails(p, e)
  \/ \E s \in Server : Restart(s)

Spec == Init /\ [][Next]_vars

\* The scheduler calls the publisher again and again, and Node.js runs what a
\* call has pending.
Fairness ==
  /\ \A s \in Server : WF_vars(\E p \in Run : ServerOf[p] = s /\ Start(p))
  /\ \A p \in Run : WF_vars(Continue(p))

FairSpec == Spec /\ Fairness

-----------------------------------------------------------------------------
TypeOK ==
  /\ created \in [Event -> Nat]
  /\ retry_count \in [Event -> Nat]
  /\ processed \subseteq Rows
  /\ jobs \in [Event -> Nat]
  /\ processing \in [Server -> BOOLEAN]
  /\ pc \in [Run -> Steps]
  /\ batch \in [Run -> SUBSET Rows]
  /\ faults \in 0..MaxFaults

\* A row is marked only when its job is in the queue: neither a failure nor a
\* restart between the two calls loses an event that counts as published.
ProcessedIsPublished == \A e \in processed : jobs[e] > 0

\* The flag is set exactly while a call of its server runs, and no two calls
\* of a server run at once: nothing leaves the flag set, which would stop
\* publishing for ever, and nothing resets it under a running call.
FlagGuardsOneCall ==
  \A s \in Server :
    LET running == {p \in Run : ServerOf[p] = s /\ pc[p] # "idle"}
    IN  Cardinality(running) = IF processing[s] THEN 1 ELSE 0

\* A duplicate job has a cause: each failure, and each further server, can add
\* one more job for an event, and nothing else does.
DuplicatesHaveCause == \A e \in Event : jobs[e] <= Cardinality(Server) + faults

\* Every event that is saved is published in the end, or was tried MAX_RETRIES
\* times, however many older rows keep failing in front of it in the batch.
SavedIsPublished ==
  \A e \in Event : created[e] > 0 ~> (jobs[e] > 0 \/ retry_count[e] >= MAX_RETRIES)

=============================================================================
