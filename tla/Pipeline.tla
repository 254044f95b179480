------------------------------ MODULE Pipeline ------------------------------
(***************************************************************************)
(* From a row of outbox_event to an email: the outbox publisher in front   *)
(* of the queues.  The publisher adds a job to domain-events, the workers  *)
(* take it from there; each part has failures of its own.                  *)
(***************************************************************************)
EXTENDS Naturals, FiniteSets

CONSTANTS
  Event, EventName,                     \* the rows, and their column event_name
  Server, Run, ServerOf, Limit, MAX_RETRIES, MaxPublishFaults,  \* see Outbox
  ATTEMPTS, MAX_DLQ_REPROCESS, MaxStops, MaxWorkFaults  \* see Notifications

ASSUME NamesAssumption == EventName \in [Event -> {"TransferCompleted", "DepositSucceeded"}]
ASSUME PublisherAssumption ==
  /\ IsFiniteSet(Event) /\ IsFiniteSet(Server) /\ ServerOf \in [Run -> Server]
  /\ Limit \in Nat \ {0} /\ MAX_RETRIES \in Nat \ {0} /\ MaxPublishFaults \in Nat
ASSUME WorkersAssumption ==
  /\ ATTEMPTS \in Nat \ {0} /\ MAX_DLQ_REPROCESS \in Nat
  /\ MaxStops \in Nat /\ MaxWorkFaults \in Nat

VARIABLES
  created, retry_count, processed, jobs, processing, pc, batch, publishFaults,
  state, tried, left, stalled, queued, tally, stops, workFaults

\* The jobs a row can become, the first one added, the second, and so on: one
\* for each server and one for each failure (Outbox!DuplicatesHaveCause).
Copy == 1..(Cardinality(Server) + MaxPublishFaults)

O == INSTANCE Outbox WITH MaxFaults <- MaxPublishFaults, faults <- publishFaults

N == INSTANCE Notifications WITH
  Job <- Event \X Copy, NameOf <- [j \in Event \X Copy |-> EventName[j[1]]],
  MaxFaults <- MaxWorkFaults, faults <- workFaults

outboxVars == <<created, retry_count, processed, jobs, processing, pc, batch, publishFaults>>
workVars == <<state, tried, left, stalled, queued, tally, stops, workFaults>>
vars == <<outboxVars, workVars>>

-----------------------------------------------------------------------------
Init == O!Init /\ N!Init

\* A step of the publisher; the job it adds is there for the workers at once.
PublisherStep ==
  /\ O!Next
  /\ IF jobs' = jobs THEN UNCHANGED workVars
     ELSE \E e \in Event : jobs'[e] > jobs[e] /\ N!Publish(<<e, jobs'[e]>>)

WorkerStep == N!Work /\ UNCHANGED outboxVars

Next == PublisherStep \/ WorkerStep

Spec == Init /\ [][Next]_vars

FairSpec == Spec /\ O!Fairness /\ N!Fairness

-----------------------------------------------------------------------------
Mails(e) == {N!MailsOf(EventName[e])[i] : i \in DOMAIN N!MailsOf(EventName[e])}

\* The emails m about row e that SendGrid accepted, one by one, whatever job they
\* came from.
Mailed(e, m) == UNION {{j} \X (1..tally[j][m].mailed) : j \in {e} \X Copy}

\* Every event that was saved with the money reaches each of its recipients:
\* to lose an email it takes MAX_RETRIES failures of the publisher, ATTEMPTS of
\* the workers, or two workers that stop.  Fewer, wherever they strike, and a
\* server that stops between any two steps, delay it only.
SavedIsMailed ==
  \A e \in Event : \A m \in Mails(e) :
    created[e] > 0 ~>
      \/ Mailed(e, m) # {}
      \/ publishFaults >= MAX_RETRIES
      \/ workFaults >= ATTEMPTS
      \/ stops >= 2

\* Each further email about an event to one recipient has a cause of its own:
\* another server, a failure, or a worker that stopped, anywhere on the way.
\* The retries of the publisher, of two queues and of the dead letters do not
\* multiply.
MailsHaveCause ==
  \A e \in Event : \A m \in Mails(e) :
    Cardinality(Mailed(e, m)) <= Cardinality(Server) + publishFaults + workFaults + stops
=============================================================================
