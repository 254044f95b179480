---------------------------- MODULE Notifications ----------------------------
(***************************************************************************)
(* What becomes of a published event: the domain-events worker turns its   *)
(* job into one notification job per email (DomainEventsProcessor), the    *)
(* notifications worker sends the email (NotificationsProcessor), a        *)
(* notification that used up its attempts goes to the dead-letter queue    *)
(* and comes back from there a bounded number of times                     *)
(* (DeadLetterProcessor).                                                  *)
(*                                                                         *)
(* BullMQ, in Redis, is external: a job is run until an attempt succeeds   *)
(* or the attempts of its queue are used up; a job whose worker stops has  *)
(* stalled, is run again the first time and is failed the second time      *)
(* (maxStalledCount, 1).  SendGrid is external.                            *)
(***************************************************************************)
EXTENDS Naturals, Bags, SequencesExt

CONSTANTS
  Job,                \* jobs of the domain-events queue; two may carry the same event
  NameOf,             \* NameOf[j]: the event name of job j
  ATTEMPTS,           \* defaultJobOptions.attempts of domain-events and notifications (3)
  MAX_DLQ_REPROCESS,  \* rounds through the dead-letter queue (3)
  MaxStops,           \* bound: workers that stop in a behaviour
  MaxFaults           \* bound: calls to Redis and SendGrid that fail in a behaviour

ASSUME JobAssumption == NameOf \in [Job -> {"TransferCompleted", "DepositSucceeded"}]
ASSUME LimitsAssumption == ATTEMPTS \in Nat \ {0} /\ MAX_DLQ_REPROCESS \in Nat
ASSUME BoundsAssumption == MaxStops \in Nat /\ MaxFaults \in Nat

Mail == {"TransferSent", "TransferReceived", "DepositSucceeded"}

\* The notifications DomainEventsProcessor.process adds, in this order.
KeepsTheName(name) ==
  IF name = "TransferCompleted" THEN <<"TransferSent", name>> ELSE <<name>>
MailsOf(name) ==
  IF name = "TransferCompleted" THEN <<"TransferSent", "TransferReceived">> ELSE <<name>>

VARIABLES
  state,    \* state[j]: of domain-events job j
  tried,    \* tried[j]: attemptsMade of job j
  left,     \* left[j]: the notifications the present attempt has still to add
  stalled,  \* the domain-events jobs whose worker stopped once
  queued,   \* a bag of notification jobs and dead letters (see Notification)
  tally,    \* tally[j][m]: what happened to the emails m of job j so far
  stops,    \* workers that stopped so far
  faults    \* calls that failed so far

vars == <<state, tried, left, stalled, queued, tally, stops, faults>>

-----------------------------------------------------------------------------
\* stage: waiting in notifications, being sent, failed for good with its
\* onFailed listener still to run, waiting in dead-letter.  attempts is
\* attemptsMade, stalled whether a worker stopped over it in the queue it is in,
\* dlqCount comes from _dlqMeta.
Notification ==
  [job: Job, mail: Mail, attempts: 0..ATTEMPTS, dlqCount: Nat, stalled: BOOLEAN,
   stage: {"waiting", "active", "exhausted", "dead"}]

Fresh(j, m, count) ==
  [job |-> j, mail |-> m, attempts |-> 0, dlqCount |-> count, stalled |-> FALSE,
   stage |-> "waiting"]

\* made: notification jobs that exist or existed, not counting the ones a dead
\* letter was turned back into.  mailed: emails SendGrid accepted.  refused:
\* attempts that failed.  stored: dead letters written.  sent, givenUp, lost:
\* how notification jobs ended; a lost one has no dead letter, or not any more.
Tally == [made: Nat, mailed: Nat, refused: Nat, stored: Nat, sent: Nat, givenUp: Nat, lost: Nat]

Zero == [made |-> 0, mailed |-> 0, refused |-> 0, stored |-> 0, sent |-> 0, givenUp |-> 0, lost |-> 0]

Put(n) == SetToBag({n})
Count(t, S) == [f \in DOMAIN t |-> IF f \in S THEN t[f] + 1 ELSE t[f]]
Tallied(n, S) == tally' = [tally EXCEPT ![n.job][n.mail] = Count(@, S)]

Stop ==
  /\ stops < MaxStops
  /\ stops' = stops + 1
  /\ UNCHANGED faults

Fault ==
  /\ faults < MaxFaults
  /\ faults' = faults + 1
  /\ UNCHANGED stops

-----------------------------------------------------------------------------
(* domain-events                                                           *)
\* The outbox publisher adds a job.
Publish(j) ==
  /\ state[j] = "absent"
  /\ state' = [state EXCEPT ![j] = "waiting"]
  /\ UNCHANGED <<tried, left, stalled, queued, tally, stops, faults>>

Process(j) ==
  /\ state[j] = "waiting"
  /\ state' = [state EXCEPT ![j] = "active"]
  /\ left' = [left EXCEPT ![j] = MailsOf(NameOf[j])]
  /\ UNCHANGED <<tried, stalled, queued, tally, stops, faults>>

Add(j) ==
  /\ queued' = queued (+) Put(Fresh(j, Head(left[j]), 0))
  /\ tally' = [tally EXCEPT ![j][Head(left[j])] = Count(@, {"made"})]

AddNotification(j) ==
  /\ state[j] = "active"
  /\ left[j] # << >>
  /\ Add(j)
  /\ left' = [left EXCEPT ![j] = Tail(@)]
  /\ UNCHANGED <<state, tried, stalled, stops, faults>>

Complete(j) ==
  /\ state[j] = "active"
  /\ left[j] = << >>
  /\ state' = [state EXCEPT ![j] = "completed"]
  /\ UNCHANGED <<tried, left, stalled, queued, tally, stops, faults>>

\* What a failed attempt leaves for the next one: the job starts all over.
SwallowsTheError(j) == state' = [state EXCEPT ![j] = "completed"]
Retries(j) ==
  state' = [state EXCEPT ![j] = IF tried[j] + 1 < ATTEMPTS THEN "waiting" ELSE "failed"]

\* The add fails, done or not: the whole job is tried again, or is failed and
\* kept; this queue has no listener that would write a dead letter.
AddFails(j) ==
  /\ state[j] = "active"
  /\ left[j] # << >>
  /\ Fault
  /\ Add(j) \/ UNCHANGED <<queued, tally>>
  /\ tried' = [tried EXCEPT ![j] = @ + 1]
  /\ Retries(j)
  /\ left' = [left EXCEPT ![j] = << >>]
  /\ UNCHANGED stalled

\* The worker stops: the job is run again, or has stalled before and is failed.
Stall(j) ==
  /\ state[j] = "active"
  /\ Stop
  /\ state' = [state EXCEPT ![j] = IF j \in stalled THEN "failed" ELSE "waiting"]
  /\ left' = [left EXCEPT ![j] = << >>]
  /\ stalled' = stalled \cup {j}
  /\ UNCHANGED <<tried, queued, tally>>

-----------------------------------------------------------------------------
(* notifications                                                           *)
Becomes(n, m) == queued' = (queued (-) Put(n)) (+) Put(m)
Leaves(n) == queued' = queued (-) Put(n)

In(stage) == {n \in BagToSet(queued) : n.stage = stage}

Take(n) ==
  /\ n \in In("waiting")
  /\ Becomes(n, [n EXCEPT !.stage = "active"])
  /\ UNCHANGED <<state, tried, left, stalled, tally, stops, faults>>

Send(n) ==
  /\ n \in In("active")
  /\ Leaves(n)
  /\ Tallied(n, {"mailed", "sent"})
  /\ UNCHANGED <<state, tried, left, stalled, stops, faults>>

\* The guard of the listener onFailed, which is called after every failed
\* attempt: job.attemptsMade >= job.opts.attempts.
ExhaustedAtOnce(n) == n.attempts >= 1
Exhausted(n) == n.attempts >= ATTEMPTS

\* BullMQ keeps the job for another attempt while it has one; the listener
\* has something to do when its guard holds.
FailsAttempt(n) ==
  LET m == [n EXCEPT !.attempts = @ + 1]
      retry == IF m.attempts < ATTEMPTS THEN Put([m EXCEPT !.stage = "waiting"]) ELSE EmptyBag
      listen == IF Exhausted(m) THEN Put([m EXCEPT !.stage = "exhausted"]) ELSE EmptyBag
  IN  queued' = (queued (-) Put(n)) (+) retry (+) listen

\* SendGrid refuses the email, or its answer is lost and the email is sent.
SendFails(n) ==
  /\ n \in In("active")
  /\ Fault
  /\ FailsAttempt(n)
  /\ Tallied(n, {"refused"}) \/ Tallied(n, {"refused", "mailed"})
  /\ UNCHANGED <<state, tried, left, stalled>>

\* The worker stops before or after the email is sent.
SendStalls(n) ==
  /\ n \in In("active")
  /\ ~n.stalled
  /\ Stop
  /\ Becomes(n, [n EXCEPT !.stage = "waiting", !.stalled = TRUE])
  /\ UNCHANGED tally \/ Tallied(n, {"mailed"})
  /\ UNCHANGED <<state, tried, left, stalled>>

\* The worker stops and BullMQ fails the job, attempts left or not; its
\* releases differ in whether that counts as an attempt.  The listener is
\* called and returns at its guard, unless the attempts are used up just now.
SendStallsAgain(n) ==
  /\ n \in In("active")
  /\ n.stalled
  /\ Stop
  /\ \E counted \in {0, 1}, sent \in {{}, {"mailed"}} :
       LET m == [n EXCEPT !.attempts = @ + counted, !.stage = "exhausted"]
       IN  \/ Exhausted(m) /\ Becomes(n, m) /\ Tallied(n, {"refused"} \cup sent)
           \/ ~Exhausted(m) /\ Leaves(n) /\ Tallied(n, {"lost"} \cup sent)
  /\ UNCHANGED <<state, tried, left, stalled>>

\* The listener onFailed.  The dead letter is a job of its own.
OnFailed(n) ==
  /\ n \in In("exhausted")
  /\ Becomes(n, [n EXCEPT !.stage = "dead", !.stalled = FALSE])
  /\ Tallied(n, {"stored"})
  /\ UNCHANGED <<state, tried, left, stalled, stops, faults>>

\* Redis refuses the dead letter, or the worker stops before it is added: the
\* listener is not run again.
OnFailedFails(n) ==
  /\ n \in In("exhausted")
  /\ Fault
  /\ Leaves(n)
  /\ Tallied(n, {"lost"})
  /\ UNCHANGED <<state, tried, left, stalled>>

-----------------------------------------------------------------------------
(* dead-letter                                                             *)
GivesUp(n) == n.dlqCount >= MAX_DLQ_REPROCESS

ForgetsRound(n) == n.dlqCount
NextRound(n) == n.dlqCount + 1

Again(n) == Fresh(n.job, n.mail, NextRound(n))

GiveUp(n) ==
  /\ n \in In("dead")
  /\ GivesUp(n)
  /\ Leaves(n)
  /\ Tallied(n, {"givenUp"})
  /\ UNCHANGED <<state, tried, left, stalled, stops, faults>>

Reprocess(n) ==
  /\ n \in In("dead")
  /\ ~GivesUp(n)
  /\ Becomes(n, Again(n))
  /\ UNCHANGED <<state, tried, left, stalled, tally, stops, faults>>

\* The dead letter is failed with the add not done, and the notification is
\* lost, or done.
Fails(n) ==
  \/ Leaves(n) /\ Tallied(n, {"lost"})
  \/ Becomes(n, Again(n)) /\ UNCHANGED tally

\* The queue gives a job one attempt.
ReprocessFails(n) ==
  /\ n \in In("dead")
  /\ ~GivesUp(n)
  /\ Fault
  /\ Fails(n)
  /\ UNCHANGED <<state, tried, left, stalled>>

\* The worker stops, before or after the add: the dead letter is processed once
\* more.
ReprocessStalls(n) ==
  /\ n \in In("dead")
  /\ ~n.stalled
  /\ Stop
  /\ LET m == [n EXCEPT !.stalled = TRUE]
     IN  \/ Becomes(n, m) /\ UNCHANGED tally
         \/ /\ ~GivesUp(n)
            /\ queued' = ((queued (-) Put(n)) (+) Put(m)) (+) Put(Again(n))
            /\ Tallied(n, {"made"})
  /\ UNCHANGED <<state, tried, left, stalled>>

\* The worker stops and BullMQ fails the dead letter.
ReprocessStallsAgain(n) ==
  /\ n \in In("dead")
  /\ n.stalled
  /\ Stop
  /\ IF GivesUp(n) THEN Leaves(n) /\ Tallied(n, {"givenUp"}) ELSE Fails(n)
  /\ UNCHANGED <<state, tried, left, stalled>>

-----------------------------------------------------------------------------
Init ==
  /\ state = [j \in Job |-> "absent"]
  /\ tried = [j \in Job |-> 0]
  /\ left = [j \in Job |-> << >>]
  /\ stalled = {}
  /\ queued = EmptyBag
  /\ tally = [j \in Job |-> [m \in Mail |-> Zero]]
  /\ stops = 0
  /\ faults = 0

JobStep(j) == Process(j) \/ AddNotification(j) \/ Complete(j)

MailStep(n) == Take(n) \/ Send(n) \/ OnFailed(n) \/ Reprocess(n) \/ GiveUp(n)

\* The steps of the workers.
Work ==
  \/ \E j \in Job : JobStep(j) \/ AddFails(j) \/ Stall(j)
  \/ \E n \in BagToSet(queued) :
       \/ MailStep(n)
       \/ SendFails(n) \/ SendStalls(n) \/ SendStallsAgain(n)
       \/ OnFailedFails(n)
       \/ ReprocessFails(n) \/ ReprocessStalls(n) \/ ReprocessStallsAgain(n)

Next ==
  \/ \E j \in Job : Publish(j)
  \/ Work

Spec == Init /\ [][Next]_vars

\* The workers keep taking jobs, and back-off delays end.  Every step ends an
\* attempt or a round, and failures and stops are finitely many, so no job is
\* starved.
Fairness ==
  /\ \A j \in Job : WF_vars(JobStep(j))
  /\ WF_vars(\E n \in BagToSet(queued) : MailStep(n))

FairSpec == Spec /\ Fairness

-----------------------------------------------------------------------------
TypeOK ==
  /\ state \in [Job -> {"absent", "waiting", "active", "completed", "failed"}]
  /\ tried \in [Job -> 0..ATTEMPTS]
  /\ \A j \in Job : IsSuffix(left[j], MailsOf(NameOf[j]))
  /\ stalled \subseteq Job
  /\ BagToSet(queued) \subseteq Notification
  /\ \A n \in BagToSet(queued) : queued[n] \in Nat
  /\ tally \in [Job -> [Mail -> Tally]]
  /\ stops \in 0..MaxStops
  /\ faults \in 0..MaxFaults

\* A TransferCompleted job that completes has told both parties: the two adds
\* are not atomic, and no failure between them leaves one party out.
EveryoneIsTold ==
  \A j \in Job : state[j] = "completed" =>
    \A i \in 1..Len(MailsOf(NameOf[j])) : tally[j][MailsOf(NameOf[j])[i]].made > 0

\* The notification jobs in a set, one by one: the bag holds some twice.
Copies(N) == UNION {{n} \X (1..queued[n]) : n \in N}

\* Every notification job is in one place: waiting, being sent, failed and
\* about to be dead-lettered, a dead letter, or ended.  Moving jobs between
\* the queues neither drops nor forks one, however often a worker stops.
InOnePlace ==
  \A j \in Job, m \in Mail :
    LET t == tally[j][m]
        there == Copies({n \in BagToSet(queued) : n.job = j /\ n.mail = m})
    IN  t.made = Cardinality(there) + t.sent + t.givenUp + t.lost

\* No attempt is forgotten: the number of rounds through the dead-letter queue
\* travels with a notification through both queues, so it is attempted ATTEMPTS
\* times in each of MAX_DLQ_REPROCESS + 1 rounds, not more often, and is never
\* given up before.  (One that BullMQ fails early is lost, not given up.)
AttemptsAreCounted ==
  \A j \in Job, m \in Mail :
    LET t == tally[j][m]
    IN  /\ \A n \in BagToSet(queued) :
             n.job = j /\ n.mail = m /\ t.made = 1 =>
               /\ t.refused = ATTEMPTS * n.dlqCount + n.attempts
               /\ n.dlqCount <= MAX_DLQ_REPROCESS
        /\ t.givenUp > 0 => t.refused >= ATTEMPTS * (MAX_DLQ_REPROCESS + 1)

\* Every published event reaches each of its recipients, unless the job itself
\* was failed, or the notification was given up or lost.
PublishedIsMailed ==
  \A j \in Job : \A m \in {MailsOf(NameOf[j])[i] : i \in 1..Len(MailsOf(NameOf[j]))} :
    state[j] # "absent" ~>
      \/ tally[j][m].mailed > 0
      \/ state[j] = "failed"
      \/ tally[j][m].givenUp + tally[j][m].lost > 0

-----------------------------------------------------------------------------
\* README: "`dead-letter` | Stores permanently failed jobs".  An event of
\* which no email went out has left a dead letter.
FailedIsStored ==
  \A j \in Job : \A m \in {MailsOf(NameOf[j])[i] : i \in 1..Len(MailsOf(NameOf[j]))} :
    state[j] # "absent" ~> tally[j][m].mailed > 0 \/ tally[j][m].stored > 0
=============================================================================
