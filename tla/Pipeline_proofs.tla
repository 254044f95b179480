--------------------------- MODULE Pipeline_proofs ---------------------------
(***************************************************************************)
(* Proofs about the way from a row to an email.  What the pipeline does to *)
(* the publisher's variables is what a publisher does, and what it does to *)
(* the workers' is what the workers do: the theorems about each of them    *)
(* hold here, and add up.                                                  *)
(***************************************************************************)
EXTENDS Pipeline, FiniteSetTheorems, TLAPS

OP == INSTANCE Outbox_proofs WITH MaxFaults <- MaxPublishFaults, faults <- publishFaults

NP == INSTANCE Notifications_proofs WITH
  Job <- Event \X Copy, NameOf <- [j \in Event \X Copy |-> EventName[j[1]]],
  MaxFaults <- MaxWorkFaults, faults <- workFaults

-----------------------------------------------------------------------------
(* The assumptions of the components' theorems hold.                       *)
LEMMA OutboxAssumptions ==
  OP!ServersAssumption /\ OP!EventsAssumption /\ OP!LimitsAssumption /\ OP!BoundsAssumption
PROOF
  BY PublisherAssumption DEF OP!ServersAssumption, OP!EventsAssumption, OP!LimitsAssumption,
     OP!BoundsAssumption, IsFiniteSet, OP!IsFiniteSet

LEMMA NotificationsAssumptions ==
  NP!JobAssumption /\ NP!LimitsAssumption /\ NP!BoundsAssumption
PROOF
  BY NamesAssumption, WorkersAssumption DEF NP!JobAssumption, NP!LimitsAssumption,
     NP!BoundsAssumption

-----------------------------------------------------------------------------
(* The instances O and N the pipeline is composed of, and the instances OP *)
(* and NP their lemmas are about, define the same things.                  *)
LEMMA SamePublisher == (O!Init <=> OP!Init) /\ (O!Next <=> OP!Next)
PROOF
  <1> USE DEF O!Goto, OP!Goto, O!Rows, OP!Rows, O!Fault, OP!Fault, O!Oldest, OP!Oldest,
          O!Unprocessed, OP!Unprocessed, O!ResetsFlag, OP!ResetsFlag, O!Finish, OP!Finish,
          O!NextRow, OP!NextRow, O!Current, OP!Current, O!AddJob, OP!AddJob, O!Catches, OP!Catches,
          O!MayStart, OP!MayStart, O!Cardinality, OP!Cardinality
  <1>1. ASSUME NEW e PROVE O!Save(e) <=> OP!Save(e)
    BY DEF O!Save, OP!Save
  <1>2. ASSUME NEW p PROVE O!Start(p) <=> OP!Start(p)
    BY DEF O!Start, OP!Start
  <1>3. ASSUME NEW p PROVE O!FindUnprocessed(p) <=> OP!FindUnprocessed(p)
    BY DEF O!FindUnprocessed, OP!FindUnprocessed
  <1>4. ASSUME NEW p, NEW e PROVE O!Add(p, e) <=> OP!Add(p, e)
    BY DEF O!Add, OP!Add
  <1>5. ASSUME NEW p, NEW e PROVE O!AddFails(p, e) <=> OP!AddFails(p, e)
    BY DEF O!AddFails, OP!AddFails
  <1>6. ASSUME NEW p, NEW e PROVE O!MarkProcessed(p, e) <=> OP!MarkProcessed(p, e)
    BY DEF O!MarkProcessed, OP!MarkProcessed
  <1>7. ASSUME NEW p, NEW e PROVE O!MarkProcessedFails(p, e) <=> OP!MarkProcessedFails(p, e)
    BY DEF O!MarkProcessedFails, OP!MarkProcessedFails
  <1>8. ASSUME NEW p, NEW e PROVE O!MarkFailedAttempt(p, e) <=> OP!MarkFailedAttempt(p, e)
    BY DEF O!MarkFailedAttempt, OP!MarkFailedAttempt
  <1>9. ASSUME NEW p PROVE O!CallAborts(p) <=> OP!CallAborts(p)
    BY DEF O!CallAborts, OP!CallAborts
  <1>10. ASSUME NEW s PROVE O!Restart(s) <=> OP!Restart(s)
    BY DEF O!Restart, OP!Restart
  <1>11. O!Init <=> OP!Init
    BY DEF O!Init, OP!Init
  <1> QED
    BY <1>1, <1>2, <1>3, <1>4, <1>5, <1>6, <1>7, <1>8, <1>9, <1>10, <1>11
    DEF O!Next, OP!Next, O!Continue, OP!Continue

LEMMA SameWorkers ==
  /\ N!Init <=> NP!Init
  /\ N!Work <=> NP!Work
  /\ \A j : N!Publish(j) <=> NP!Publish(j)
PROOF
  <1> USE DEF N!Put, NP!Put, N!Fresh, NP!Fresh, N!Count, NP!Count, N!Tallied, NP!Tallied, N!Stop,
          NP!Stop, N!Fault, NP!Fault, N!Add, NP!Add, N!Becomes, NP!Becomes, N!Leaves, NP!Leaves,
          N!In, NP!In, N!FailsAttempt, NP!FailsAttempt, N!Exhausted, NP!Exhausted, N!GivesUp,
          NP!GivesUp, N!Fails, NP!Fails, N!NextRound, NP!NextRound, N!Again, NP!Again, N!MailsOf, NP!MailsOf,
          N!Retries, NP!Retries, N!SetToBag, NP!SetToBag, N!BagToSet, NP!BagToSet, N!EmptyBag,
          NP!EmptyBag, N!(+), NP!(+), N!(-), NP!(-)
  <1>1. ASSUME NEW j PROVE N!Publish(j) <=> NP!Publish(j)
    BY DEF N!Publish, NP!Publish
  <1>2. ASSUME NEW j PROVE N!JobStep(j) <=> NP!JobStep(j)
    BY DEF N!JobStep, NP!JobStep, N!Process, NP!Process, N!AddNotification, NP!AddNotification,
           N!Complete, NP!Complete
  <1>3. ASSUME NEW j PROVE N!AddFails(j) <=> NP!AddFails(j)
    BY DEF N!AddFails, NP!AddFails
  <1>4. ASSUME NEW j PROVE N!Stall(j) <=> NP!Stall(j)
    BY DEF N!Stall, NP!Stall
  <1>5. ASSUME NEW n PROVE N!Take(n) <=> NP!Take(n)
    BY DEF N!Take, NP!Take
  <1>6. ASSUME NEW n PROVE N!Send(n) <=> NP!Send(n)
    BY DEF N!Send, NP!Send
  <1>7. ASSUME NEW n PROVE N!OnFailed(n) <=> NP!OnFailed(n)
    BY DEF N!OnFailed, NP!OnFailed
  <1>8. ASSUME NEW n PROVE N!Reprocess(n) <=> NP!Reprocess(n)
    BY DEF N!Reprocess, NP!Reprocess
  <1>9. ASSUME NEW n PROVE N!GiveUp(n) <=> NP!GiveUp(n)
    BY DEF N!GiveUp, NP!GiveUp
  <1>10. ASSUME NEW n PROVE N!SendFails(n) <=> NP!SendFails(n)
    BY DEF N!SendFails, NP!SendFails
  <1>11. ASSUME NEW n PROVE N!SendStalls(n) <=> NP!SendStalls(n)
    BY DEF N!SendStalls, NP!SendStalls
  <1>12. ASSUME NEW n PROVE N!OnFailedFails(n) <=> NP!OnFailedFails(n)
    BY DEF N!OnFailedFails, NP!OnFailedFails
  <1>13. ASSUME NEW n PROVE N!ReprocessFails(n) <=> NP!ReprocessFails(n)
    BY DEF N!ReprocessFails, NP!ReprocessFails
  <1>14. ASSUME NEW n PROVE N!ReprocessStalls(n) <=> NP!ReprocessStalls(n)
    BY DEF N!ReprocessStalls, NP!ReprocessStalls
  <1>15. ASSUME NEW n PROVE N!SendStallsAgain(n) <=> NP!SendStallsAgain(n)
    BY DEF N!SendStallsAgain, NP!SendStallsAgain
  <1>16. ASSUME NEW n PROVE N!ReprocessStallsAgain(n) <=> NP!ReprocessStallsAgain(n)
    BY DEF N!ReprocessStallsAgain, NP!ReprocessStallsAgain
  <1>17. ASSUME NEW n PROVE N!MailStep(n) <=> NP!MailStep(n)
    BY <1>5, <1>6, <1>7, <1>8, <1>9 DEF N!MailStep, NP!MailStep
  <1>18. N!Work <=> NP!Work
    BY <1>2, <1>3, <1>4, <1>10, <1>11, <1>12, <1>13, <1>14, <1>15, <1>16, <1>17 DEF N!Work, NP!Work
  <1>19. N!Init <=> NP!Init
    BY DEF N!Init, NP!Init, N!Zero, NP!Zero, N!Mail, NP!Mail
  <1> QED BY <1>1, <1>18, <1>19

-----------------------------------------------------------------------------
(* The pipeline and its components.                                        *)
\* The first i jobs of a row are published for the i jobs the publisher added.
OnlyAdded == \A e \in Event, i \in Copy : state[<<e, i>>] # "absent" => i <= jobs[e]

\* Seen from the publisher, the pipeline is a publisher.
LEMMA PublisherBehaves == Spec => OP!Spec
PROOF
  <1>1. Init => OP!Init
    BY SamePublisher DEF Init
  <1>2. [Next]_vars => [OP!Next]_(OP!vars)
    BY SamePublisher DEF Next, PublisherStep, WorkerStep, vars, outboxVars, OP!vars
  <1> QED BY <1>1, <1>2, PTL DEF Spec, OP!Spec

\* The job an added row becomes is one of the rows' jobs: there are no more of
\* them than causes of duplicates.
LEMMA CopiesSuffice ==
  ASSUME OP!TypeOK, OP!DuplicatesHaveCause, NEW e \in Event
  PROVE  jobs[e] \in Nat /\ jobs[e] <= Cardinality(Server) + MaxPublishFaults
PROOF
  <1>1. /\ jobs[e] \in Nat /\ publishFaults \in Nat /\ publishFaults <= MaxPublishFaults
        /\ MaxPublishFaults \in Nat /\ Cardinality(Server) \in Nat
    BY PublisherAssumption, FS_CardinalityType DEF OP!TypeOK
  <1>2. jobs[e] <= Cardinality(Server) + publishFaults
    BY DEF OP!DuplicatesHaveCause, OP!Cardinality, Cardinality
  <1> QED BY <1>1, <1>2

LEMMA PublisherHolds == Spec => [](OP!TypeOK /\ OP!DuplicatesHaveCause)
PROOF
  <1>1. OP!Spec => []OP!TypeOK
    BY OutboxAssumptions, OP!Types
  <1>2. OP!Spec => []OP!DuplicatesHaveCause
    BY OutboxAssumptions, OP!DuplicatesHaveCauseHolds
  <1> QED BY <1>1, <1>2, PublisherBehaves, PTL

LEMMA PublishedIsCopy ==
  ASSUME OP!TypeOK, OP!TypeOK', OP!DuplicatesHaveCause',
         NEW e \in Event, jobs'[e] > jobs[e]
  PROVE  jobs'[e] \in Copy
PROOF
  <1>1. jobs[e] \in Nat
    BY DEF OP!TypeOK
  <1>2. jobs'[e] \in Nat /\ jobs'[e] <= Cardinality(Server) + MaxPublishFaults
    <2>1. /\ jobs'[e] \in Nat /\ publishFaults' \in Nat /\ publishFaults' <= MaxPublishFaults
          /\ MaxPublishFaults \in Nat /\ Cardinality(Server) \in Nat
      BY PublisherAssumption, FS_CardinalityType DEF OP!TypeOK
    <2>2. jobs'[e] <= Cardinality(Server) + publishFaults'
      BY DEF OP!DuplicatesHaveCause, OP!Cardinality, Cardinality
    <2> QED BY <2>1, <2>2
  <1>3. Cardinality(Server) + MaxPublishFaults \in Nat
    BY PublisherAssumption, FS_CardinalityType
  <1> QED BY <1>1, <1>2, <1>3 DEF Copy

\* Seen from the queues, the pipeline is workers and someone who publishes.
LEMMA WorkersBehave == Spec => NP!Spec
PROOF
  <1>1. Init => NP!Init
    BY SameWorkers DEF Init
  <1> DEFINE I == OP!TypeOK /\ OP!DuplicatesHaveCause
  <1>2. I /\ I' /\ [Next]_vars => [NP!Next]_(NP!vars)
    <2> SUFFICES ASSUME OP!TypeOK, OP!TypeOK', OP!DuplicatesHaveCause', [Next]_vars
                 PROVE  [NP!Next]_(NP!vars)
      OBVIOUS
    <2>1. CASE UNCHANGED workVars
      BY <2>1 DEF workVars, NP!vars
    <2>2. ASSUME NEW e \in Event, jobs'[e] > jobs[e], N!Publish(<<e, jobs'[e]>>)
          PROVE  NP!Next
      <3>1. jobs'[e] \in Copy
        BY <2>2, PublishedIsCopy
      <3>2. PICK j \in Event \X Copy : j = <<e, jobs'[e]>>
        BY <3>1
      <3>3. NP!Publish(j)
        BY <2>2, <3>2, SameWorkers
      <3> QED BY <3>3 DEF NP!Next
    <2>3. CASE N!Work
      BY <2>3, SameWorkers DEF NP!Next
    <2> QED BY <2>1, <2>2, <2>3 DEF Next, PublisherStep, WorkerStep, vars
  <1> HIDE DEF I
  <1>3. Spec => []I
    BY PublisherHolds DEF I
  <1> QED BY <1>1, <1>2, <1>3, PTL DEF Spec, NP!Spec

LEMMA WorkersHold == Spec => [](NP!TypeOK /\ NP!BoundsOK /\ NP!AllCovered)
PROOF
  <1>1. NP!Spec => []NP!TypeOK
    BY NotificationsAssumptions, NP!Types
  <1>2. NP!Spec => [](NP!BoundsOK /\ NP!AllCovered)
    BY NotificationsAssumptions, NP!CoveredHolds
  <1> QED BY <1>1, <1>2, WorkersBehave, PTL

LEMMA OnlyAddedStep ==
  ASSUME OP!TypeOK, OP!TypeOK', NP!TypeOK, OnlyAdded, [Next]_vars
  PROVE  OnlyAdded'
PROOF
  <1>1. ASSUME NEW e \in Event, NEW i \in Copy, state'[<<e, i>>] # "absent"
        PROVE  i <= jobs'[e]
    <2>0. /\ jobs[e] \in Nat /\ jobs'[e] \in Nat /\ i \in Nat
          /\ jobs'[e] >= jobs[e]
      <3>1. [OP!Next]_(OP!vars)
        BY SamePublisher DEF Next, PublisherStep, WorkerStep, vars, outboxVars, OP!vars
      <3>2. jobs'[e] >= jobs[e]
        BY <3>1, OutboxAssumptions, OP!JobsGrow
      <3>3. Cardinality(Server) + MaxPublishFaults \in Nat
        BY PublisherAssumption, FS_CardinalityType
      <3> QED BY <3>2, <3>3 DEF OP!TypeOK, Copy
    <2>1. CASE state[<<e, i>>] # "absent"
      BY <1>1, <2>0, <2>1 DEF OnlyAdded
    <2>2. CASE state[<<e, i>>] = "absent"
      <3> DEFINE j == <<e, i>>
      <3>1. j \in DOMAIN state /\ state'[j] # state[j]
        BY <1>1, <2>2 DEF NP!TypeOK
      <3>2. ~ N!Work
        <4>1. ~ NP!Work
          BY <2>2, <3>1 DEF NP!Work, NP!JobStep, NP!MailStep, NP!Process, NP!AddNotification,
             NP!Complete, NP!AddFails, NP!Retries, NP!Stall, NP!Take, NP!Send, NP!SendFails,
             NP!SendStalls, NP!SendStallsAgain, NP!OnFailed, NP!OnFailedFails, NP!GiveUp,
             NP!Reprocess, NP!ReprocessFails, NP!ReprocessStalls, NP!ReprocessStallsAgain
        <4> QED BY <4>1, SameWorkers
      <3>3. PICK f \in Event : N!Publish(<<f, jobs'[f]>>)
        BY <3>1, <3>2 DEF Next, PublisherStep, WorkerStep, vars, workVars
      <3>4. j = <<f, jobs'[f]>>
        BY <3>1, <3>3 DEF N!Publish
      <3> QED BY <2>0, <3>4
    <2> QED BY <2>1, <2>2
  <1> QED BY <1>1 DEF OnlyAdded

-----------------------------------------------------------------------------
(* Every email has a cause.                                                *)
LEMMA PublishedAreAdded ==
  ASSUME OP!TypeOK, OnlyAdded, NEW e \in Event
  PROVE  /\ IsFiniteSet({e} \X Copy)
         /\ Cardinality(NP!Published({e} \X Copy)) \in Nat
         /\ Cardinality(NP!Published({e} \X Copy)) <= jobs[e]
PROOF
  <1> DEFINE K == {e} \X Copy
             S == NP!Published(K)
             T == {e} \X (1..jobs[e])
  <1>1. jobs[e] \in Nat /\ Cardinality(Server) + MaxPublishFaults \in Nat
    BY PublisherAssumption, FS_CardinalityType DEF OP!TypeOK
  <1>2. IsFiniteSet({e}) /\ Cardinality({e}) = 1
    BY FS_Singleton
  <1>3. IsFiniteSet(Copy)
    BY <1>1, FS_Interval DEF Copy
  <1>4. IsFiniteSet(1..jobs[e]) /\ Cardinality(1..jobs[e]) = jobs[e]
    <2>1. PICK n \in Nat : n = jobs[e]
      BY <1>1
    <2>2. IsFiniteSet(1..n) /\ Cardinality(1..n) = IF 1 > n THEN 0 ELSE n - 1 + 1
      BY FS_Interval
    <2>3. Cardinality(1..n) = n
      BY <2>2
    <2> QED BY <2>1, <2>2, <2>3
  <1>5. IsFiniteSet(K)
    BY <1>2, <1>3, FS_Product
  <1>6. IsFiniteSet(T) /\ Cardinality(T) = jobs[e]
    <2>1. IsFiniteSet(T) /\ Cardinality(T) = Cardinality({e}) * Cardinality(1..jobs[e])
      BY <1>2, <1>4, FS_Product
    <2> QED BY <1>1, <1>2, <1>4, <2>1
  <1>7. S \subseteq T
    <2>1. ASSUME NEW u \in S PROVE u \in T
      <3>1. u \in K /\ state[u] # "absent"
        BY DEF NP!Published
      <3>2. PICK i \in Copy : u = <<e, i>>
        BY <3>1
      <3>3. i \in 1..jobs[e]
        BY <1>1, <3>1, <3>2 DEF OnlyAdded, Copy
      <3> QED BY <3>2, <3>3
    <2> QED BY <2>1
  <1> HIDE DEF S, T
  <1>8. Cardinality(S) \in Nat /\ Cardinality(S) <= jobs[e]
    BY <1>6, <1>7, FS_Subset, FS_CardinalityType
  <1> QED BY <1>5, <1>8 DEF S

LEMMA MailIsMail ==
  ASSUME NEW e \in Event, NEW m \in Mails(e)
  PROVE  m \in NP!Mail
PROOF
  <1>1. CASE EventName[e] = "TransferCompleted"
    BY <1>1 DEF Mails, N!MailsOf, NP!Mail
  <1>2. CASE EventName[e] = "DepositSucceeded"
    BY <1>2 DEF Mails, N!MailsOf, NP!Mail
  <1> QED BY <1>1, <1>2, NamesAssumption

\* However the retries of the publisher, of the two queues and of the dead
\* letters fall together, and however often workers stop, an email about a row
\* goes out once for each server, each failure and each stop at most: the causes
\* add up and do not multiply.
THEOREM MailsHaveCauseHolds == Spec => []MailsHaveCause
PROOF
  <1> DEFINE IP == OP!TypeOK /\ OP!DuplicatesHaveCause
             IW == NP!TypeOK /\ NP!BoundsOK /\ NP!AllCovered
  <1>1. Init => OnlyAdded
    BY DEF Init, N!Init, OnlyAdded
  <1>2. IP /\ IP' /\ IW /\ OnlyAdded /\ [Next]_vars => OnlyAdded'
    BY OnlyAddedStep
  <1>3. IP /\ IW /\ OnlyAdded => MailsHaveCause
    <2> SUFFICES ASSUME OP!TypeOK, OP!DuplicatesHaveCause, NP!BoundsOK, NP!AllCovered, OnlyAdded,
                        NEW e \in Event, NEW m \in Mails(e)
                 PROVE  Cardinality(Mailed(e, m))
                          <= Cardinality(Server) + publishFaults + workFaults + stops
      BY DEF MailsHaveCause
    <2> DEFINE K == {e} \X Copy
    <2>1. K \in SUBSET (Event \X Copy) /\ m \in NP!Mail
      BY MailIsMail
    <2>2. /\ IsFiniteSet(K) /\ Cardinality(NP!Published(K)) \in Nat
          /\ Cardinality(NP!Published(K)) <= jobs[e]
      BY PublishedAreAdded
    <2>3. Mailed(e, m) = NP!Delivered(tally, K, m)
      BY DEF Mailed, NP!Delivered
    <2> HIDE DEF K
    <2>4. /\ IsFiniteSet(Mailed(e, m))
          /\ Cardinality(Mailed(e, m)) <= Cardinality(NP!Published(K)) + workFaults + stops
      <3>1. NP!IsFiniteSet(K)
        BY <2>2 DEF IsFiniteSet, NP!IsFiniteSet
      <3>2. /\ NP!IsFiniteSet(NP!Delivered(tally, K, m))
            /\ NP!Cardinality(NP!Delivered(tally, K, m))
                 <= NP!Cardinality(NP!Published(K)) + workFaults + stops
        BY <2>1, <3>1, NotificationsAssumptions, NP!MailsAreCovered
      <3> QED BY <2>3, <3>2 DEF IsFiniteSet, NP!IsFiniteSet, Cardinality, NP!Cardinality
    <2>5. jobs[e] <= Cardinality(Server) + publishFaults
      BY DEF OP!DuplicatesHaveCause, OP!Cardinality, Cardinality
    <2>6. /\ jobs[e] \in Nat /\ publishFaults \in Nat /\ workFaults \in Nat /\ stops \in Nat
          /\ Cardinality(Server) \in Nat /\ Cardinality(Mailed(e, m)) \in Nat
      BY <2>4, PublisherAssumption, WorkersAssumption, FS_CardinalityType DEF OP!TypeOK, NP!BoundsOK
    <2> QED BY <2>2, <2>4, <2>5, <2>6
  <1> HIDE DEF IP, IW
  <1>4. Spec => []IP
    BY PublisherHolds DEF IP
  <1>5. Spec => []IW
    BY WorkersHold DEF IW
  <1> QED BY <1>1, <1>2, <1>3, <1>4, <1>5, PTL DEF Spec
=============================================================================
