------------------------- MODULE Notifications_proofs -------------------------
(***************************************************************************)
(* Proofs about the notifications, for any number of jobs, attempts and    *)
(* rounds through the dead-letter queue.                                   *)
(***************************************************************************)
EXTENDS Notifications, FiniteSetTheorems, SequenceTheorems, TLAPS

-----------------------------------------------------------------------------
(* Bags of notifications.                                                  *)
\* Every element of a bag is in it at least once.
Bag(B) == \A n \in DOMAIN B : B[n] \in Nat \ {0}

LEMMA AddedToBag ==
  ASSUME NEW B, Bag(B), NEW m
  PROVE  /\ Bag(B (+) Put(m))
         /\ DOMAIN (B (+) Put(m)) = DOMAIN B \cup {m}
         /\ \A x \in DOMAIN B : x # m => (B (+) Put(m))[x] = B[x]
         /\ m \notin DOMAIN B => (B (+) Put(m))[m] = 1
PROOF
  BY DEF Bag, Put, SetToBag, (+)

LEMMA TakenFromBag ==
  ASSUME NEW B, Bag(B), NEW n \in DOMAIN B, NEW C, C = B (-) Put(n)
  PROVE  /\ Bag(C)
         /\ DOMAIN C = {x \in DOMAIN B : x = n => B[n] > 1}
         /\ \A x \in DOMAIN C : x # n => C[x] = B[x]
PROOF
  BY DEF Bag, Put, SetToBag, (-)

LEMMA NothingAdded ==
  ASSUME NEW B, Bag(B), NEW C, C = B (+) EmptyBag
  PROVE  /\ Bag(C) /\ DOMAIN C = DOMAIN B
         /\ \A x \in DOMAIN B : C[x] = B[x]
PROOF
  BY DEF Bag, EmptyBag, SetToBag, (+)

-----------------------------------------------------------------------------
(* Tallies.                                                                *)
Fields == {"made", "mailed", "refused", "stored", "sent", "givenUp", "lost"}

LEMMA TallyOfFields ==
  ASSUME NEW f, f = [x \in Fields |-> f[x]], \A x \in Fields : f[x] \in Nat
  PROVE  f \in Tally
PROOF
  BY DEF Tally, Fields

LEMMA FieldsOfTally ==
  ASSUME NEW t \in Tally
  PROVE  DOMAIN t = Fields /\ \A x \in Fields : t[x] \in Nat
PROOF
  BY DEF Tally, Fields

LEMMA CountTypes ==
  ASSUME NEW t \in Tally, NEW F
  PROVE  /\ Count(t, F) \in Tally
         /\ \A x \in Fields : Count(t, F)[x] = IF x \in F THEN t[x] + 1 ELSE t[x]
PROOF
  <1> DEFINE c == Count(t, F)
  <1>1. c = [x \in Fields |-> IF x \in F THEN t[x] + 1 ELSE t[x]]
    BY FieldsOfTally DEF Count
  <1>2. c = [x \in Fields |-> c[x]] /\ \A x \in Fields : c[x] \in Nat
    BY <1>1, FieldsOfTally
  <1> HIDE DEF c
  <1>3. c \in Tally
    BY <1>2, TallyOfFields
  <1> QED BY <1>1, <1>3 DEF c

TallyTypes == tally \in [Job -> [Mail -> Tally]]

\* What a step adds to the tallies: one to each field of F, for one email of
\* one job.
Counts(j, m, F) ==
  /\ TallyTypes'
  /\ \A k \in Job, l \in Mail : \A x \in Fields :
       tally'[k][l][x] = IF k = j /\ l = m /\ x \in F THEN tally[k][l][x] + 1 ELSE tally[k][l][x]

LEMMA NotCounted ==
  ASSUME TallyTypes, NEW j, NEW m, tally' = tally
  PROVE  Counts(j, m, {})
PROOF
  BY DEF Counts, TallyTypes

LEMMA Counted ==
  ASSUME TallyTypes, NEW j \in Job, NEW m \in Mail, NEW F,
         tally' = [tally EXCEPT ![j][m] = Count(@, F)]
  PROVE  Counts(j, m, F)
PROOF
  <1>1. tally[j][m] \in Tally
    BY DEF TallyTypes
  <1>2. /\ Count(tally[j][m], F) \in Tally
        /\ \A x \in Fields : Count(tally[j][m], F)[x] =
             IF x \in F THEN tally[j][m][x] + 1 ELSE tally[j][m][x]
    BY <1>1, CountTypes
  <1>3. \A k \in Job, l \in Mail :
          tally'[k][l] = IF k = j /\ l = m THEN Count(tally[j][m], F) ELSE tally[k][l]
    BY DEF TallyTypes
  <1>4. TallyTypes'
    BY <1>2 DEF TallyTypes
  <1> QED BY <1>2, <1>3, <1>4 DEF Counts

-----------------------------------------------------------------------------
(* Short sequences.                                                        *)
Elements(s) == {s[i] : i \in DOMAIN s}

\* A sequence starts with another one that it agrees with.
LEMMA StartsWith ==
  ASSUME NEW S, NEW s \in Seq(S), NEW t \in Seq(S), Len(t) <= Len(s),
         \A i \in 1..Len(t) : s[i] = t[i]
  PROVE  SubSeq(s, 1, Len(t)) = t
PROOF
  <1> DEFINE n == Len(t)
             u == SubSeq(s, 1, n)
  <1>1. n \in Nat /\ \A i \in 1..n : s[i] \in S
    BY ElementOfSeq
  <1> HIDE DEF n
  <1>2. /\ u \in Seq(S)
        /\ Len(u) = IF 1 <= n THEN n - 1 + 1 ELSE 0
        /\ \A i \in 1 .. n - 1 + 1 : u[i] = s[1 + i - 1]
    BY <1>1
  <1> HIDE DEF u
  <1>3. Len(u) = Len(t) /\ \A i \in 1..Len(u) : u[i] = t[i]
    BY <1>1, <1>2 DEF n
  <1>4. u = t
    BY <1>2, <1>3, SeqEqual
  <1> QED BY <1>4 DEF u, n

LEMMA Prefixed ==
  ASSUME NEW S, NEW s \in Seq(S), NEW t \in Seq(S), Len(t) <= Len(s),
         \A i \in 1..Len(t) : s[i] = t[i]
  PROVE  IsPrefix(t, s) /\ IsPrefix(s, s)
PROOF
  <1>1. Len(t) <= Len(t) /\ Len(s) <= Len(s)
    OBVIOUS
  <1>2. SubSeq(s, 1, Len(t)) = t
    BY StartsWith
  <1>3. SubSeq(t, 1, Len(t)) = t
    BY <1>1, StartsWith
  <1>4. SubSeq(s, 1, Len(s)) = s
    BY <1>1, StartsWith
  <1> QED BY <1>1, <1>2, <1>3, <1>4, Zenon DEF IsPrefix

\* The suffixes of a sequence of one and of two elements, what they hold, and
\* what is left of them without their head.
LEMMA OneElement ==
  ASSUME NEW a
  PROVE  /\ IsSuffix(<< >>, <<a>>) /\ IsSuffix(<<a>>, <<a>>)
         /\ Head(<<a>>) = a /\ Tail(<<a>>) = << >>
         /\ Elements(<<a>>) = {a} /\ Elements(<< >>) = {} /\ <<a>> # << >>
PROOF
  <1> DEFINE s == <<a>>
             t == << >>
  <1>1. s \in Seq({a}) /\ t \in Seq({a}) /\ Len(t) <= Len(s) /\ \A i \in 1..Len(t) : s[i] = t[i]
    OBVIOUS
  <1>2. Reverse(s) = s /\ Reverse(t) = t
    BY DEF Reverse
  <1> HIDE DEF s, t
  <1>3. IsPrefix(t, s) /\ IsPrefix(s, s)
    BY <1>1, Prefixed
  <1>4. IsSuffix(t, s) /\ IsSuffix(s, s)
    BY <1>2, <1>3 DEF IsSuffix
  <1> QED BY <1>4 DEF Elements, s, t

LEMMA TwoElements ==
  ASSUME NEW a, NEW b
  PROVE  /\ IsSuffix(<< >>, <<a, b>>) /\ IsSuffix(<<b>>, <<a, b>>) /\ IsSuffix(<<a, b>>, <<a, b>>)
         /\ Head(<<a, b>>) = a /\ Tail(<<a, b>>) = <<b>>
         /\ Elements(<<a, b>>) = {a, b} /\ <<a, b>> # << >>
PROOF
  <1> DEFINE s == <<b, a>>
             t == <<b>>
             e == << >>
  <1>1. /\ s \in Seq({a, b}) /\ t \in Seq({a, b}) /\ e \in Seq({a, b})
        /\ Len(t) <= Len(s) /\ Len(e) <= Len(s)
        /\ \A i \in 1..Len(t) : s[i] = t[i]
        /\ \A i \in 1..Len(e) : s[i] = e[i]
    OBVIOUS
  <1>2. Reverse(<<a, b>>) = s /\ Reverse(t) = t /\ Reverse(e) = e
    BY DEF Reverse
  <1> HIDE DEF s, t, e
  <1>3. IsPrefix(t, s) /\ IsPrefix(s, s)
    BY <1>1, Prefixed
  <1>4. IsPrefix(e, s)
    BY <1>1, Prefixed
  <1>5. IsSuffix(e, <<a, b>>) /\ IsSuffix(t, <<a, b>>) /\ IsSuffix(<<a, b>>, <<a, b>>)
    BY <1>2, <1>3, <1>4 DEF IsSuffix
  <1> QED BY <1>5 DEF Elements, s, t, e

-----------------------------------------------------------------------------
(* The jobs of domain-events.                                              *)
\* What an attempt may have still to add.
Remaining(name) ==
  IF name = "TransferCompleted"
  THEN {<< >>, <<"TransferReceived">>, <<"TransferSent", "TransferReceived">>}
  ELSE {<< >>, <<name>>}

\* A job that is run has an attempt left, and whatever the attempt has not
\* still to add was added, in this one or an earlier one.
JobOK(j) ==
  /\ state[j] \in {"absent", "waiting", "active", "completed", "failed"}
  /\ tried[j] \in 0..ATTEMPTS
  /\ left[j] \in Remaining(NameOf[j])
  /\ state[j] \in {"absent", "waiting", "active"} => tried[j] < ATTEMPTS
  /\ state[j] = "completed" => left[j] = << >>
  /\ state[j] \in {"active", "completed"} =>
       \A m \in Elements(MailsOf(NameOf[j])) \ Elements(left[j]) : tally[j][m].made > 0

JobTypes ==
  /\ state = [j \in Job |-> state[j]]
  /\ tried = [j \in Job |-> tried[j]]
  /\ left = [j \in Job |-> left[j]]

JobsOK == JobTypes /\ \A j \in Job : JobOK(j)

LEMMA RemainingFacts ==
  ASSUME NEW j \in Job
  PROVE  /\ << >> \in Remaining(NameOf[j]) /\ MailsOf(NameOf[j]) \in Remaining(NameOf[j])
         /\ Elements(<< >>) = {}
         /\ \A s \in Remaining(NameOf[j]) :
              /\ IsSuffix(s, MailsOf(NameOf[j]))
              /\ s # << >> =>
                   /\ Head(s) \in Mail
                   /\ Tail(s) \in Remaining(NameOf[j])
                   /\ Elements(s) = Elements(Tail(s)) \cup {Head(s)}
PROOF
  <1>1. CASE NameOf[j] = "TransferCompleted"
    BY <1>1, OneElement, TwoElements DEF Remaining, MailsOf, Mail
  <1>2. CASE NameOf[j] = "DepositSucceeded"
    BY <1>2, OneElement DEF Remaining, MailsOf, Mail
  <1> QED BY <1>1, <1>2, JobAssumption

QueuedTypes == Bag(queued) /\ DOMAIN queued \subseteq Notification

\* Whatever a step does, it adds to the tallies of one email.
LEMMA StepCounts ==
  ASSUME JobsOK, TallyTypes, QueuedTypes, [Next]_vars
  PROVE  \E j, m, F : Counts(j, m, F)
PROOF
  <1>1. CASE tally' = tally
    BY <1>1, NotCounted
  <1>2. ASSUME NEW j \in Job, left[j] # << >>, Add(j)
        PROVE  \E k, m, F : Counts(k, m, F)
    <2>1. Head(left[j]) \in Mail
      BY <1>2, RemainingFacts DEF JobsOK, JobOK
    <2>2. Counts(j, Head(left[j]), {"made"})
      BY <1>2, <2>1, Counted DEF Add
    <2> QED BY <2>2
  <1>3. ASSUME NEW n \in BagToSet(queued), NEW F, Tallied(n, F)
        PROVE  \E k, m, G : Counts(k, m, G)
    <2>1. n.job \in Job /\ n.mail \in Mail
      BY DEF BagToSet, QueuedTypes, Notification
    <2>2. Counts(n.job, n.mail, F)
      BY <1>3, <2>1, Counted DEF Tallied
    <2> QED BY <2>2
  <1> QED
    BY <1>1, <1>2, <1>3 DEF Next, Work, JobStep, MailStep, Publish, Process, AddNotification, Complete,
       AddFails, Stall, Take, Send, SendFails, SendStalls, OnFailed, OnFailedFails, GiveUp, Reprocess,
       ReprocessFails, Fails, ReprocessStalls, ReprocessStallsAgain, SendStallsAgain, vars

LEMMA TallyTypesStep == JobsOK /\ TallyTypes /\ QueuedTypes /\ [Next]_vars => TallyTypes'
PROOF
  BY StepCounts DEF Counts

\* The tallies never fall.
LEMMA TalliesGrow ==
  ASSUME JobsOK, TallyTypes, QueuedTypes, [Next]_vars, NEW j \in Job, NEW m \in Mail, NEW x \in Fields
  PROVE  tally[j][m][x] \in Nat /\ tally'[j][m][x] \in Nat /\ tally'[j][m][x] >= tally[j][m][x]
PROOF
  <1>1. PICK k, l, F : Counts(k, l, F)
    BY StepCounts
  <1>2. tally[j][m][x] \in Nat
    BY FieldsOfTally DEF TallyTypes
  <1>3. tally'[j][m][x] = tally[j][m][x] \/ tally'[j][m][x] = tally[j][m][x] + 1
    BY <1>1 DEF Counts
  <1> QED BY <1>2, <1>3

LEMMA MailsAreMail ==
  ASSUME NEW j \in Job
  PROVE  Elements(MailsOf(NameOf[j])) \subseteq Mail
PROOF
  <1>1. CASE NameOf[j] = "TransferCompleted"
    <2>1. MailsOf(NameOf[j]) = <<"TransferSent", "TransferReceived">>
      BY <1>1 DEF MailsOf
    <2>2. Elements(<<"TransferSent", "TransferReceived">>) = {"TransferSent", "TransferReceived"}
      BY TwoElements, Zenon
    <2> QED BY <2>1, <2>2 DEF Mail
  <1>2. CASE NameOf[j] = "DepositSucceeded"
    BY <1>2, OneElement DEF MailsOf, Mail
  <1> QED BY <1>1, <1>2, JobAssumption

\* A job that a step leaves alone.
LEMMA JobKept ==
  ASSUME JobsOK, TallyTypes, QueuedTypes, [Next]_vars, NEW j \in Job,
         state'[j] = state[j], tried'[j] = tried[j], left'[j] = left[j]
  PROVE  JobOK(j)'
PROOF
  <1>1. \A m \in Mail : tally[j][m].made > 0 => tally'[j][m].made > 0
    BY TalliesGrow DEF Fields
  <1>2. JobOK(j)
    BY DEF JobsOK
  <1> QED BY <1>1, <1>2, MailsAreMail DEF JobOK

LEMMA JobStays ==
  ASSUME JobsOK, TallyTypes, QueuedTypes, [Next]_vars, NEW j \in Job,
         \/ Publish(j) \/ JobStep(j) \/ AddFails(j) \/ Stall(j)
  PROVE  JobOK(j)'
PROOF
  <1>0. JobOK(j) /\ JobTypes
    BY DEF JobsOK
  <1>1. \A m \in Elements(MailsOf(NameOf[j])) : tally[j][m].made > 0 => tally'[j][m].made > 0
    BY TalliesGrow, MailsAreMail DEF Fields
  <1>2. CASE Publish(j)
    BY <1>0, <1>2 DEF Publish, JobOK, JobTypes
  <1>3. CASE Process(j)
    <2>1. left'[j] = MailsOf(NameOf[j]) /\ state'[j] = "active" /\ tried' = tried
      BY <1>0, <1>3 DEF Process, JobTypes
    <2> QED BY <1>0, <1>3, <2>1, RemainingFacts DEF Process, JobOK
  <1>4. CASE AddNotification(j)
    <2> DEFINE h == Head(left[j])
    <2>1. /\ left'[j] = Tail(left[j]) /\ state' = state /\ tried' = tried
          /\ state[j] = "active" /\ left[j] # << >> /\ Add(j)
      BY <1>0, <1>4 DEF AddNotification, JobTypes
    <2>2. /\ h \in Mail /\ Tail(left[j]) \in Remaining(NameOf[j])
          /\ Elements(left[j]) = Elements(Tail(left[j])) \cup {h}
      BY <1>0, <2>1, RemainingFacts DEF JobOK
    <2>3. tally'[j][h].made > 0
      <3>1. Counts(j, h, {"made"})
        BY <2>1, <2>2, Counted DEF Add
      <3>2. tally[j][h].made \in Nat /\ tally'[j][h].made = tally[j][h].made + 1
        BY <2>2, <3>1, FieldsOfTally DEF Counts, Fields, TallyTypes
      <3> QED BY <3>2
    <2> QED BY <1>0, <1>1, <2>1, <2>2, <2>3 DEF JobOK
  <1>5. CASE Complete(j)
    BY <1>0, <1>1, <1>5 DEF Complete, JobOK, JobTypes
  <1>6. CASE AddFails(j)
    <2>1. /\ left'[j] = << >> /\ tried'[j] = tried[j] + 1 /\ state[j] = "active"
          /\ state'[j] = IF tried[j] + 1 < ATTEMPTS THEN "waiting" ELSE "failed"
      BY <1>0, <1>6 DEF AddFails, Retries, JobTypes
    <2>2. tried[j] \in Nat /\ tried[j] < ATTEMPTS /\ ATTEMPTS \in Nat
      BY <1>0, <2>1, LimitsAssumption DEF JobOK
    <2>3. tried'[j] \in 0..ATTEMPTS
      BY <2>1, <2>2
    <2>4. state'[j] = "waiting" => tried'[j] < ATTEMPTS
      BY <2>1
    <2> QED BY <2>1, <2>3, <2>4, RemainingFacts DEF JobOK
  <1>7. CASE Stall(j)
    <2>1. /\ left'[j] = << >> /\ state'[j] \in {"waiting", "failed"} /\ tried' = tried
          /\ state[j] = "active"
      BY <1>0, <1>7 DEF Stall, JobTypes
    <2> QED BY <1>0, <2>1, RemainingFacts DEF JobOK
  <1> QED BY <1>2, <1>3, <1>4, <1>5, <1>6, <1>7 DEF JobStep

LEMMA JobsStep == JobsOK /\ TallyTypes /\ QueuedTypes /\ [Next]_vars => JobsOK'
PROOF
  <1> SUFFICES ASSUME JobsOK, TallyTypes, QueuedTypes, [Next]_vars PROVE JobsOK'
    OBVIOUS
  <1>1. ASSUME NEW j \in Job, Publish(j) \/ JobStep(j) \/ AddFails(j) \/ Stall(j)
        PROVE  JobsOK'
    <2>1. \A k \in Job : k # j => state'[k] = state[k] /\ tried'[k] = tried[k] /\ left'[k] = left[k]
      BY <1>1 DEF Publish, JobStep, Process, AddNotification, Complete, AddFails, Retries, Stall, JobsOK,
         JobTypes
    <2>2. JobTypes'
      BY <1>1 DEF Publish, JobStep, Process, AddNotification, Complete, AddFails, Retries, Stall, JobsOK,
         JobTypes
    <2>3. \A k \in Job : JobOK(k)'
      BY <1>1, <2>1, JobKept, JobStays
    <2> QED BY <2>2, <2>3 DEF JobsOK
  <1>2. CASE UNCHANGED <<state, tried, left>>
    <2>1. JobTypes'
      BY <1>2 DEF JobsOK, JobTypes
    <2>2. \A k \in Job : JobOK(k)'
      BY <1>2, JobKept
    <2> QED BY <2>1, <2>2 DEF JobsOK
  <1> QED BY <1>1, <1>2 DEF Next, Work, MailStep, Take, Send, SendFails, SendStalls, OnFailed,
             SendStallsAgain, OnFailedFails, GiveUp, Reprocess, ReprocessFails, ReprocessStalls,
             ReprocessStallsAgain, vars

-----------------------------------------------------------------------------
(* The notifications.                                                      *)
\* The attempts a notification is made for so far, over all its rounds.
Rounds(n) == ATTEMPTS * n.dlqCount + n.attempts

StageOK(n) == n.attempts < ATTEMPTS <=> n.stage \in {"waiting", "active"}

\* A notification has attempts left while it is waiting or being sent, and the
\* tally has counted it and its attempts.
Notified(n) ==
  /\ StageOK(n)
  /\ n.dlqCount <= MAX_DLQ_REPROCESS
  /\ tally[n.job][n.mail].made > 0
  /\ tally[n.job][n.mail].refused >= Rounds(n)

\* As long as an email was made into one notification only, that is where it
\* is, and every refusal was an attempt of it.
Single(n) ==
  tally[n.job][n.mail].made = 1 =>
    /\ queued[n] = 1
    /\ tally[n.job][n.mail].refused = Rounds(n)
    /\ \A p \in DOMAIN queued : p.job = n.job /\ p.mail = n.mail => p = n

MailsOK == \A n \in DOMAIN queued : Notified(n) /\ Single(n)

\* What the tallies say on their own.
Ended(j, m) ==
  /\ tally[j][m].made = 0 => tally[j][m].refused = 0
  /\ tally[j][m].givenUp > 0 => tally[j][m].refused >= ATTEMPTS * (MAX_DLQ_REPROCESS + 1)

EndsOK == \A j \in Job, m \in Mail : Ended(j, m)

LEMMA RoundsAreNat ==
  ASSUME NEW n \in Notification
  PROVE  Rounds(n) \in Nat /\ n.attempts \in Nat /\ n.dlqCount \in Nat
PROOF
  <1>1. ATTEMPTS \in Nat /\ n.attempts \in Nat /\ n.dlqCount \in Nat
    BY LimitsAssumption DEF Notification
  <1>2. ATTEMPTS * n.dlqCount \in Nat
    BY <1>1
  <1> QED BY <1>1, <1>2 DEF Rounds

\* Going round again takes no attempt, and the last round ends with them all.
LEMMA NextRounds ==
  ASSUME NEW n \in Notification, n.attempts = ATTEMPTS
  PROVE  /\ Again(n) \in Notification
         /\ Rounds(Again(n)) = Rounds(n)
         /\ n.dlqCount >= MAX_DLQ_REPROCESS => Rounds(n) >= ATTEMPTS * (MAX_DLQ_REPROCESS + 1)
PROOF
  <1> DEFINE d == n.dlqCount
  <1>1. ATTEMPTS \in Nat \ {0} /\ MAX_DLQ_REPROCESS \in Nat /\ d \in Nat
    BY LimitsAssumption DEF Notification
  <1>2. Again(n) = [job |-> n.job, mail |-> n.mail, attempts |-> 0, dlqCount |-> d + 1,
                    stalled |-> FALSE, stage |-> "waiting"]
    BY DEF Again, Fresh, NextRound
  <1>3. Again(n) \in Notification
    BY <1>1, <1>2 DEF Notification
  <1>4. ATTEMPTS * (d + 1) + 0 = ATTEMPTS * d + ATTEMPTS
    BY <1>1
  <1>5. ASSUME d >= MAX_DLQ_REPROCESS
        PROVE  ATTEMPTS * d + ATTEMPTS >= ATTEMPTS * (MAX_DLQ_REPROCESS + 1)
    <2>1. PICK k \in Nat : d = MAX_DLQ_REPROCESS + k
      BY <1>1, <1>5
    <2>2. ATTEMPTS * d = ATTEMPTS * MAX_DLQ_REPROCESS + ATTEMPTS * k /\ ATTEMPTS * k \in Nat
      BY <1>1, <2>1
    <2>3. ATTEMPTS * (MAX_DLQ_REPROCESS + 1) = ATTEMPTS * MAX_DLQ_REPROCESS + ATTEMPTS
      BY <1>1
    <2> QED BY <1>1, <2>2, <2>3
  <1> QED BY <1>2, <1>3, <1>4, <1>5 DEF Rounds

\* One copy of n is taken out of the queues, and S put in.
Exchange(n, S) ==
  /\ Bag(queued')
  /\ S \subseteq DOMAIN queued'
  /\ \A x \in DOMAIN queued' \ S :
       /\ x \in DOMAIN queued
       /\ x = n => queued[n] > 1
       /\ x # n => queued'[x] = queued[x]
  /\ \A x \in S \ DOMAIN queued : queued'[x] = 1

LEMMA LeavesExchanges ==
  ASSUME Bag(queued), NEW n \in DOMAIN queued, Leaves(n)
  PROVE  Exchange(n, {})
PROOF
  <1>1. queued' = queued (-) Put(n)
    BY DEF Leaves
  <1>2. /\ Bag(queued')
        /\ DOMAIN queued' = {x \in DOMAIN queued : x = n => queued[n] > 1}
        /\ \A x \in DOMAIN queued' : x # n => queued'[x] = queued[x]
    BY <1>1, TakenFromBag
  <1> QED BY <1>2 DEF Exchange

LEMMA BecomesExchanges ==
  ASSUME Bag(queued), NEW n \in DOMAIN queued, NEW m, m # n, Becomes(n, m)
  PROVE  Exchange(n, {m})
PROOF
  <1> DEFINE B == queued (-) Put(n)
  <1>1. /\ Bag(B)
        /\ DOMAIN B = {x \in DOMAIN queued : x = n => queued[n] > 1}
        /\ \A x \in DOMAIN B : x # n => B[x] = queued[x]
    BY TakenFromBag
  <1>2. queued' = B (+) Put(m)
    BY DEF Becomes
  <1> HIDE DEF B
  <1>3. /\ Bag(queued')
        /\ DOMAIN queued' = DOMAIN B \cup {m}
        /\ \A x \in DOMAIN B : x # m => queued'[x] = B[x]
        /\ m \notin DOMAIN B => queued'[m] = 1
    BY <1>1, <1>2, AddedToBag
  <1> QED BY <1>1, <1>3 DEF Exchange

LEMMA FailingExchanges ==
  ASSUME QueuedTypes, NEW n \in DOMAIN queued, n.attempts < ATTEMPTS, FailsAttempt(n)
  PROVE  \E m \in Notification :
           /\ m # n /\ m.job = n.job /\ m.mail = n.mail
           /\ m.attempts = n.attempts + 1 /\ m.dlqCount = n.dlqCount /\ StageOK(m)
           /\ Exchange(n, {m})
PROOF
  <1> DEFINE a == [n EXCEPT !.attempts = @ + 1]
             B == queued (-) Put(n)
  <1>0. n \in Notification /\ Bag(queued)
    BY DEF QueuedTypes
  <1>1. /\ Bag(B)
        /\ DOMAIN B = {x \in DOMAIN queued : x = n => queued[n] > 1}
        /\ \A x \in DOMAIN B : x # n => B[x] = queued[x]
    BY <1>0, TakenFromBag
  <1>2. /\ a.attempts = n.attempts + 1 /\ a.attempts \in 0..ATTEMPTS
        /\ ATTEMPTS \in Nat /\ n.attempts \in Nat
    BY <1>0, LimitsAssumption DEF Notification
  <1>3. CASE a.attempts < ATTEMPTS
    <2> DEFINE m == [a EXCEPT !.stage = "waiting"]
               C == B (+) Put(m)
    <2>1. /\ m \in Notification /\ m.job = n.job /\ m.mail = n.mail
          /\ m.attempts = n.attempts + 1 /\ m.dlqCount = n.dlqCount /\ m.stage = "waiting"
      BY <1>0, <1>2 DEF Notification
    <2>2. queued' = C (+) EmptyBag
      BY <1>2, <1>3 DEF FailsAttempt, Exhausted
    <2> HIDE DEF B, m
    <2>3. /\ Bag(C)
          /\ DOMAIN C = DOMAIN B \cup {m}
          /\ \A x \in DOMAIN B : x # m => C[x] = B[x]
          /\ m \notin DOMAIN B => C[m] = 1
      BY <1>1, AddedToBag
    <2> HIDE DEF C
    <2>4. /\ Bag(queued') /\ DOMAIN queued' = DOMAIN C
          /\ \A x \in DOMAIN C : queued'[x] = C[x]
      BY <2>2, <2>3, NothingAdded
    <2>5. Exchange(n, {m})
      BY <1>1, <2>3, <2>4 DEF Exchange
    <2>6. m # n /\ StageOK(m)
      BY <1>2, <1>3, <2>1 DEF StageOK
    <2> QED BY <2>1, <2>5, <2>6
  <1>4. CASE a.attempts >= ATTEMPTS
    <2> DEFINE m == [a EXCEPT !.stage = "exhausted"]
               C == B (+) EmptyBag
    <2>1. /\ m \in Notification /\ m.job = n.job /\ m.mail = n.mail
          /\ m.attempts = n.attempts + 1 /\ m.dlqCount = n.dlqCount /\ m.stage = "exhausted"
      BY <1>0, <1>2 DEF Notification
    <2>2. queued' = C (+) Put(m)
      BY <1>2, <1>4 DEF FailsAttempt, Exhausted
    <2> HIDE DEF B, m
    <2>3. Bag(C) /\ DOMAIN C = DOMAIN B /\ \A x \in DOMAIN B : C[x] = B[x]
      BY <1>1, NothingAdded
    <2> HIDE DEF C
    <2>4. /\ Bag(queued')
          /\ DOMAIN queued' = DOMAIN C \cup {m}
          /\ \A x \in DOMAIN C : x # m => queued'[x] = C[x]
          /\ m \notin DOMAIN C => queued'[m] = 1
      BY <2>2, <2>3, AddedToBag
    <2>5. Exchange(n, {m})
      BY <1>1, <2>3, <2>4 DEF Exchange
    <2>6. m # n /\ StageOK(m)
      BY <1>2, <1>4, <2>1 DEF StageOK
    <2> QED BY <2>1, <2>5, <2>6
  <1>5. a.attempts < ATTEMPTS \/ a.attempts >= ATTEMPTS
    BY <1>2
  <1> HIDE DEF a
  <1> QED BY <1>3, <1>4, <1>5

-----------------------------------------------------------------------------
(* What becomes of a notification.                                         *)
\* m is what n becomes, after d more attempts.
Successor(n, m, d) ==
  /\ m \in Notification /\ m # n /\ m.job = n.job /\ m.mail = n.mail
  /\ StageOK(m) /\ m.dlqCount <= MAX_DLQ_REPROCESS
  /\ Rounds(m) = Rounds(n) + d

\* Every step with a notification but one moves it on or ends it.
MovesOn(n) ==
  \E S, F :
    /\ Exchange(n, S)
    /\ \A m, p \in S : m = p
    /\ Counts(n.job, n.mail, F)
    /\ "made" \notin F
    /\ \A m \in S : Successor(n, m, IF "refused" \in F THEN 1 ELSE 0)
    /\ "givenUp" \in F => Rounds(n) >= ATTEMPTS * (MAX_DLQ_REPROCESS + 1)

\* A notification is made, for which all the attempts were counted before.
Joins(m) ==
  /\ queued' = queued (+) Put(m)
  /\ Counts(m.job, m.mail, {"made"})
  /\ m \in Notification /\ StageOK(m) /\ m.dlqCount <= MAX_DLQ_REPROCESS
  /\ tally[m.job][m.mail].refused >= Rounds(m)
  /\ tally[m.job][m.mail].made = 0 => Rounds(m) = 0

LEMMA StageMoves ==
  ASSUME QueuedTypes, TallyTypes, NEW n \in DOMAIN queued, Notified(n),
         NEW m \in Notification, m # n, m.job = n.job, m.mail = n.mail, m.attempts = n.attempts,
         m.dlqCount = n.dlqCount,
         m.stage \in {"waiting", "active"} <=> n.stage \in {"waiting", "active"},
         Becomes(n, m),
         NEW F, F \cap {"made", "refused", "givenUp"} = {}, Counts(n.job, n.mail, F)
  PROVE  MovesOn(n)
PROOF
  <1>0. n \in Notification /\ Bag(queued)
    BY DEF QueuedTypes
  <1>1. StageOK(m)
    BY DEF Notified, StageOK
  <1>2. Rounds(m) = Rounds(n) + 0
    BY <1>0, RoundsAreNat DEF Rounds
  <1>3. Exchange(n, {m})
    BY <1>0, BecomesExchanges
  <1>4. Successor(n, m, 0)
    BY <1>1, <1>2 DEF Successor, Notified
  <1> QED BY <1>3, <1>4 DEF MovesOn

LEMMA EndMoves ==
  ASSUME QueuedTypes, NEW n \in DOMAIN queued, Leaves(n),
         NEW F, "made" \notin F, Counts(n.job, n.mail, F),
         "givenUp" \in F => Rounds(n) >= ATTEMPTS * (MAX_DLQ_REPROCESS + 1)
  PROVE  MovesOn(n)
PROOF
  <1>1. Exchange(n, {})
    BY LeavesExchanges DEF QueuedTypes
  <1> QED BY <1>1 DEF MovesOn

LEMMA RoundMoves ==
  ASSUME QueuedTypes, TallyTypes, NEW n \in DOMAIN queued, Notified(n), n.stage = "dead",
         ~GivesUp(n), Becomes(n, Again(n)), tally' = tally
  PROVE  MovesOn(n)
PROOF
  <1>0. n \in Notification /\ Bag(queued)
    BY DEF QueuedTypes
  <1>1. n.attempts = ATTEMPTS
    BY <1>0, LimitsAssumption DEF Notified, StageOK, Notification
  <1> DEFINE m == Again(n)
  <1>2. m \in Notification /\ Rounds(m) = Rounds(n) + 0
    BY <1>0, <1>1, NextRounds, RoundsAreNat
  <1>3. /\ m.job = n.job /\ m.mail = n.mail /\ m.attempts = 0 /\ m.dlqCount = n.dlqCount + 1
        /\ m.stage = "waiting"
    BY DEF Again, Fresh, NextRound
  <1>4. m.dlqCount <= MAX_DLQ_REPROCESS
    BY <1>0, <1>3, LimitsAssumption DEF GivesUp, Notification
  <1> HIDE DEF m
  <1>5. StageOK(m) /\ m # n
    BY <1>3, LimitsAssumption DEF StageOK
  <1>6. Exchange(n, {m})
    BY <1>0, <1>5, BecomesExchanges DEF m
  <1>7. Successor(n, m, 0)
    BY <1>2, <1>3, <1>4, <1>5 DEF Successor
  <1>8. Counts(n.job, n.mail, {})
    BY NotCounted
  <1> QED BY <1>6, <1>7, <1>8 DEF MovesOn

LEMMA FailureMoves ==
  ASSUME QueuedTypes, NEW n \in DOMAIN queued, Notified(n), n.stage = "active", FailsAttempt(n),
         NEW F, F \cap {"made", "refused", "givenUp"} = {"refused"}, Counts(n.job, n.mail, F)
  PROVE  MovesOn(n)
PROOF
  <1>0. n \in Notification /\ n.attempts < ATTEMPTS
    BY DEF QueuedTypes, Notified, StageOK
  <1>1. PICK m \in Notification :
          /\ m # n /\ m.job = n.job /\ m.mail = n.mail
          /\ m.attempts = n.attempts + 1 /\ m.dlqCount = n.dlqCount /\ StageOK(m)
          /\ Exchange(n, {m})
    BY <1>0, FailingExchanges
  <1>2. Rounds(m) = Rounds(n) + 1
    <2>1. ATTEMPTS * n.dlqCount \in Nat /\ n.attempts \in Nat
      BY <1>0, LimitsAssumption DEF Notification
    <2> QED BY <1>1, <2>1 DEF Rounds
  <1>3. Successor(n, m, 1)
    BY <1>1, <1>2 DEF Successor, Notified
  <1> QED BY <1>1, <1>3 DEF MovesOn

\* The failure that BullMQ counts as the last attempt.
LEMMA LastAttemptMoves ==
  ASSUME QueuedTypes, NEW n \in DOMAIN queued, Notified(n), n.stage = "active",
         NEW counted \in {0, 1}, NEW m,
         m = [n EXCEPT !.attempts = @ + counted, !.stage = "exhausted"], Exhausted(m), Becomes(n, m),
         NEW F, F \cap {"made", "refused", "givenUp"} = {"refused"}, Counts(n.job, n.mail, F)
  PROVE  MovesOn(n)
PROOF
  <1>0. /\ n \in Notification /\ Bag(queued) /\ n.attempts < ATTEMPTS
        /\ ATTEMPTS \in Nat /\ n.attempts \in Nat
    BY LimitsAssumption DEF QueuedTypes, Notified, StageOK, Notification
  <1>1. m.attempts = n.attempts + counted /\ m.attempts >= ATTEMPTS
    BY <1>0 DEF Exhausted, Notification
  <1>2. counted = 1 /\ m.attempts = n.attempts + 1 /\ m.attempts = ATTEMPTS
    BY <1>0, <1>1
  <1>3. /\ m \in Notification /\ m.job = n.job /\ m.mail = n.mail /\ m.dlqCount = n.dlqCount
        /\ m.stage = "exhausted" /\ m # n
    <2>1. m = [n EXCEPT !.attempts = ATTEMPTS, !.stage = "exhausted"]
      BY <1>0, <1>2 DEF Notification
    <2>2. ATTEMPTS \in 0..ATTEMPTS
      BY <1>0
    <2> QED BY <1>0, <2>1, <2>2 DEF Notification
  <1>4. StageOK(m) /\ Exchange(n, {m})
    BY <1>0, <1>2, <1>3, BecomesExchanges DEF StageOK
  <1>5. Rounds(m) = Rounds(n) + 1
    <2>1. ATTEMPTS * n.dlqCount \in Nat
      BY <1>0 DEF Notification
    <2> QED BY <1>0, <1>2, <1>3, <2>1 DEF Rounds
  <1>6. Successor(n, m, 1)
    BY <1>3, <1>4, <1>5 DEF Successor, Notified
  <1> QED BY <1>4, <1>6 DEF MovesOn

\* Every step with a notification is one of these.
LEMMA MailSteps ==
  ASSUME QueuedTypes, TallyTypes, MailsOK, NEW n \in BagToSet(queued),
         \/ MailStep(n) \/ SendFails(n) \/ SendStalls(n) \/ SendStallsAgain(n)
         \/ OnFailedFails(n) \/ ReprocessFails(n) \/ ReprocessStallsAgain(n)
         \/ ReprocessStalls(n) /\ tally' = tally
  PROVE  MovesOn(n)
PROOF
  <1>0. /\ n \in DOMAIN queued /\ n \in Notification /\ Notified(n) /\ n.job \in Job /\ n.mail \in Mail
        /\ \A stage : n \in In(stage) => n.stage = stage
    BY DEF QueuedTypes, MailsOK, BagToSet, In, Notification
  <1>1. \A F : Tallied(n, F) => Counts(n.job, n.mail, F)
    BY <1>0, Counted DEF Tallied
  <1>2. tally' = tally => Counts(n.job, n.mail, {})
    BY NotCounted
  <1>3. CASE Take(n)
    <2>1. PICK m : m = [n EXCEPT !.stage = "active"]
      OBVIOUS
    <2>2. /\ m \in Notification /\ m.job = n.job /\ m.mail = n.mail /\ m.attempts = n.attempts
          /\ m.dlqCount = n.dlqCount /\ m.stage = "active"
      BY <1>0, <2>1 DEF Notification
    <2>3. n.stage = "waiting" /\ Becomes(n, m) /\ tally' = tally
      BY <1>0, <1>3, <2>1 DEF Take
    <2> QED BY <1>0, <1>2, <2>2, <2>3, StageMoves
  <1>4. CASE Send(n)
    BY <1>0, <1>1, <1>4, EndMoves DEF Send
  <1>5. CASE OnFailed(n)
    <2>1. PICK m : m = [n EXCEPT !.stage = "dead", !.stalled = FALSE]
      OBVIOUS
    <2>2. /\ m \in Notification /\ m.job = n.job /\ m.mail = n.mail /\ m.attempts = n.attempts
          /\ m.dlqCount = n.dlqCount /\ m.stage = "dead"
      BY <1>0, <2>1 DEF Notification
    <2>3. n.stage = "exhausted" /\ Becomes(n, m) /\ Counts(n.job, n.mail, {"stored"})
      BY <1>0, <1>1, <1>5, <2>1 DEF OnFailed
    <2> QED BY <1>0, <2>2, <2>3, StageMoves
  <1>6. CASE Reprocess(n)
    BY <1>0, <1>6, RoundMoves DEF Reprocess
  <1>7. GivesUp(n) /\ n.stage = "dead" => Rounds(n) >= ATTEMPTS * (MAX_DLQ_REPROCESS + 1)
    <2> SUFFICES ASSUME GivesUp(n), n.stage = "dead"
                 PROVE  Rounds(n) >= ATTEMPTS * (MAX_DLQ_REPROCESS + 1)
      OBVIOUS
    <2>1. n.attempts = ATTEMPTS /\ n.dlqCount >= MAX_DLQ_REPROCESS
      BY <1>0, LimitsAssumption DEF GivesUp, Notified, StageOK, Notification
    <2> QED BY <1>0, <2>1, NextRounds
  <1>8. CASE GiveUp(n)
    BY <1>0, <1>1, <1>7, <1>8, EndMoves DEF GiveUp
  <1>9. CASE SendFails(n)
    BY <1>0, <1>1, <1>9, FailureMoves DEF SendFails
  <1>10. CASE SendStalls(n)
    <2>1. PICK m : m = [n EXCEPT !.stage = "waiting", !.stalled = TRUE]
      OBVIOUS
    <2>2. /\ m \in Notification /\ m.job = n.job /\ m.mail = n.mail /\ m.attempts = n.attempts
          /\ m.dlqCount = n.dlqCount /\ m.stage = "waiting"
      BY <1>0, <2>1 DEF Notification
    <2>3. n.stage = "active" /\ Becomes(n, m)
      BY <1>0, <1>10, <2>1 DEF SendStalls
    <2>4. Counts(n.job, n.mail, {}) \/ Counts(n.job, n.mail, {"mailed"})
      BY <1>1, <1>2, <1>10 DEF SendStalls
    <2> QED BY <1>0, <2>2, <2>3, <2>4, StageMoves
  <1>11. CASE SendStallsAgain(n)
    <2>1. PICK counted \in {0, 1}, sent \in {{}, {"mailed"}} :
            \E m : /\ m = [n EXCEPT !.attempts = @ + counted, !.stage = "exhausted"]
                   /\ \/ Exhausted(m) /\ Becomes(n, m) /\ Tallied(n, {"refused"} \cup sent)
                      \/ ~Exhausted(m) /\ Leaves(n) /\ Tallied(n, {"lost"} \cup sent)
      BY <1>11 DEF SendStallsAgain
    <2>2. PICK m :
            /\ m = [n EXCEPT !.attempts = @ + counted, !.stage = "exhausted"]
            /\ \/ Exhausted(m) /\ Becomes(n, m) /\ Tallied(n, {"refused"} \cup sent)
               \/ ~Exhausted(m) /\ Leaves(n) /\ Tallied(n, {"lost"} \cup sent)
      BY <2>1
    <2>3. /\ n.stage = "active" /\ counted \in {0, 1}
          /\ m = [n EXCEPT !.attempts = @ + counted, !.stage = "exhausted"]
      BY <1>0, <1>11, <2>1, <2>2 DEF SendStallsAgain
    <2>4. CASE Exhausted(m) /\ Becomes(n, m) /\ Tallied(n, {"refused"} \cup sent)
      <3>1. PICK F : F = {"refused"} \cup sent
        OBVIOUS
      <3>2. F \cap {"made", "refused", "givenUp"} = {"refused"} /\ Counts(n.job, n.mail, F)
        BY <1>1, <2>4, <3>1
      <3> QED BY <1>0, <2>3, <2>4, <3>2, LastAttemptMoves, ZenonT(30)
    <2>5. CASE Leaves(n) /\ Tallied(n, {"lost"} \cup sent)
      <3>1. PICK F : F = {"lost"} \cup sent
        OBVIOUS
      <3>2. "made" \notin F /\ "givenUp" \notin F /\ Counts(n.job, n.mail, F)
        BY <1>1, <2>5, <3>1
      <3> QED BY <1>0, <2>5, <3>2, EndMoves
    <2> QED BY <2>2, <2>4, <2>5
  <1>12. CASE OnFailedFails(n)
    BY <1>0, <1>1, <1>12, EndMoves DEF OnFailedFails
  <1>13. n.stage = "dead" /\ ~GivesUp(n) /\ Fails(n) => MovesOn(n)
    BY <1>0, <1>1, EndMoves, RoundMoves DEF Fails
  <1>14. CASE ReprocessFails(n)
    BY <1>0, <1>13, <1>14 DEF ReprocessFails
  <1>15. CASE ReprocessStallsAgain(n)
    <2>1. /\ n.stage = "dead"
          /\ IF GivesUp(n) THEN Leaves(n) /\ Tallied(n, {"givenUp"}) ELSE Fails(n)
      BY <1>0, <1>15 DEF ReprocessStallsAgain
    <2> QED BY <1>0, <1>1, <1>7, <1>13, <2>1, EndMoves
  <1>16. CASE ReprocessStalls(n) /\ tally' = tally
    <2>1. PICK m : m = [n EXCEPT !.stalled = TRUE]
      OBVIOUS
    <2>2. /\ m \in Notification /\ m.job = n.job /\ m.mail = n.mail /\ m.attempts = n.attempts
          /\ m.dlqCount = n.dlqCount /\ m.stage = n.stage /\ m.stalled
      BY <1>0, <2>1 DEF Notification
    <2>3. ~n.stalled
      BY <1>16 DEF ReprocessStalls
    <2>4. ~Tallied(n, {"made"})
      BY <1>0, <1>1, <1>16, FieldsOfTally DEF Counts, Fields, TallyTypes
    <2>5. Becomes(n, m)
      BY <1>16, <2>1, <2>4 DEF ReprocessStalls
    <2> QED BY <1>0, <1>2, <1>16, <2>2, <2>3, <2>5, StageMoves
  <1> QED BY <1>3, <1>4, <1>5, <1>6, <1>8, <1>9, <1>10, <1>11, <1>12, <1>14, <1>15, <1>16 DEF MailStep

Parts == QueuedTypes /\ MailsOK /\ EndsOK

LEMMA MovePreserves ==
  ASSUME TallyTypes, Parts, NEW n \in DOMAIN queued, MovesOn(n)
  PROVE  Parts'
PROOF
  <1>0. /\ n \in Notification /\ Notified(n) /\ Single(n) /\ n.job \in Job /\ n.mail \in Mail
        /\ Rounds(n) \in Nat
    BY RoundsAreNat DEF Parts, QueuedTypes, MailsOK, Notification
  <1>1. PICK S, F :
          /\ Exchange(n, S)
          /\ \A m, p \in S : m = p
          /\ Counts(n.job, n.mail, F)
          /\ "made" \notin F
          /\ \A m \in S : Successor(n, m, IF "refused" \in F THEN 1 ELSE 0)
          /\ "givenUp" \in F => Rounds(n) >= ATTEMPTS * (MAX_DLQ_REPROCESS + 1)
    BY DEF MovesOn
  <1> DEFINE d == IF "refused" \in F THEN 1 ELSE 0
  <1>2. /\ d \in {0, 1}
        /\ \A j \in Job, m \in Mail :
             /\ tally[j][m].made \in Nat /\ tally[j][m].refused \in Nat /\ tally[j][m].givenUp \in Nat
             /\ tally'[j][m].made = tally[j][m].made
             /\ tally'[j][m].refused =
                  IF j = n.job /\ m = n.mail THEN tally[j][m].refused + d ELSE tally[j][m].refused
             /\ tally'[j][m].givenUp # tally[j][m].givenUp =>
                  j = n.job /\ m = n.mail /\ "givenUp" \in F
    <2>1. \A j \in Job, m \in Mail :
            /\ tally[j][m].made \in Nat /\ tally[j][m].refused \in Nat /\ tally[j][m].givenUp \in Nat
      BY FieldsOfTally DEF TallyTypes, Fields
    <2> QED BY <1>1, <2>1 DEF Counts, Fields
  <1> HIDE DEF d
  <1>3. \A m \in S : Successor(n, m, d)
    BY <1>1 DEF d
  <1>4. QueuedTypes'
    BY <1>1, <1>3 DEF Exchange, Successor, Parts, QueuedTypes
  <1>5. ASSUME NEW x \in DOMAIN queued'
        PROVE  Notified(x)' /\ Single(x)'
    <2>1. CASE x \in S
      <3>1. /\ x \in Notification /\ x # n /\ x.job = n.job /\ x.mail = n.mail
            /\ StageOK(x) /\ x.dlqCount <= MAX_DLQ_REPROCESS
            /\ Rounds(x) = Rounds(n) + d
        BY <1>3, <2>1 DEF Successor
      <3>2. Notified(x)'
        BY <1>0, <1>2, <3>1 DEF Notified, Rounds, StageOK
      <3>3. ASSUME tally'[x.job][x.mail].made = 1
            PROVE  /\ queued'[x] = 1
                   /\ tally'[x.job][x.mail].refused = Rounds(x)
                   /\ \A p \in DOMAIN queued' : p.job = x.job /\ p.mail = x.mail => p = x
        <4>1. /\ queued[n] = 1
              /\ tally[n.job][n.mail].refused = Rounds(n)
              /\ \A p \in DOMAIN queued : p.job = n.job /\ p.mail = n.mail => p = n
          BY <1>0, <1>2, <3>1, <3>3 DEF Single
        <4>2. queued'[x] = 1
          BY <1>1, <2>1, <3>1, <4>1 DEF Exchange
        <4>3. tally'[x.job][x.mail].refused = Rounds(x)
          BY <1>0, <1>2, <3>1, <4>1
        <4>4. ASSUME NEW p \in DOMAIN queued', p.job = x.job, p.mail = x.mail
              PROVE  p = x
          <5>1. p \in S
            BY <1>1, <3>1, <4>1, <4>4 DEF Exchange
          <5> QED BY <1>1, <2>1, <5>1
        <4> QED BY <4>2, <4>3, <4>4
      <3> QED BY <3>2, <3>3 DEF Single, Rounds
    <2>2. CASE x \notin S
      <3>1. /\ x \in DOMAIN queued /\ x \in Notification /\ Notified(x) /\ Single(x)
            /\ x.job \in Job /\ x.mail \in Mail /\ Rounds(x) \in Nat
            /\ x = n => queued[n] > 1
            /\ x # n => queued'[x] = queued[x]
        BY <1>1, <2>2, RoundsAreNat DEF Exchange, Parts, QueuedTypes, MailsOK, Notification
      <3>2. Notified(x)'
        BY <1>2, <3>1 DEF Notified, Rounds, StageOK
      <3>3. ASSUME tally'[x.job][x.mail].made = 1
            PROVE  /\ queued'[x] = 1
                   /\ tally'[x.job][x.mail].refused = Rounds(x)
                   /\ \A p \in DOMAIN queued' : p.job = x.job /\ p.mail = x.mail => p = x
        <4>1. /\ queued[x] = 1
              /\ tally[x.job][x.mail].refused = Rounds(x)
              /\ \A p \in DOMAIN queued : p.job = x.job /\ p.mail = x.mail => p = x
          BY <1>2, <3>1, <3>3 DEF Single
        <4>2. x # n /\ ~(x.job = n.job /\ x.mail = n.mail)
          BY <3>1, <4>1
        <4>3. \A p \in S : ~(p.job = x.job /\ p.mail = x.mail)
          BY <1>3, <4>2 DEF Successor
        <4> QED BY <1>1, <1>2, <3>1, <4>1, <4>2, <4>3 DEF Exchange
      <3> QED BY <3>2, <3>3 DEF Single, Rounds
    <2> QED BY <2>1, <2>2
  <1>6. ASSUME NEW j \in Job, NEW m \in Mail
        PROVE  Ended(j, m)'
    <2>1. Ended(j, m)
      BY DEF Parts, EndsOK
    <2>2. tally'[j][m].made = 0 => tally'[j][m].refused = 0
      BY <1>0, <1>2, <2>1 DEF Ended, Notified
    <2>3. ASSUME tally'[j][m].givenUp > 0
          PROVE  tally'[j][m].refused >= ATTEMPTS * (MAX_DLQ_REPROCESS + 1)
      <3>1. tally'[j][m].refused >= tally[j][m].refused /\ tally'[j][m].refused \in Nat
        BY <1>2
      <3>2. ATTEMPTS * (MAX_DLQ_REPROCESS + 1) \in Nat
        BY LimitsAssumption
      <3>3. CASE tally'[j][m].givenUp = tally[j][m].givenUp
        BY <1>2, <2>1, <2>3, <3>1, <3>2, <3>3 DEF Ended
      <3>4. CASE tally'[j][m].givenUp # tally[j][m].givenUp
        <4>1. Rounds(n) >= ATTEMPTS * (MAX_DLQ_REPROCESS + 1) /\ tally[j][m].refused >= Rounds(n)
          BY <1>0, <1>1, <1>2, <3>4 DEF Notified
        <4> QED BY <1>0, <1>2, <3>1, <3>2, <4>1
      <3> QED BY <3>3, <3>4
    <2> QED BY <2>2, <2>3 DEF Ended
  <1> QED BY <1>4, <1>5, <1>6 DEF Parts, MailsOK, EndsOK

LEMMA JoinPreserves ==
  ASSUME TallyTypes, Parts, NEW m, Joins(m)
  PROVE  Parts'
PROOF
  <1>0. m \in Notification /\ m.job \in Job /\ m.mail \in Mail /\ Rounds(m) \in Nat /\ Bag(queued)
    BY RoundsAreNat DEF Joins, Notification, Parts, QueuedTypes
  <1>1. /\ Bag(queued')
        /\ DOMAIN queued' = DOMAIN queued \cup {m}
        /\ \A x \in DOMAIN queued : x # m => queued'[x] = queued[x]
        /\ m \notin DOMAIN queued => queued'[m] = 1
    BY <1>0, AddedToBag DEF Joins
  <1>2. /\ \A j \in Job, l \in Mail :
             /\ tally[j][l].made \in Nat /\ tally[j][l].refused \in Nat
             /\ tally'[j][l].refused = tally[j][l].refused
             /\ tally'[j][l].givenUp = tally[j][l].givenUp
             /\ tally'[j][l].made =
                  IF j = m.job /\ l = m.mail THEN tally[j][l].made + 1 ELSE tally[j][l].made
    <2>1. \A j \in Job, l \in Mail : tally[j][l].made \in Nat /\ tally[j][l].refused \in Nat
      BY FieldsOfTally DEF TallyTypes, Fields
    <2> QED BY <2>1 DEF Joins, Counts, Fields
  <1>3. QueuedTypes'
    BY <1>0, <1>1 DEF Parts, QueuedTypes
  <1>4. \A x \in DOMAIN queued :
          x \in Notification /\ Notified(x) /\ Single(x) /\ x.job \in Job /\ x.mail \in Mail
    BY DEF Parts, QueuedTypes, MailsOK, Notification
  <1>5. Notified(m)'
    BY <1>0, <1>2 DEF Joins, Notified, StageOK, Rounds
  <1>6. Single(m)'
    <2>1. ASSUME tally'[m.job][m.mail].made = 1
          PROVE  /\ queued'[m] = 1
                 /\ tally'[m.job][m.mail].refused = Rounds(m)
                 /\ \A p \in DOMAIN queued' : p.job = m.job /\ p.mail = m.mail => p = m
      <3>1. tally[m.job][m.mail].made = 0
        BY <1>0, <1>2, <2>1
      <3>2. \A p \in DOMAIN queued : ~(p.job = m.job /\ p.mail = m.mail)
        BY <1>4, <3>1 DEF Notified
      <3>3. tally[m.job][m.mail].refused = 0 /\ Rounds(m) = 0
        BY <1>0, <3>1 DEF Parts, EndsOK, Ended, Joins
      <3> QED BY <1>0, <1>1, <1>2, <3>2, <3>3
    <2> QED BY <2>1 DEF Single, Rounds
  <1>7. ASSUME NEW x \in DOMAIN queued, x # m
        PROVE  Notified(x)' /\ Single(x)'
    <2>1. Notified(x)'
      BY <1>2, <1>4, <1>7 DEF Notified, StageOK, Rounds
    <2>2. CASE x.job = m.job /\ x.mail = m.mail
      BY <1>2, <1>4, <2>2 DEF Single, Notified
    <2>3. CASE ~(x.job = m.job /\ x.mail = m.mail)
      BY <1>1, <1>2, <1>4, <1>7, <2>1, <2>3 DEF Single, Rounds
    <2> QED BY <2>1, <2>2, <2>3
  <1>8. EndsOK'
    BY <1>2 DEF Parts, EndsOK, Ended
  <1> QED BY <1>1, <1>3, <1>5, <1>6, <1>7, <1>8 DEF Parts, MailsOK

LEMMA FreshJoins ==
  ASSUME TallyTypes, Parts, NEW j \in Job, NEW l \in Mail,
         queued' = queued (+) Put(Fresh(j, l, 0)),
         tally' = [tally EXCEPT ![j][l] = Count(@, {"made"})]
  PROVE  Joins(Fresh(j, l, 0))
PROOF
  <1> DEFINE m == Fresh(j, l, 0)
  <1>1. /\ m \in Notification /\ m.job = j /\ m.mail = l /\ m.attempts = 0 /\ m.dlqCount = 0
        /\ m.stage = "waiting"
    BY LimitsAssumption DEF Fresh, Notification
  <1>2. Counts(j, l, {"made"})
    BY Counted
  <1>3. queued' = queued (+) Put(m)
    OBVIOUS
  <1> HIDE DEF m
  <1>4. Rounds(m) = 0 /\ StageOK(m) /\ m.dlqCount <= MAX_DLQ_REPROCESS
    BY <1>1, LimitsAssumption DEF Rounds, StageOK
  <1>5. tally[j][l].refused \in Nat
    BY FieldsOfTally DEF TallyTypes, Fields
  <1>6. Joins(m)
    BY <1>1, <1>2, <1>3, <1>4, <1>5 DEF Joins
  <1> QED BY <1>6 DEF m

\* The dead letter whose worker stops after the add: it stays beside the
\* notification it was turned back into.
Forks(n) ==
  /\ queued' = ((queued (-) Put(n)) (+) Put([n EXCEPT !.stalled = TRUE])) (+) Put(Again(n))
  /\ Tallied(n, {"made"})

LEMMA ForkPreserves ==
  ASSUME TallyTypes, Parts, NEW n \in BagToSet(queued), n.stage = "dead", ~n.stalled, ~GivesUp(n),
         Forks(n)
  PROVE  Parts'
PROOF
  <1>0. /\ n \in DOMAIN queued /\ n \in Notification /\ Notified(n) /\ Bag(queued)
        /\ n.job \in Job /\ n.mail \in Mail
        /\ n.dlqCount \in Nat /\ n.dlqCount < MAX_DLQ_REPROCESS /\ n.attempts = ATTEMPTS
    BY LimitsAssumption DEF Parts, QueuedTypes, MailsOK, Notified, StageOK, BagToSet, Notification, GivesUp
  <1> DEFINE m == [n EXCEPT !.stalled = TRUE]
             a == Again(n)
             B == queued (-) Put(n)
             C == B (+) Put(m)
  <1>1. /\ m \in Notification /\ m.job = n.job /\ m.mail = n.mail /\ m.attempts = n.attempts
        /\ m.dlqCount = n.dlqCount /\ m.stage = n.stage
    BY <1>0 DEF Notification
  <1>2. /\ a \in Notification /\ Rounds(a) = Rounds(n)
        /\ a.job = n.job /\ a.mail = n.mail /\ a.attempts = 0 /\ a.dlqCount = n.dlqCount + 1
        /\ a.stage = "waiting"
    BY <1>0, NextRounds DEF Again, Fresh, NextRound
  <1>3. queued' = C (+) Put(a) /\ Counts(n.job, n.mail, {"made"})
    BY <1>0, Counted DEF Forks, Tallied
  <1> HIDE DEF m, a
  <1>4. /\ StageOK(m) /\ m.dlqCount <= MAX_DLQ_REPROCESS /\ Rounds(m) = Rounds(n)
        /\ StageOK(a) /\ a.dlqCount <= MAX_DLQ_REPROCESS
    BY <1>0, <1>1, <1>2, LimitsAssumption DEF StageOK, Notified, Rounds
  <1>5. /\ Bag(B)
        /\ DOMAIN B = {x \in DOMAIN queued : x = n => queued[n] > 1}
        /\ \A x \in DOMAIN B : x # n => B[x] = queued[x]
    BY <1>0, TakenFromBag
  <1> HIDE DEF B
  <1>6. Bag(C) /\ DOMAIN C = DOMAIN B \cup {m} /\ \A x \in DOMAIN B : x # m => C[x] = B[x]
    BY <1>5, AddedToBag
  <1> HIDE DEF C
  <1>7. /\ Bag(queued') /\ DOMAIN queued' = DOMAIN C \cup {a}
        /\ \A x \in DOMAIN C : x # a => queued'[x] = C[x]
    BY <1>3, <1>6, AddedToBag
  <1>8. /\ Bag(queued') /\ DOMAIN queued' \subseteq DOMAIN queued \cup {m, a}
        /\ \A x \in DOMAIN queued' : x \notin {n, m, a} => queued'[x] = queued[x]
    BY <1>5, <1>6, <1>7
  <1>9. /\ \A j \in Job, l \in Mail :
             /\ tally[j][l].made \in Nat /\ tally[j][l].refused \in Nat
             /\ tally'[j][l].refused = tally[j][l].refused
             /\ tally'[j][l].givenUp = tally[j][l].givenUp
             /\ tally'[j][l].made =
                  IF j = n.job /\ l = n.mail THEN tally[j][l].made + 1 ELSE tally[j][l].made
    <2>1. \A j \in Job, l \in Mail : tally[j][l].made \in Nat /\ tally[j][l].refused \in Nat
      BY FieldsOfTally DEF TallyTypes, Fields
    <2> QED BY <1>3, <2>1 DEF Counts, Fields
  <1>10. \A x \in DOMAIN queued :
           x \in Notification /\ Notified(x) /\ Single(x) /\ x.job \in Job /\ x.mail \in Mail
    BY DEF Parts, QueuedTypes, MailsOK, Notification
  <1>11. QueuedTypes'
    BY <1>1, <1>2, <1>8, <1>10 DEF QueuedTypes
  <1>12. ASSUME NEW x \in DOMAIN queued'
         PROVE  Notified(x)' /\ Single(x)'
    <2>1. CASE x \in {m, a}
      <3>1. /\ x.job = n.job /\ x.mail = n.mail /\ StageOK(x) /\ x.dlqCount <= MAX_DLQ_REPROCESS
            /\ Rounds(x) = Rounds(n)
        BY <1>1, <1>2, <1>4, <2>1
      <3>2. tally'[n.job][n.mail].made # 1
        BY <1>0, <1>9 DEF Notified
      <3>3. Notified(x)'
        BY <1>0, <1>9, <3>1 DEF Notified, Rounds, StageOK
      <3> QED BY <3>1, <3>2, <3>3 DEF Single
    <2>2. CASE x \notin {m, a}
      <3>1. x \in DOMAIN queued /\ Notified(x) /\ Single(x) /\ x.job \in Job /\ x.mail \in Mail
        BY <1>8, <1>10, <2>2
      <3>2. Notified(x)'
        BY <1>9, <3>1 DEF Notified, Rounds, StageOK
      <3>3. CASE x.job = n.job /\ x.mail = n.mail
        <4>1. tally'[x.job][x.mail].made # 1
          BY <1>0, <1>9, <3>3 DEF Notified
        <4> QED BY <3>2, <4>1 DEF Single
      <3>4. CASE ~(x.job = n.job /\ x.mail = n.mail)
        <4>1. ASSUME tally'[x.job][x.mail].made = 1
              PROVE  /\ queued'[x] = 1
                     /\ tally'[x.job][x.mail].refused = Rounds(x)
                     /\ \A p \in DOMAIN queued' : p.job = x.job /\ p.mail = x.mail => p = x
          BY <1>1, <1>2, <1>8, <1>9, <2>2, <3>1, <3>4, <4>1 DEF Single
        <4> QED BY <3>2, <4>1 DEF Single, Rounds
      <3> QED BY <3>3, <3>4
    <2> QED BY <2>1, <2>2
  <1>13. EndsOK'
    BY <1>9 DEF Parts, EndsOK, Ended
  <1> QED BY <1>11, <1>12, <1>13 DEF Parts, MailsOK

Inv == JobsOK /\ TallyTypes /\ Parts

LEMMA PartsStep == Inv /\ [Next]_vars => Parts'
PROOF
  <1> SUFFICES ASSUME JobsOK, TallyTypes, Parts, [Next]_vars PROVE Parts'
    BY DEF Inv
  <1>1. CASE queued' = queued /\ tally' = tally
    BY <1>1 DEF Parts, QueuedTypes, Bag, MailsOK, EndsOK, Notified, Single, Ended, StageOK, Rounds
  <1>2. ASSUME NEW j \in Job, left[j] # << >>, Add(j)
        PROVE  Parts'
    <2>1. Head(left[j]) \in Mail
      BY <1>2, RemainingFacts DEF JobsOK, JobOK
    <2>2. Joins(Fresh(j, Head(left[j]), 0))
      BY <1>2, <2>1, FreshJoins DEF Add
    <2> QED BY <2>2, JoinPreserves
  <1>3. ASSUME NEW n \in BagToSet(queued), ReprocessStalls(n)
        PROVE  Parts'
    <2>1. n.stage = "dead" /\ ~n.stalled
      BY <1>3 DEF ReprocessStalls, In
    <2>2. CASE ~GivesUp(n) /\ Forks(n)
      BY <2>1, <2>2, ForkPreserves DEF Parts
    <2>3. CASE tally' = tally
      BY <1>3, <2>3, MailSteps, MovePreserves DEF Parts, BagToSet
    <2> QED BY <1>3, <2>2, <2>3 DEF ReprocessStalls, Forks
  <1>4. ASSUME NEW n \in BagToSet(queued),
               \/ MailStep(n) \/ SendFails(n) \/ SendStalls(n) \/ SendStallsAgain(n)
               \/ OnFailedFails(n) \/ ReprocessFails(n) \/ ReprocessStallsAgain(n)
        PROVE  Parts'
    BY <1>4, MailSteps, MovePreserves DEF Parts, BagToSet
  <1>5. \A j \in Job : Publish(j) \/ JobStep(j) \/ AddFails(j) \/ Stall(j) =>
          \/ queued' = queued /\ tally' = tally
          \/ left[j] # << >> /\ Add(j)
    BY DEF Publish, JobStep, Process, AddNotification, Complete, AddFails, Stall
  <1> QED BY <1>1, <1>2, <1>3, <1>4, <1>5 DEF Next, Work, vars

BoundsOK == stops \in 0..MaxStops /\ faults \in 0..MaxFaults

StalledOK == stalled \subseteq Job

LEMMA StalledStep == StalledOK /\ [Next]_vars => StalledOK'
PROOF
  BY DEF StalledOK, Next, Work, JobStep, MailStep, Publish, Process, AddNotification, Complete, AddFails,
     Stall, Take, Send, SendFails, SendStalls, SendStallsAgain, OnFailed, OnFailedFails, GiveUp, Reprocess,
     ReprocessFails, ReprocessStalls, ReprocessStallsAgain, vars

LEMMA BoundsStep == BoundsOK /\ [Next]_vars => BoundsOK'
PROOF
  <1> SUFFICES ASSUME BoundsOK, [Next]_vars PROVE BoundsOK'
    OBVIOUS
  <1>1. CASE Stop \/ Fault
    BY <1>1, BoundsAssumption DEF BoundsOK, Stop, Fault
  <1>2. CASE UNCHANGED <<stops, faults>>
    BY <1>2 DEF BoundsOK
  <1> QED BY <1>1, <1>2
          DEF Next, Work, JobStep, MailStep, Publish, Process, AddNotification, Complete, AddFails,
              Stall, Take, Send, SendFails, SendStalls, SendStallsAgain, OnFailed, OnFailedFails, GiveUp,
              Reprocess, ReprocessFails, ReprocessStalls, ReprocessStallsAgain, vars

LEMMA InvInit == Init => Inv /\ BoundsOK
PROOF
  <1> SUFFICES ASSUME Init PROVE Inv /\ BoundsOK
    OBVIOUS
  <1>1. JobsOK
    <2>1. JobTypes
      BY DEF Init, JobTypes
    <2>2. \A j \in Job : JobOK(j)
      BY RemainingFacts, LimitsAssumption DEF Init, JobOK
    <2> QED BY <2>1, <2>2 DEF JobsOK
  <1>2. Zero \in Tally
    BY DEF Zero, Tally
  <1>3. TallyTypes
    BY <1>2 DEF Init, TallyTypes
  <1>4. QueuedTypes /\ MailsOK
    BY DEF Init, EmptyBag, SetToBag, QueuedTypes, Bag, MailsOK
  <1>5. EndsOK
    BY DEF Init, EndsOK, Ended, Zero
  <1>6. BoundsOK
    BY BoundsAssumption DEF Init, BoundsOK
  <1> QED BY <1>1, <1>3, <1>4, <1>5, <1>6 DEF Inv, Parts

LEMMA InvStep == Inv /\ [Next]_vars => Inv'
PROOF
  BY JobsStep, TallyTypesStep, PartsStep DEF Inv, Parts

LEMMA StalledHolds == Spec => []StalledOK
PROOF
  <1>1. Init => StalledOK
    BY DEF Init, StalledOK
  <1> QED BY <1>1, StalledStep, PTL DEF Spec

LEMMA Invariant == Spec => [](Inv /\ BoundsOK)
PROOF
  BY InvInit, InvStep, BoundsStep, PTL DEF Spec

\* Jobs, notifications and tallies keep their types: no job is run for an
\* attempt it does not have, and an attempt adds the notifications in order.
THEOREM Types == Spec => []TypeOK
PROOF
  <1>1. Inv /\ BoundsOK /\ StalledOK => TypeOK
    <2> SUFFICES ASSUME Inv, BoundsOK, StalledOK PROVE TypeOK
      OBVIOUS
    <2>1. /\ state \in [Job -> {"absent", "waiting", "active", "completed", "failed"}]
          /\ tried \in [Job -> 0..ATTEMPTS]
      BY DEF Inv, JobsOK, JobTypes, JobOK
    <2>2. \A j \in Job : IsSuffix(left[j], MailsOf(NameOf[j]))
      BY RemainingFacts DEF Inv, JobsOK, JobOK
    <2>3. BagToSet(queued) \subseteq Notification /\ \A n \in BagToSet(queued) : queued[n] \in Nat
      BY DEF Inv, Parts, QueuedTypes, Bag, BagToSet
    <2> QED BY <2>1, <2>2, <2>3 DEF TypeOK, Inv, TallyTypes, BoundsOK, StalledOK
  <1> QED BY <1>1, Invariant, StalledHolds, PTL

\* A completed TransferCompleted job has told both parties, for any number of
\* attempts that failed or stalled between the two adds.
THEOREM EveryoneIsToldHolds == Spec => []EveryoneIsTold
PROOF
  <1>1. ASSUME Inv, NEW j \in Job, state[j] = "completed", NEW i \in 1..Len(MailsOf(NameOf[j]))
        PROVE  tally[j][MailsOf(NameOf[j])[i]].made > 0
    <2>1. MailsOf(NameOf[j])[i] \in Elements(MailsOf(NameOf[j]))
      BY DEF MailsOf, Elements
    <2>2. Elements(left[j]) = {}
      BY <1>1, RemainingFacts DEF Inv, JobsOK, JobOK
    <2> QED BY <1>1, <2>1, <2>2 DEF Inv, JobsOK, JobOK
  <1>2. Inv => EveryoneIsTold
    BY <1>1 DEF EveryoneIsTold
  <1> QED BY <1>2, Invariant, PTL

\* The rounds and the attempts of a notification are counted through both
\* queues, for any number of calls that fail and workers that stop: as long as nothing forked it, every refusal is an attempt it has
\* made, and it is not given up before the last attempt of the last round.
THEOREM AttemptsAreCountedHolds == Spec => []AttemptsAreCounted
PROOF
  <1>1. ASSUME Inv, NEW j \in Job, NEW m \in Mail
        PROVE  /\ \A n \in BagToSet(queued) :
                    n.job = j /\ n.mail = m /\ tally[j][m].made = 1 =>
                      /\ tally[j][m].refused = ATTEMPTS * n.dlqCount + n.attempts
                      /\ n.dlqCount <= MAX_DLQ_REPROCESS
               /\ tally[j][m].givenUp > 0 => tally[j][m].refused >= ATTEMPTS * (MAX_DLQ_REPROCESS + 1)
    BY <1>1 DEF Inv, Parts, MailsOK, Notified, Single, Rounds, EndsOK, Ended, BagToSet
  <1>2. Inv => AttemptsAreCounted
    BY <1>1 DEF AttemptsAreCounted
  <1> QED BY <1>2, Invariant, PTL

-----------------------------------------------------------------------------
(* Every notification job is in one place.                                 *)
OfMail(n, J, m) == n.job \in J /\ n.mail = m

\* The notification jobs of one kind of email that a bag holds for some of the
\* jobs, one by one.
Held(B, J, m) ==
  {u \in {n \in DOMAIN B : OfMail(n, J, m)} \X (Nat \ {0}) : u[2] <= B[u[1]]}

LEMMA HeldPairs ==
  ASSUME NEW B, NEW J, NEW m
  PROVE  /\ \A n, i : <<n, i>> \in Held(B, J, m) <=>
              n \in DOMAIN B /\ OfMail(n, J, m) /\ i \in Nat \ {0} /\ i <= B[n]
         /\ \A u \in Held(B, J, m) : \E n, i : u = <<n, i>>
PROOF
  BY DEF Held

LEMMA HeldAreCopies ==
  ASSUME Bag(queued), NEW j, NEW m
  PROVE  Copies({n \in BagToSet(queued) : n.job = j /\ n.mail = m}) = Held(queued, {j}, m)
PROOF
  <1> DEFINE N == {n \in BagToSet(queued) : n.job = j /\ n.mail = m}
  <1>1. \A n \in N : n \in DOMAIN queued /\ OfMail(n, {j}, m) /\ queued[n] \in Nat \ {0}
    BY DEF Bag, BagToSet, OfMail
  <1>2. \A n \in DOMAIN queued : OfMail(n, {j}, m) => n \in N
    BY DEF BagToSet, OfMail
  <1> HIDE DEF N
  <1>3. ASSUME NEW u \in Copies(N)
        PROVE  u \in Held(queued, {j}, m)
    <2>1. PICK n \in N : u \in {n} \X (1..queued[n])
      BY <1>3 DEF Copies
    <2>2. PICK i \in 1..queued[n] : u = <<n, i>>
      BY <2>1
    <2>3. i \in Nat \ {0} /\ i <= queued[n]
      BY <1>1
    <2> QED BY <1>1, <2>2, <2>3, HeldPairs
  <1>4. ASSUME NEW u \in Held(queued, {j}, m)
        PROVE  u \in Copies(N)
    <2>1. PICK n, i : u = <<n, i>>
      BY HeldPairs
    <2>2. n \in DOMAIN queued /\ OfMail(n, {j}, m) /\ i \in Nat \ {0} /\ i <= queued[n]
      BY <2>1, HeldPairs
    <2>3. n \in N /\ u \in {n} \X (1..queued[n])
      BY <1>1, <1>2, <2>1, <2>2
    <2> QED BY <2>3 DEF Copies
  <1> QED BY <1>3, <1>4 DEF N

LEMMA SameHeld ==
  ASSUME NEW C, NEW J, NEW m, NEW T, \A u \in T : \E n, i : u = <<n, i>>,
         \A n, i : <<n, i>> \in Held(C, J, m) <=> <<n, i>> \in T
  PROVE  Held(C, J, m) = T
PROOF
  <1>1. \A u \in Held(C, J, m) : u \in T
    BY HeldPairs
  <1>2. \A u \in T : u \in Held(C, J, m)
    OBVIOUS
  <1> QED BY <1>1, <1>2

\* Putting a notification into a bag adds one, and taking it out removes one.
LEMMA HeldAdded ==
  ASSUME NEW B, Bag(B), NEW n, NEW J, NEW m, IsFiniteSet(Held(B, J, m))
  PROVE  /\ IsFiniteSet(Held(B (+) Put(n), J, m))
         /\ Cardinality(Held(B (+) Put(n), J, m)) =
              Cardinality(Held(B, J, m)) + IF OfMail(n, J, m) THEN 1 ELSE 0
PROOF
  <1> DEFINE k == IF n \in DOMAIN B THEN B[n] + 1 ELSE 1
             C == B (+) Put(n)
  <1>1. /\ k \in Nat \ {0}
        /\ DOMAIN C = DOMAIN B \cup {n} /\ C[n] = k
        /\ \A x \in DOMAIN B : x # n => C[x] = B[x]
    BY DEF Bag, Put, SetToBag, (+)
  <1>2. /\ n \in DOMAIN B => B[n] \in Nat /\ k = B[n] + 1
        /\ n \notin DOMAIN B => k = 1
    BY DEF Bag
  <1> HIDE DEF k, C
  <1>3. CASE OfMail(n, J, m)
    <2>1. <<n, k>> \notin Held(B, J, m)
      BY <1>1, <1>2, HeldPairs
    <2>2. \A x, i : <<x, i>> \in Held(C, J, m) <=> <<x, i>> \in Held(B, J, m) \/ (x = n /\ i = k)
      <3>1. ASSUME NEW x, NEW i, x # n
            PROVE  <<x, i>> \in Held(C, J, m) <=> <<x, i>> \in Held(B, J, m)
        BY <1>1, <3>1, HeldPairs
      <3>2. ASSUME NEW i
            PROVE  <<n, i>> \in Held(C, J, m) <=> <<n, i>> \in Held(B, J, m) \/ i = k
        BY <1>1, <1>2, <1>3, HeldPairs
      <3> QED BY <3>1, <3>2
    <2>3. Held(C, J, m) = Held(B, J, m) \cup {<<n, k>>}
      <3> DEFINE T == Held(B, J, m) \cup {<<n, k>>}
      <3>1. \A u \in T : \E x, i : u = <<x, i>>
        BY HeldPairs
      <3>2. \A x, i : <<x, i>> \in Held(C, J, m) <=> <<x, i>> \in T
        BY <2>2
      <3> HIDE DEF T
      <3>3. Held(C, J, m) = T
        BY <3>1, <3>2, SameHeld
      <3> QED BY <3>3 DEF T
    <2> QED BY <1>3, <2>1, <2>3, FS_AddElement DEF C
  <1>4. CASE ~OfMail(n, J, m)
    <2>1. ASSUME NEW x, NEW i
          PROVE  <<x, i>> \in Held(C, J, m) <=> <<x, i>> \in Held(B, J, m)
      <3>1. x = n => <<x, i>> \notin Held(C, J, m) /\ <<x, i>> \notin Held(B, J, m)
        BY <1>4, HeldPairs
      <3>2. x # n => (<<x, i>> \in Held(C, J, m) <=> <<x, i>> \in Held(B, J, m))
        BY <1>1, HeldPairs
      <3> QED BY <3>1, <3>2
    <2>2. Held(C, J, m) = Held(B, J, m)
      <3> DEFINE T == Held(B, J, m)
      <3>1. \A u \in T : \E x, i : u = <<x, i>>
        BY HeldPairs
      <3>2. \A x, i : <<x, i>> \in Held(C, J, m) <=> <<x, i>> \in T
        BY <2>1
      <3> HIDE DEF T
      <3>3. Held(C, J, m) = T
        BY <3>1, <3>2, SameHeld
      <3> QED BY <3>3 DEF T
    <2> QED BY <1>4, <2>2, FS_CardinalityType DEF C
  <1> QED BY <1>3, <1>4

LEMMA HeldTaken ==
  ASSUME NEW B, Bag(B), NEW n \in DOMAIN B, NEW J, NEW m, IsFiniteSet(Held(B, J, m))
  PROVE  /\ IsFiniteSet(Held(B (-) Put(n), J, m))
         /\ Cardinality(Held(B (-) Put(n), J, m)) =
              Cardinality(Held(B, J, m)) - IF OfMail(n, J, m) THEN 1 ELSE 0
PROOF
  <1> DEFINE k == B[n]
             C == B (-) Put(n)
  <1>1. /\ k \in Nat \ {0}
        /\ DOMAIN C = {x \in DOMAIN B : x = n => k > 1}
        /\ n \in DOMAIN C => C[n] = k - 1
        /\ \A x \in DOMAIN C : x # n => C[x] = B[x]
    BY DEF Bag, Put, SetToBag, (-)
  <1>2. k = B[n]
    OBVIOUS
  <1> HIDE DEF k, C
  <1>3. CASE OfMail(n, J, m)
    <2>1. <<n, k>> \in Held(B, J, m)
      BY <1>1, <1>2, <1>3, HeldPairs
    <2>2. \A x, i : <<x, i>> \in Held(C, J, m) <=> <<x, i>> \in Held(B, J, m) /\ ~(x = n /\ i = k)
      <3>1. ASSUME NEW x, NEW i, x # n
            PROVE  <<x, i>> \in Held(C, J, m) <=> <<x, i>> \in Held(B, J, m)
        BY <1>1, <3>1, HeldPairs
      <3>2. ASSUME NEW i
            PROVE  <<n, i>> \in Held(C, J, m) <=> <<n, i>> \in Held(B, J, m) /\ i # k
        BY <1>1, <1>2, <1>3, HeldPairs
      <3> QED BY <3>1, <3>2
    <2>3. Held(C, J, m) = Held(B, J, m) \ {<<n, k>>}
      <3> DEFINE T == Held(B, J, m) \ {<<n, k>>}
      <3>1. \A u \in T : \E x, i : u = <<x, i>>
        BY HeldPairs
      <3>2. \A x, i : <<x, i>> \in Held(C, J, m) <=> <<x, i>> \in T
        BY <2>2
      <3> HIDE DEF T
      <3>3. Held(C, J, m) = T
        BY <3>1, <3>2, SameHeld
      <3> QED BY <3>3 DEF T
    <2> QED BY <1>3, <2>1, <2>3, FS_RemoveElement DEF C
  <1>4. CASE ~OfMail(n, J, m)
    <2>1. ASSUME NEW x, NEW i
          PROVE  <<x, i>> \in Held(C, J, m) <=> <<x, i>> \in Held(B, J, m)
      <3>1. x = n => <<x, i>> \notin Held(C, J, m) /\ <<x, i>> \notin Held(B, J, m)
        BY <1>4, HeldPairs
      <3>2. x # n => (<<x, i>> \in Held(C, J, m) <=> <<x, i>> \in Held(B, J, m))
        BY <1>1, HeldPairs
      <3> QED BY <3>1, <3>2
    <2>2. Held(C, J, m) = Held(B, J, m)
      <3> DEFINE T == Held(B, J, m)
      <3>1. \A u \in T : \E x, i : u = <<x, i>>
        BY HeldPairs
      <3>2. \A x, i : <<x, i>> \in Held(C, J, m) <=> <<x, i>> \in T
        BY <2>1
      <3> HIDE DEF T
      <3>3. Held(C, J, m) = T
        BY <3>1, <3>2, SameHeld
      <3> QED BY <3>3 DEF T
    <2> QED BY <1>4, <2>2, FS_CardinalityType DEF C
  <1> QED BY <1>3, <1>4

LEMMA HeldStays ==
  ASSUME NEW B, Bag(B), NEW J, NEW m
  PROVE  Held(B (+) EmptyBag, J, m) = Held(B, J, m)
PROOF
  <1> DEFINE C == B (+) EmptyBag
  <1>1. DOMAIN C = DOMAIN B /\ \A x \in DOMAIN B : C[x] = B[x]
    BY DEF Bag, EmptyBag, SetToBag, (+)
  <1> HIDE DEF C
  <1>2. ASSUME NEW x, NEW i
        PROVE  <<x, i>> \in Held(C, J, m) <=> <<x, i>> \in Held(B, J, m)
    BY <1>1, HeldPairs
  <1>3. Held(C, J, m) = Held(B, J, m)
    <2> DEFINE T == Held(B, J, m)
    <2>1. \A u \in T : \E x, i : u = <<x, i>>
      BY HeldPairs
    <2>2. \A x, i : <<x, i>> \in Held(C, J, m) <=> <<x, i>> \in T
      BY <1>2
    <2> HIDE DEF T
    <2>3. Held(C, J, m) = T
      BY <2>1, <2>2, SameHeld
    <2> QED BY <2>3 DEF T
  <1> QED BY <1>3 DEF C

\* A step changes the number of notification jobs of one email by d, whichever
\* jobs are counted with it.
Moved(j, m, d) ==
  \A K \in SUBSET Job, l \in Mail : IsFiniteSet(Held(queued, K, l)) =>
    /\ IsFiniteSet(Held(queued', K, l))
    /\ Cardinality(Held(queued', K, l)) =
         Cardinality(Held(queued, K, l)) + IF j \in K /\ l = m THEN d ELSE 0

LEMMA StaysMoves ==
  ASSUME NEW j, NEW m, queued' = queued
  PROVE  Moved(j, m, 0)
PROOF
  BY FS_CardinalityType DEF Moved

LEMMA AddedMoves ==
  ASSUME Bag(queued), NEW n, queued' = queued (+) Put(n)
  PROVE  Moved(n.job, n.mail, 1)
PROOF
  BY HeldAdded DEF Moved, OfMail

LEMMA LeavesMoves ==
  ASSUME Bag(queued), NEW n \in DOMAIN queued, Leaves(n)
  PROVE  Moved(n.job, n.mail, -1)
PROOF
  <1>1. ASSUME NEW K \in SUBSET Job, NEW l \in Mail, IsFiniteSet(Held(queued, K, l))
        PROVE  /\ IsFiniteSet(Held(queued', K, l))
               /\ Cardinality(Held(queued', K, l)) =
                    Cardinality(Held(queued, K, l)) + IF n.job \in K /\ l = n.mail THEN -1 ELSE 0
    <2>1. /\ IsFiniteSet(Held(queued', K, l))
          /\ Cardinality(Held(queued', K, l)) =
               Cardinality(Held(queued, K, l)) - IF OfMail(n, K, l) THEN 1 ELSE 0
      BY <1>1, HeldTaken DEF Leaves
    <2>2. Cardinality(Held(queued, K, l)) \in Nat
      BY <1>1, FS_CardinalityType
    <2> QED BY <2>1, <2>2 DEF OfMail
  <1> QED BY <1>1 DEF Moved

\* One job in the place of another one of the same email.
LEMMA BecomesMoves ==
  ASSUME Bag(queued), NEW n \in DOMAIN queued, NEW m, m.job = n.job, m.mail = n.mail,
         queued' = (queued (-) Put(n)) (+) Put(m)
  PROVE  Moved(n.job, n.mail, 0)
PROOF
  <1> DEFINE B == queued (-) Put(n)
  <1>1. Bag(B)
    BY TakenFromBag
  <1>2. ASSUME NEW K \in SUBSET Job, NEW l \in Mail, IsFiniteSet(Held(queued, K, l))
        PROVE  /\ IsFiniteSet(Held(queued', K, l))
               /\ Cardinality(Held(queued', K, l)) = Cardinality(Held(queued, K, l)) + 0
    <2>1. /\ IsFiniteSet(Held(B, K, l))
          /\ Cardinality(Held(B, K, l)) =
               Cardinality(Held(queued, K, l)) - IF OfMail(n, K, l) THEN 1 ELSE 0
      BY <1>2, HeldTaken
    <2>2. queued' = B (+) Put(m)
      OBVIOUS
    <2> HIDE DEF B
    <2>3. /\ IsFiniteSet(Held(queued', K, l))
          /\ Cardinality(Held(queued', K, l)) =
               Cardinality(Held(B, K, l)) + IF OfMail(m, K, l) THEN 1 ELSE 0
      BY <1>1, <2>1, <2>2, HeldAdded
    <2>4. OfMail(m, K, l) <=> OfMail(n, K, l)
      BY DEF OfMail
    <2>5. Cardinality(Held(queued, K, l)) \in Nat
      BY <1>2, FS_CardinalityType
    <2> QED BY <2>1, <2>3, <2>4, <2>5
  <1> QED BY <1>2 DEF Moved

\* The job in the place of another one, and one more of the same email.
LEMMA ForkMoves ==
  ASSUME Bag(queued), NEW n \in DOMAIN queued, NEW m, m.job = n.job, m.mail = n.mail,
         NEW a, a.job = n.job, a.mail = n.mail,
         queued' = ((queued (-) Put(n)) (+) Put(m)) (+) Put(a)
  PROVE  Moved(n.job, n.mail, 1)
PROOF
  <1> DEFINE B == queued (-) Put(n)
             C == B (+) Put(m)
  <1>1. Bag(B)
    BY TakenFromBag
  <1>2. ASSUME NEW K \in SUBSET Job, NEW l \in Mail, IsFiniteSet(Held(queued, K, l))
        PROVE  /\ IsFiniteSet(Held(queued', K, l))
               /\ Cardinality(Held(queued', K, l)) =
                    Cardinality(Held(queued, K, l)) + IF n.job \in K /\ l = n.mail THEN 1 ELSE 0
    <2> DEFINE one == IF n.job \in K /\ l = n.mail THEN 1 ELSE 0
               H == Cardinality(Held(queued, K, l))
    <2>1. OfMail(n, K, l) <=> one = 1
      BY DEF OfMail
    <2>2. (OfMail(m, K, l) <=> OfMail(n, K, l)) /\ (OfMail(a, K, l) <=> OfMail(n, K, l))
      BY DEF OfMail
    <2>3. H \in Nat /\ one \in {0, 1}
      BY <1>2, FS_CardinalityType
    <2>4. IsFiniteSet(Held(B, K, l)) /\ Cardinality(Held(B, K, l)) = H - IF OfMail(n, K, l) THEN 1 ELSE 0
      BY <1>2, HeldTaken
    <2>5. queued' = C (+) Put(a)
      OBVIOUS
    <2> HIDE DEF B, H, one
    <2>6. /\ IsFiniteSet(Held(C, K, l)) /\ Bag(C)
          /\ Cardinality(Held(C, K, l)) = Cardinality(Held(B, K, l)) + IF OfMail(m, K, l) THEN 1 ELSE 0
      <3>1. Bag(C)
        BY <1>1, AddedToBag
      <3>2. /\ IsFiniteSet(Held(C, K, l))
            /\ Cardinality(Held(C, K, l)) = Cardinality(Held(B, K, l)) + IF OfMail(m, K, l) THEN 1 ELSE 0
        BY <1>1, <2>4, HeldAdded
      <3> QED BY <3>1, <3>2
    <2> HIDE DEF C
    <2>7. /\ IsFiniteSet(Held(queued', K, l))
          /\ Cardinality(Held(queued', K, l)) =
               Cardinality(Held(C, K, l)) + IF OfMail(a, K, l) THEN 1 ELSE 0
      BY <2>5, <2>6, HeldAdded
    <2>8. Cardinality(Held(queued', K, l)) = H + one
      BY <2>1, <2>2, <2>3, <2>4, <2>6, <2>7
    <2> QED BY <2>7, <2>8 DEF H, one
  <1> QED BY <1>2 DEF Moved

\* Of the two sets FailsAttempt adds, one is empty.
LEMMA FailingMoves ==
  ASSUME QueuedTypes, NEW n \in DOMAIN queued, FailsAttempt(n)
  PROVE  Moved(n.job, n.mail, 0)
PROOF
  <1> DEFINE a == [n EXCEPT !.attempts = @ + 1]
             B == queued (-) Put(n)
  <1>0. n \in Notification /\ Bag(queued)
    BY DEF QueuedTypes
  <1>1. a.attempts \in Nat /\ ATTEMPTS \in Nat /\ a.job = n.job /\ a.mail = n.mail
    BY <1>0, LimitsAssumption DEF Notification
  <1>2. Bag(B)
    BY <1>0, TakenFromBag
  <1>3. \E m : /\ m.job = n.job /\ m.mail = n.mail
               /\ \/ queued' = (B (+) Put(m)) (+) EmptyBag
                  \/ queued' = (B (+) EmptyBag) (+) Put(m)
    <2>1. CASE a.attempts < ATTEMPTS
      <3> DEFINE m == [a EXCEPT !.stage = "waiting"]
      <3>1. m.job = n.job /\ m.mail = n.mail
        BY <1>0 DEF Notification
      <3>2. queued' = (B (+) Put(m)) (+) EmptyBag
        BY <1>1, <2>1 DEF FailsAttempt, Exhausted
      <3> HIDE DEF m, B
      <3> QED BY <3>1, <3>2
    <2>2. CASE a.attempts >= ATTEMPTS
      <3> DEFINE m == [a EXCEPT !.stage = "exhausted"]
      <3>1. m.job = n.job /\ m.mail = n.mail
        BY <1>0 DEF Notification
      <3>2. queued' = (B (+) EmptyBag) (+) Put(m)
        BY <1>1, <2>2 DEF FailsAttempt, Exhausted
      <3> HIDE DEF m, B
      <3> QED BY <3>1, <3>2
    <2>3. a.attempts < ATTEMPTS \/ a.attempts >= ATTEMPTS
      BY <1>1
    <2> QED BY <2>1, <2>2, <2>3
  <1>4. PICK m : /\ m.job = n.job /\ m.mail = n.mail
                 /\ \/ queued' = (B (+) Put(m)) (+) EmptyBag
                    \/ queued' = (B (+) EmptyBag) (+) Put(m)
    BY <1>3
  <1>5. ASSUME NEW K \in SUBSET Job, NEW l \in Mail, IsFiniteSet(Held(queued, K, l))
        PROVE  /\ IsFiniteSet(Held(queued', K, l))
               /\ Cardinality(Held(queued', K, l)) = Cardinality(Held(queued, K, l)) + 0
    <2>1. /\ IsFiniteSet(Held(B, K, l))
          /\ Cardinality(Held(B, K, l)) =
               Cardinality(Held(queued, K, l)) - IF OfMail(n, K, l) THEN 1 ELSE 0
      BY <1>0, <1>5, HeldTaken
    <2> HIDE DEF B
    <2>2. /\ IsFiniteSet(Held(queued', K, l))
          /\ Cardinality(Held(queued', K, l)) =
               Cardinality(Held(B, K, l)) + IF OfMail(m, K, l) THEN 1 ELSE 0
      <3>1. CASE queued' = (B (+) Put(m)) (+) EmptyBag
        <4>1. Bag(B (+) Put(m))
          BY <1>2, AddedToBag
        <4>2. Held(queued', K, l) = Held(B (+) Put(m), K, l)
          BY <3>1, <4>1, HeldStays
        <4> QED BY <1>2, <2>1, <4>2, HeldAdded
      <3>2. CASE queued' = (B (+) EmptyBag) (+) Put(m)
        <4> DEFINE C == B (+) EmptyBag
        <4>1. Bag(C) /\ Held(C, K, l) = Held(B, K, l)
          BY <1>2, NothingAdded, HeldStays
        <4>2. queued' = C (+) Put(m)
          BY <3>2
        <4> HIDE DEF C
        <4> QED BY <2>1, <4>1, <4>2, HeldAdded
      <3> QED BY <1>4, <3>1, <3>2
    <2>3. OfMail(m, K, l) <=> OfMail(n, K, l)
      BY <1>4 DEF OfMail
    <2>4. Cardinality(Held(queued, K, l)) \in Nat
      BY <1>5, FS_CardinalityType
    <2> QED BY <2>1, <2>2, <2>3, <2>4
  <1> QED BY <1>5 DEF Moved

\* The jobs that exist and the ones that ended are the ones that were made.
Accounted(j, m) ==
  /\ IsFiniteSet(Held(queued, {j}, m))
  /\ tally[j][m].made =
       Cardinality(Held(queued, {j}, m)) + tally[j][m].sent + tally[j][m].givenUp + tally[j][m].lost

Places == \A j \in Job, m \in Mail : Accounted(j, m)

One(F, x) == IF x \in F THEN 1 ELSE 0

\* A step keeps the books of one email: the jobs it makes stay in the queues or
\* end.
Books(j, m, F) ==
  /\ Counts(j, m, F)
  /\ Moved(j, m, One(F, "made") - One(F, "sent") - One(F, "givenUp") - One(F, "lost"))

LEMMA BooksPreserve ==
  ASSUME TallyTypes, Places, NEW j, NEW m, NEW F, Books(j, m, F)
  PROVE  Places'
PROOF
  <1>1. ASSUME NEW k \in Job, NEW l \in Mail
        PROVE  Accounted(k, l)'
    <2> DEFINE Here(x) == IF k = j /\ l = m THEN One(F, x) ELSE 0
               H == Cardinality(Held(queued, {k}, l))
    <2>1. \A x \in Fields : /\ tally[k][l][x] \in Nat
                            /\ tally'[k][l][x] = tally[k][l][x] + Here(x)
      BY <1>1, FieldsOfTally DEF Books, Counts, TallyTypes, One
    <2>2. /\ IsFiniteSet(Held(queued, {k}, l)) /\ H \in Nat
          /\ tally[k][l].made = H + tally[k][l].sent + tally[k][l].givenUp + tally[k][l].lost
      BY <1>1, FS_CardinalityType DEF Places, Accounted
    <2>3. \A x : Here(x) \in {0, 1}
      BY DEF One
    <2>4. /\ IsFiniteSet(Held(queued', {k}, l))
          /\ Cardinality(Held(queued', {k}, l)) =
               H + (Here("made") - Here("sent") - Here("givenUp") - Here("lost"))
      BY <1>1, <2>2 DEF Books, Moved, One
    <2> HIDE DEF Here, H
    <2>5. /\ tally'[k][l].made = tally[k][l].made + Here("made")
          /\ tally'[k][l].sent = tally[k][l].sent + Here("sent")
          /\ tally'[k][l].givenUp = tally[k][l].givenUp + Here("givenUp")
          /\ tally'[k][l].lost = tally[k][l].lost + Here("lost")
          /\ tally[k][l].made \in Nat /\ tally[k][l].sent \in Nat
          /\ tally[k][l].givenUp \in Nat /\ tally[k][l].lost \in Nat
      BY <2>1 DEF Fields
    <2>6. /\ Here("made") \in {0, 1} /\ Here("sent") \in {0, 1}
          /\ Here("givenUp") \in {0, 1} /\ Here("lost") \in {0, 1}
      BY <2>3
    <2>7. tally'[k][l].made =
            Cardinality(Held(queued', {k}, l)) + tally'[k][l].sent + tally'[k][l].givenUp + tally'[k][l].lost
      BY <2>2, <2>4, <2>5, <2>6
    <2> QED BY <2>4, <2>7 DEF Accounted
  <1> QED BY <1>1 DEF Places

\* What a step costs: an email that is sent without the notification being
\* done, and a notification that is made of a dead letter that stays, take a
\* failure or a stop.
Saves == faults' = faults /\ stops' = stops
Spends == faults' + stops' = faults + stops + 1

Affordable(F) ==
  \/ Saves /\ "made" \notin F /\ ("mailed" \in F => "sent" \in F)
  \/ Spends /\ ~("made" \in F /\ "mailed" \in F)

LEMMA Spending ==
  ASSUME BoundsOK, Fault \/ Stop
  PROVE  Spends
PROOF
  BY BoundsAssumption DEF BoundsOK, Fault, Stop, Spends

\* Every step with a notification keeps the books, and can be paid for.
LEMMA MailBooks ==
  ASSUME BoundsOK, QueuedTypes, TallyTypes, NEW n \in BagToSet(queued),
         \/ MailStep(n) \/ SendFails(n) \/ SendStalls(n) \/ SendStallsAgain(n)
         \/ OnFailedFails(n) \/ ReprocessFails(n) \/ ReprocessStalls(n) \/ ReprocessStallsAgain(n)
  PROVE  \E F : Books(n.job, n.mail, F) /\ Affordable(F)
PROOF
  <1>0. n \in DOMAIN queued /\ n \in Notification /\ Bag(queued) /\ n.job \in Job /\ n.mail \in Mail
    BY DEF QueuedTypes, BagToSet, Notification
  <1>1. /\ \A F : Tallied(n, F) => Counts(n.job, n.mail, F)
        /\ tally' = tally => Counts(n.job, n.mail, {})
    BY <1>0, Counted, NotCounted DEF Tallied
  <1>2. /\ Leaves(n) => Moved(n.job, n.mail, -1)
        /\ FailsAttempt(n) => Moved(n.job, n.mail, 0)
    BY <1>0, LeavesMoves, FailingMoves
  <1>3. ASSUME NEW m, m.job = n.job, m.mail = n.mail, Becomes(n, m)
        PROVE  Moved(n.job, n.mail, 0)
    BY <1>0, <1>3, BecomesMoves DEF Becomes
  <1>4. /\ \A stage : LET m == [n EXCEPT !.stage = stage] IN m.job = n.job /\ m.mail = n.mail
        /\ \A stage, b : LET m == [n EXCEPT !.stage = stage, !.stalled = b]
                         IN  m.job = n.job /\ m.mail = n.mail
        /\ \A k : LET m == [n EXCEPT !.attempts = @ + k, !.stage = "exhausted"]
                  IN  m.job = n.job /\ m.mail = n.mail
        /\ LET m == [n EXCEPT !.stalled = TRUE] IN m.job = n.job /\ m.mail = n.mail
        /\ Again(n).job = n.job /\ Again(n).mail = n.mail
    BY <1>0 DEF Notification, Again, Fresh
  <1>5. queued' = ((queued (-) Put(n)) (+) Put([n EXCEPT !.stalled = TRUE])) (+) Put(Again(n)) =>
          Moved(n.job, n.mail, 1)
    <2> DEFINE m == [n EXCEPT !.stalled = TRUE]
               a == Again(n)
    <2>1. m.job = n.job /\ m.mail = n.mail /\ a.job = n.job /\ a.mail = n.mail
      BY <1>4
    <2> HIDE DEF m, a
    <2> SUFFICES ASSUME queued' = ((queued (-) Put(n)) (+) Put(m)) (+) Put(a)
                 PROVE  Moved(n.job, n.mail, 1)
      BY DEF m, a
    <2> QED BY <1>0, <2>1, ForkMoves
  <1>6. Fault \/ Stop => Spends
    BY Spending
  <1>7. \/ /\ Moved(n.job, n.mail, 0)
           /\ \E F : /\ F \cap {"made", "sent", "givenUp", "lost"} = {}
                     /\ Counts(n.job, n.mail, F)
                     /\ Spends \/ (Saves /\ "mailed" \notin F)
        \/ Moved(n.job, n.mail, 1) /\ Counts(n.job, n.mail, {"made"}) /\ Spends
        \/ /\ Moved(n.job, n.mail, -1)
           /\ \/ Counts(n.job, n.mail, {"mailed", "sent"})
              \/ Counts(n.job, n.mail, {"givenUp"})
              \/ Counts(n.job, n.mail, {"lost"})
           /\ Saves \/ Spends
        \/ Moved(n.job, n.mail, -1) /\ Counts(n.job, n.mail, {"lost", "mailed"}) /\ Spends
    <2>1. CASE Take(n)
      <3>1. Moved(n.job, n.mail, 0)
        BY <1>3, <1>4, <2>1 DEF Take
      <3>2. Counts(n.job, n.mail, {}) /\ Saves
        BY <1>1, <2>1 DEF Take, Saves
      <3> QED BY <3>1, <3>2
    <2>2. CASE OnFailed(n)
      <3>1. Moved(n.job, n.mail, 0)
        BY <1>3, <1>4, <2>2 DEF OnFailed
      <3>2. Counts(n.job, n.mail, {"stored"}) /\ Saves
        BY <1>1, <2>2 DEF OnFailed, Saves
      <3> QED BY <3>1, <3>2
    <2>3. CASE SendStalls(n)
      BY <1>1, <1>3, <1>4, <1>6, <2>3 DEF SendStalls
    <2>4. CASE SendFails(n)
      BY <1>1, <1>2, <1>6, <2>4 DEF SendFails
    <2>5. CASE Send(n)
      BY <1>1, <1>2, <2>5 DEF Send, Saves
    <2>6. CASE GiveUp(n)
      BY <1>1, <1>2, <2>6 DEF GiveUp, Saves
    <2>7. CASE OnFailedFails(n)
      BY <1>1, <1>2, <1>6, <2>7 DEF OnFailedFails
    <2>8. CASE Reprocess(n)
      BY <1>1, <1>3, <1>4, <2>8 DEF Reprocess, Saves
    <2>9. CASE ReprocessFails(n)
      BY <1>1, <1>2, <1>3, <1>4, <1>6, <2>9 DEF ReprocessFails, Fails
    <2>10. CASE ReprocessStalls(n)
      BY <1>1, <1>3, <1>4, <1>5, <1>6, <2>10 DEF ReprocessStalls
    <2>11. CASE ReprocessStallsAgain(n)
      BY <1>1, <1>2, <1>3, <1>4, <1>6, <2>11 DEF ReprocessStallsAgain, Fails
    <2>12. CASE SendStallsAgain(n)
      <3>1. PICK counted \in {0, 1}, sent \in {{}, {"mailed"}} :
              LET m == [n EXCEPT !.attempts = @ + counted, !.stage = "exhausted"]
              IN  \/ Becomes(n, m) /\ Tallied(n, {"refused"} \cup sent)
                  \/ Leaves(n) /\ Tallied(n, {"lost"} \cup sent)
        BY <2>12 DEF SendStallsAgain
      <3>2. Spends
        BY <1>6, <2>12 DEF SendStallsAgain
      <3>3. \/ Moved(n.job, n.mail, 0) /\ Counts(n.job, n.mail, {"refused"} \cup sent)
            \/ Moved(n.job, n.mail, -1) /\ Counts(n.job, n.mail, {"lost"} \cup sent)
        BY <1>1, <1>2, <1>3, <1>4, <3>1
      <3>4. CASE Moved(n.job, n.mail, 0) /\ Counts(n.job, n.mail, {"refused"} \cup sent)
        BY <3>2, <3>4
      <3>5. CASE Moved(n.job, n.mail, -1) /\ Counts(n.job, n.mail, {"lost"} \cup sent)
        <4>1. {"lost"} \cup sent = {"lost"} \/ {"lost"} \cup sent = {"lost", "mailed"}
          OBVIOUS
        <4> QED BY <3>2, <3>5, <4>1
      <3> QED BY <3>3, <3>4, <3>5
    <2> QED BY <2>1, <2>2, <2>3, <2>4, <2>5, <2>6, <2>7, <2>8, <2>9, <2>10, <2>11, <2>12 DEF MailStep
  <1>8. CASE /\ Moved(n.job, n.mail, 0)
             /\ \E F : /\ F \cap {"made", "sent", "givenUp", "lost"} = {}
                       /\ Counts(n.job, n.mail, F)
                       /\ Spends \/ (Saves /\ "mailed" \notin F)
    BY <1>8 DEF Books, One, Affordable
  <1>9. CASE Moved(n.job, n.mail, 1) /\ Counts(n.job, n.mail, {"made"}) /\ Spends
    BY <1>9 DEF Books, One, Affordable
  <1>10. CASE /\ Moved(n.job, n.mail, -1)
              /\ \/ Counts(n.job, n.mail, {"mailed", "sent"})
                 \/ Counts(n.job, n.mail, {"givenUp"})
                 \/ Counts(n.job, n.mail, {"lost"})
              /\ Saves \/ Spends
    BY <1>10 DEF Books, One, Affordable
  <1>11. CASE Moved(n.job, n.mail, -1) /\ Counts(n.job, n.mail, {"lost", "mailed"}) /\ Spends
    BY <1>11 DEF Books, One, Affordable
  <1> QED BY <1>7, <1>8, <1>9, <1>10, <1>11

LEMMA PlacesStep == Inv /\ BoundsOK /\ Places /\ [Next]_vars => Places'
PROOF
  <1> SUFFICES ASSUME JobsOK, TallyTypes, QueuedTypes, BoundsOK, Places, [Next]_vars PROVE Places'
    BY DEF Inv, Parts
  <1>1. CASE queued' = queued /\ tally' = tally
    BY <1>1 DEF Places, Accounted
  <1>2. ASSUME NEW j \in Job, left[j] # << >>, Add(j)
        PROVE  Places'
    <2> DEFINE n == Fresh(j, Head(left[j]), 0)
    <2>1. Head(left[j]) \in Mail
      BY <1>2, RemainingFacts DEF JobsOK, JobOK
    <2>2. n.job = j /\ n.mail = Head(left[j]) /\ queued' = queued (+) Put(n)
      BY <1>2 DEF Add, Fresh
    <2>3. Counts(j, Head(left[j]), {"made"})
      BY <1>2, <2>1, Counted DEF Add
    <2> HIDE DEF n
    <2>4. Moved(j, Head(left[j]), 1)
      BY <2>2, AddedMoves DEF QueuedTypes
    <2>5. Books(j, Head(left[j]), {"made"})
      BY <2>3, <2>4 DEF Books, One
    <2> QED BY <2>5, BooksPreserve
  <1>3. ASSUME NEW n \in BagToSet(queued),
               \/ MailStep(n) \/ SendFails(n) \/ SendStalls(n) \/ SendStallsAgain(n)
               \/ OnFailedFails(n) \/ ReprocessFails(n) \/ ReprocessStalls(n) \/ ReprocessStallsAgain(n)
        PROVE  Places'
    BY <1>3, MailBooks, BooksPreserve
  <1>4. \A j \in Job : Publish(j) \/ JobStep(j) \/ AddFails(j) \/ Stall(j) =>
          \/ queued' = queued /\ tally' = tally
          \/ left[j] # << >> /\ Add(j)
    BY DEF Publish, JobStep, Process, AddNotification, Complete, AddFails, Stall
  <1> QED BY <1>1, <1>2, <1>3, <1>4 DEF Next, Work, vars

\* Every notification job that was made is in the queues once or has ended
\* once, however often workers stop: moves between the queues, retries, rounds
\* through the dead-letter queue and jobs failed for stalling twice neither drop
\* nor fork one, but the dead letter processed twice, which is counted as made.
THEOREM InOnePlaceHolds == Spec => []InOnePlace
PROOF
  <1>1. Init => Places
    <2>1. ASSUME Init, NEW j \in Job, NEW m \in Mail
          PROVE  Accounted(j, m)
      <3>1. Held(queued, {j}, m) = {}
        BY <2>1 DEF Init, Held, EmptyBag, SetToBag
      <3>2. IsFiniteSet(Held(queued, {j}, m)) /\ Cardinality(Held(queued, {j}, m)) = 0
        BY <3>1, FS_EmptySet
      <3> QED BY <2>1, <3>2 DEF Accounted, Init, Zero
    <2> QED BY <2>1 DEF Places
  <1>2. Inv /\ Places => InOnePlace
    <2>1. ASSUME Inv, Places, NEW j \in Job, NEW m \in Mail
          PROVE  tally[j][m].made =
                   Cardinality(Copies({n \in BagToSet(queued) : n.job = j /\ n.mail = m}))
                     + tally[j][m].sent + tally[j][m].givenUp + tally[j][m].lost
      <3>1. Bag(queued) /\ DOMAIN queued \subseteq Notification
        BY <2>1 DEF Inv, Parts, QueuedTypes
      <3>2. Accounted(j, m)
        BY <2>1 DEF Places
      <3> QED BY <3>1, <3>2, HeldAreCopies DEF Accounted
    <2> QED BY <2>1 DEF InOnePlace
  <1> QED BY <1>1, <1>2, PlacesStep, Invariant, PTL DEF Spec

-----------------------------------------------------------------------------
(* How many emails some of the jobs can lead to.                           *)
\* The emails m that were sent for the jobs of J, one by one.
Delivered(t, J, m) == UNION {{j} \X (1..t[j][m].mailed) : j \in J}

\* The job has still to add the notification m.
ToAdd(j, m) ==
  \/ state[j] = "waiting" /\ m \in Elements(MailsOf(NameOf[j]))
  \/ state[j] = "active" /\ m \in Elements(left[j])

Adding(J, m) == {j \in J : ToAdd(j, m)}
Published(J) == {j \in J : state[j] # "absent"}

\* The emails that were sent and the ones that may yet be sent are no more than
\* the jobs and what went wrong.
Covered(J, m) ==
  /\ IsFiniteSet(Held(queued, J, m)) /\ IsFiniteSet(Delivered(tally, J, m))
  /\ Cardinality(Adding(J, m)) + Cardinality(Held(queued, J, m)) + Cardinality(Delivered(tally, J, m))
       <= Cardinality(Published(J)) + faults + stops

AllCovered == \A J \in SUBSET Job, m \in Mail : IsFiniteSet(J) => Covered(J, m)

\* Two sets that differ in one element at most.
LEMMA OneChanges ==
  ASSUME NEW S, IsFiniteSet(S), NEW T, NEW j, \A x : x # j => (x \in T <=> x \in S)
  PROVE  /\ IsFiniteSet(T)
         /\ Cardinality(T) = Cardinality(S) - (IF j \in S THEN 1 ELSE 0) + (IF j \in T THEN 1 ELSE 0)
PROOF
  <1> DEFINE U == S \ {j}
  <1>1. /\ IsFiniteSet(U) /\ Cardinality(S) \in Nat
        /\ Cardinality(U) = Cardinality(S) - (IF j \in S THEN 1 ELSE 0)
    BY FS_RemoveElement, FS_CardinalityType
  <1>2. j \notin U /\ T = IF j \in T THEN U \cup {j} ELSE U
    OBVIOUS
  <1> HIDE DEF U
  <1>3. IsFiniteSet(U \cup {j}) /\ Cardinality(U \cup {j}) = Cardinality(U) + 1
    BY <1>1, <1>2, FS_AddElement
  <1>4. Cardinality(U) \in Nat
    BY <1>1, FS_CardinalityType
  <1>5. CASE j \in T
    BY <1>1, <1>2, <1>3, <1>4, <1>5
  <1>6. CASE j \notin T
    BY <1>1, <1>2, <1>4, <1>6
  <1> QED BY <1>5, <1>6

LEMMA DeliveredPairs ==
  ASSUME NEW t, NEW J, NEW m
  PROVE  /\ \A k, i : <<k, i>> \in Delivered(t, J, m) <=> k \in J /\ i \in 1..t[k][m].mailed
         /\ \A u \in Delivered(t, J, m) : \E k, i : u = <<k, i>>
PROOF
  <1>1. ASSUME NEW k, NEW i
        PROVE  <<k, i>> \in Delivered(t, J, m) <=> k \in J /\ i \in 1..t[k][m].mailed
    <2>1. ASSUME <<k, i>> \in Delivered(t, J, m)
          PROVE  k \in J /\ i \in 1..t[k][m].mailed
      <3>1. PICK j \in J : <<k, i>> \in {j} \X (1..t[j][m].mailed)
        BY <2>1 DEF Delivered
      <3>2. k = j
        BY <3>1
      <3> QED BY <3>1, <3>2
    <2>2. ASSUME k \in J, i \in 1..t[k][m].mailed
          PROVE  <<k, i>> \in Delivered(t, J, m)
      <3>1. <<k, i>> \in {k} \X (1..t[k][m].mailed)
        BY <2>2
      <3> QED BY <2>2, <3>1 DEF Delivered
    <2> QED BY <2>1, <2>2
  <1>2. ASSUME NEW u \in Delivered(t, J, m)
        PROVE  \E k, i : u = <<k, i>>
    <2>1. PICK j \in J : u \in {j} \X (1..t[j][m].mailed)
      BY DEF Delivered
    <2> QED BY <2>1
  <1> QED BY <1>1, <1>2

LEMMA DeliveredCounts ==
  ASSUME TallyTypes, NEW j, NEW m, NEW F, Counts(j, m, F),
         NEW K \in SUBSET Job, NEW l \in Mail, IsFiniteSet(Delivered(tally, K, l))
  PROVE  /\ IsFiniteSet(Delivered(tally', K, l))
         /\ Cardinality(Delivered(tally', K, l)) =
              Cardinality(Delivered(tally, K, l)) + IF j \in K /\ l = m THEN One(F, "mailed") ELSE 0
PROOF
  <1> DEFINE S == Delivered(tally, K, l)
             T == Delivered(tally', K, l)
             next == tally[j][l].mailed + 1
             More == j \in K /\ l = m /\ "mailed" \in F
  <1>1. /\ \A k, i : <<k, i>> \in S <=> k \in K /\ i \in 1..tally[k][l].mailed
        /\ \A k, i : <<k, i>> \in T <=> k \in K /\ i \in 1..tally'[k][l].mailed
        /\ \A u \in S \cup T : \E k, i : u = <<k, i>>
    BY DeliveredPairs
  <1>2. \A k \in K : /\ tally[k][l].mailed \in Nat
                     /\ tally'[k][l].mailed =
                          IF More /\ k = j THEN tally[k][l].mailed + 1 ELSE tally[k][l].mailed
    BY FieldsOfTally DEF Counts, TallyTypes, Fields
  <1>3. One(F, "mailed") = IF "mailed" \in F THEN 1 ELSE 0
    BY DEF One
  <1>4. IsFiniteSet(S)
    OBVIOUS
  <1>5. <<j, next>> \notin S
    <2>1. ASSUME <<j, next>> \in S PROVE FALSE
      <3>1. j \in K /\ next \in 1..tally[j][l].mailed /\ tally[j][l].mailed \in Nat
        BY <1>1, <1>2, <2>1
      <3> QED BY <3>1
    <2> QED BY <2>1
  <1> HIDE DEF S, T
  <1>6. CASE More
    <2>1. ASSUME NEW k, NEW i
          PROVE  <<k, i>> \in T <=> <<k, i>> \in S \/ (k = j /\ i = next)
      BY <1>1, <1>2, <1>6
    <2> HIDE DEF next
    <2> DEFINE p == <<j, next>>
    <2>2. \A x : x # p => (x \in T <=> x \in S)
      BY <1>1, <2>1
    <2>3. p \in T /\ p \notin S
      BY <1>5, <2>1
    <2> HIDE DEF p
    <2>4. /\ IsFiniteSet(T)
          /\ Cardinality(T) = Cardinality(S) - (IF p \in S THEN 1 ELSE 0) + (IF p \in T THEN 1 ELSE 0)
      BY <1>4, <2>2, OneChanges
    <2>5. Cardinality(S) \in Nat
      BY <1>4, FS_CardinalityType
    <2>6. IsFiniteSet(T) /\ Cardinality(T) = Cardinality(S) + 1
      BY <2>3, <2>4, <2>5
    <2> QED BY <1>3, <1>6, <2>6 DEF S, T
  <1>7. CASE ~More
    <2>1. ASSUME NEW k, NEW i
          PROVE  <<k, i>> \in T <=> <<k, i>> \in S
      BY <1>1, <1>2, <1>7
    <2>2. T = S
      <3>1. \A u \in T : u \in S
        BY <1>1, <2>1
      <3>2. \A u \in S : u \in T
        BY <1>1, <2>1
      <3> QED BY <3>1, <3>2
    <2> QED BY <1>3, <1>4, <1>7, <2>2, FS_CardinalityType DEF S, T
  <1> QED BY <1>6, <1>7

\* An attempt adds no notification twice.
LEMMA HeadIsOnce ==
  ASSUME NEW j \in Job, NEW s \in Remaining(NameOf[j]), s # << >>
  PROVE  Head(s) \notin Elements(Tail(s))
PROOF
  <1>1. CASE s = <<"TransferSent", "TransferReceived">>
    BY <1>1, OneElement, TwoElements
  <1>2. CASE s = <<"TransferReceived">> \/ s = <<NameOf[j]>>
    BY <1>2, OneElement
  <1> QED BY <1>1, <1>2 DEF Remaining

Quiet == queued' = queued /\ tally' = tally

\* What a step of one of the domain-events jobs can do.
Begins(j) == Quiet /\ Saves /\ state[j] = "absent"

Adds(j, m) ==
  /\ Moved(j, m, 1) /\ Counts(j, m, {"made"})
  /\ ToAdd(j, m)
  /\ \/ /\ Saves
        /\ ~ToAdd(j, m)'
        /\ \A l \in Mail : ToAdd(j, l)' => ToAdd(j, l)
     \/ Spends

OnlyJob(j) ==
  /\ \A k \in Job : k # j => state'[k] = state[k] /\ left'[k] = left[k]
  /\ state'[j] # "absent"

LEMMA JobCosts ==
  ASSUME JobsOK, TallyTypes, QueuedTypes, BoundsOK, NEW j \in Job,
         \/ Publish(j) \/ JobStep(j) \/ AddFails(j) \/ Stall(j)
  PROVE  /\ OnlyJob(j)
         /\ \/ Begins(j)
            \/ /\ state[j] # "absent"
               /\ \/ Quiet /\ Saves /\ \A l \in Mail : ToAdd(j, l)' => ToAdd(j, l)
                  \/ Quiet /\ Spends
                  \/ \E m \in Mail : Adds(j, m)
PROOF
  <1>0. /\ JobOK(j) /\ JobTypes
        /\ Fault \/ Stop => Spends
    BY Spending DEF JobsOK
  <1>1. ASSUME Add(j), left[j] # << >>, state[j] = "active"
        PROVE  /\ Head(left[j]) \in Mail
               /\ Moved(j, Head(left[j]), 1) /\ Counts(j, Head(left[j]), {"made"})
               /\ ToAdd(j, Head(left[j]))
    <2> DEFINE h == Head(left[j])
               n == Fresh(j, h, 0)
    <2>1. h \in Mail /\ h \in Elements(left[j])
      BY <1>0, <1>1, RemainingFacts DEF JobOK
    <2>2. n.job = j /\ n.mail = h /\ queued' = queued (+) Put(n)
      BY <1>1 DEF Add, Fresh
    <2>3. Counts(j, h, {"made"})
      BY <1>1, <2>1, Counted DEF Add
    <2> HIDE DEF n
    <2>4. Moved(j, h, 1)
      BY <2>2, AddedMoves DEF QueuedTypes
    <2> QED BY <1>1, <2>1, <2>3, <2>4 DEF ToAdd
  <1>2. CASE Publish(j)
    BY <1>0, <1>2 DEF Publish, JobTypes, OnlyJob, Begins, Quiet, Saves
  <1>3. CASE Process(j)
    <2>1. OnlyJob(j) /\ Quiet /\ Saves /\ state[j] = "waiting"
      BY <1>0, <1>3 DEF Process, JobTypes, OnlyJob, Quiet, Saves
    <2>2. state'[j] = "active" /\ left'[j] = MailsOf(NameOf[j])
      BY <1>0, <1>3 DEF Process, JobTypes
    <2>3. \A l \in Mail : ToAdd(j, l)' => ToAdd(j, l)
      BY <2>1, <2>2 DEF ToAdd
    <2> QED BY <2>1, <2>3
  <1>4. CASE AddNotification(j)
    <2>1. /\ OnlyJob(j) /\ Saves /\ state[j] = "active" /\ state'[j] = "active"
          /\ Add(j) /\ left[j] # << >> /\ left'[j] = Tail(left[j])
      BY <1>0, <1>4 DEF AddNotification, JobTypes, OnlyJob, Saves
    <2>2. PICK h \in Mail : h = Head(left[j])
      BY <1>1, <2>1
    <2>3. h \notin Elements(Tail(left[j])) /\ Elements(Tail(left[j])) \subseteq Elements(left[j])
      BY <1>0, <2>1, <2>2, HeadIsOnce, RemainingFacts DEF JobOK
    <2>4. ~ToAdd(j, h)' /\ \A l \in Mail : ToAdd(j, l)' => ToAdd(j, l)
      BY <2>1, <2>3 DEF ToAdd
    <2>5. Adds(j, h)
      BY <1>1, <2>1, <2>2, <2>4 DEF Adds
    <2> QED BY <2>1, <2>5
  <1>5. CASE Complete(j)
    <2>1. OnlyJob(j) /\ Quiet /\ Saves /\ state[j] = "active" /\ state'[j] = "completed"
      BY <1>0, <1>5 DEF Complete, JobTypes, OnlyJob, Quiet, Saves
    <2>2. \A l \in Mail : ~ToAdd(j, l)'
      BY <2>1 DEF ToAdd
    <2> QED BY <2>1, <2>2
  <1>6. CASE AddFails(j)
    <2>1. /\ OnlyJob(j) /\ state[j] = "active" /\ left[j] # << >>
          /\ Add(j) \/ UNCHANGED <<queued, tally>>
      BY <1>0, <1>6 DEF AddFails, Retries, JobTypes, OnlyJob
    <2>2. Spends
      BY <1>0, <1>6 DEF AddFails
    <2>3. ASSUME Add(j)
          PROVE  \E m \in Mail : Adds(j, m)
      <3>1. PICK h \in Mail : h = Head(left[j])
        BY <1>1, <2>1, <2>3
      <3>2. Adds(j, h)
        BY <1>1, <2>1, <2>2, <2>3, <3>1 DEF Adds
      <3> QED BY <3>2
    <2> QED BY <2>1, <2>2, <2>3 DEF Quiet
  <1>7. CASE Stall(j)
    BY <1>0, <1>7 DEF Stall, JobTypes, OnlyJob, Quiet
  <1> QED BY <1>2, <1>3, <1>4, <1>5, <1>6, <1>7 DEF JobStep

LEMMA MailStepCovered ==
  ASSUME TallyTypes, BoundsOK, BoundsOK', NEW n, NEW F, Books(n.job, n.mail, F), Affordable(F),
         state' = state, left' = left,
         NEW K \in SUBSET Job, NEW l \in Mail, IsFiniteSet(K), Covered(K, l)
  PROVE  Covered(K, l)'
PROOF
  <1> DEFINE H == Cardinality(Held(queued, K, l))
             D == Cardinality(Delivered(tally, K, l))
             A == Cardinality(Adding(K, l))
             P == Cardinality(Published(K))
             mine == n.job \in K /\ l = n.mail
             h == IF mine THEN One(F, "made") - One(F, "sent") - One(F, "givenUp") - One(F, "lost") ELSE 0
             d == IF mine THEN One(F, "mailed") ELSE 0
  <1>1. IsFiniteSet(Adding(K, l)) /\ IsFiniteSet(Published(K))
    BY FS_Subset DEF Adding, Published
  <1>2. /\ H \in Nat /\ D \in Nat /\ A \in Nat /\ P \in Nat
        /\ A + H + D <= P + faults + stops
    BY <1>1, FS_CardinalityType DEF Covered
  <1>3. IsFiniteSet(Held(queued', K, l)) /\ Cardinality(Held(queued', K, l)) = H + h
    BY DEF Covered, Books, Moved
  <1>4. IsFiniteSet(Delivered(tally', K, l)) /\ Cardinality(Delivered(tally', K, l)) = D + d
    BY DeliveredCounts DEF Covered, Books
  <1>5. Cardinality(Adding(K, l))' = A /\ Cardinality(Published(K))' = P
    BY DEF Adding, Published, ToAdd
  <1>6. /\ h \in Int /\ d \in Nat
        /\ (Saves /\ h + d <= 0) \/ (Spends /\ h + d <= 1)
    BY DEF Affordable, One
  <1>7. faults \in Nat /\ stops \in Nat /\ faults' \in Nat /\ stops' \in Nat
    BY BoundsAssumption DEF BoundsOK
  <1> HIDE DEF H, D, A, P, h, d, mine
  <1>8. CASE Saves /\ h + d <= 0
    <2>1. A + (H + h) + (D + d) <= P + faults' + stops'
      BY <1>2, <1>6, <1>7, <1>8 DEF Saves
    <2> QED BY <1>3, <1>4, <1>5, <2>1 DEF Covered
  <1>9. CASE Spends /\ h + d <= 1
    <2>1. A + (H + h) + (D + d) <= P + (faults + stops + 1)
      BY <1>2, <1>6, <1>7, <1>9
    <2>2. faults' + stops' = faults + stops + 1
      BY <1>9 DEF Spends
    <2>3. A + (H + h) + (D + d) <= P + faults' + stops'
      <3>1. P + faults' + stops' = P + (faults' + stops')
        BY <1>2, <1>7
      <3> QED BY <2>1, <2>2, <3>1
    <2> QED BY <1>3, <1>4, <1>5, <2>3 DEF Covered
  <1> QED BY <1>6, <1>8, <1>9

LEMMA JobStepCovered ==
  ASSUME TallyTypes, BoundsOK, BoundsOK', NEW j \in Job, OnlyJob(j),
         \/ Begins(j)
         \/ /\ state[j] # "absent"
            /\ \/ Quiet /\ Saves /\ \A l \in Mail : ToAdd(j, l)' => ToAdd(j, l)
               \/ Quiet /\ Spends
               \/ \E m \in Mail : Adds(j, m),
         NEW K \in SUBSET Job, NEW l \in Mail, IsFiniteSet(K), Covered(K, l)
  PROVE  Covered(K, l)'
PROOF
  <1> DEFINE H == Cardinality(Held(queued, K, l))
             D == Cardinality(Delivered(tally, K, l))
             S == Adding(K, l)
             T == Published(K)
             A == Cardinality(S)
             P == Cardinality(T)
             a == IF j \in K THEN (IF ToAdd(j, l)' THEN 1 ELSE 0) - (IF ToAdd(j, l) THEN 1 ELSE 0) ELSE 0
             p == IF j \in K /\ state[j] = "absent" THEN 1 ELSE 0
  <1>1. IsFiniteSet(S) /\ IsFiniteSet(T)
    BY FS_Subset DEF Adding, Published
  <1>2. /\ H \in Nat /\ D \in Nat /\ A \in Nat /\ P \in Nat
        /\ A + H + D <= P + faults + stops
    BY <1>1, FS_CardinalityType DEF Covered
  <1>3. /\ \A x : x # j => (x \in S' <=> x \in S)
        /\ \A x : x # j => (x \in T' <=> x \in T)
        /\ j \in S <=> j \in K /\ ToAdd(j, l)
        /\ j \in S' <=> j \in K /\ ToAdd(j, l)'
        /\ j \in T <=> j \in K /\ state[j] # "absent"
        /\ j \in T' <=> j \in K
    BY DEF OnlyJob, Adding, Published, ToAdd
  <1>4. A' = A + a
    <2> DEFINE U == S'
    <2> HIDE DEF S
    <2>1. \A x : x # j => (x \in U <=> x \in S)
      BY <1>3
    <2> HIDE DEF U
    <2>2. Cardinality(U) = A - (IF j \in S THEN 1 ELSE 0) + (IF j \in U THEN 1 ELSE 0)
      BY <1>1, <2>1, OneChanges
    <2>3. j \in U <=> j \in K /\ ToAdd(j, l)'
      BY <1>3 DEF U
    <2>4. Cardinality(U) = A + a
      BY <1>2, <1>3, <2>2, <2>3
    <2> QED BY <2>4 DEF U
  <1>5. P' = P + p
    <2> DEFINE U == T'
    <2> HIDE DEF T
    <2>1. \A x : x # j => (x \in U <=> x \in T)
      BY <1>3
    <2> HIDE DEF U
    <2>2. Cardinality(U) = P - (IF j \in T THEN 1 ELSE 0) + (IF j \in U THEN 1 ELSE 0)
      BY <1>1, <2>1, OneChanges
    <2>3. j \in U <=> j \in K
      BY <1>3 DEF U
    <2>4. Cardinality(U) = P + p
      BY <1>2, <1>3, <2>2, <2>3
    <2> QED BY <2>4 DEF U
  <1>6. PICK h \in {0, 1} :
          /\ IsFiniteSet(Held(queued', K, l)) /\ Cardinality(Held(queued', K, l)) = H + h
          /\ IsFiniteSet(Delivered(tally', K, l)) /\ Cardinality(Delivered(tally', K, l)) = D
          /\ (Saves /\ a + h <= p) \/ (Spends /\ a + h <= p + 1)
    <2>1. /\ IsFiniteSet(Held(queued, K, l)) /\ IsFiniteSet(Delivered(tally, K, l))
          /\ H = H + 0
      BY <1>2 DEF Covered
    <2>2. CASE Begins(j) \/ (Quiet /\ Saves /\ \A m \in Mail : ToAdd(j, m)' => ToAdd(j, m))
      <3>1. Quiet /\ Saves /\ a <= p
        BY <2>2 DEF Begins
      <3> QED BY <2>1, <3>1 DEF Quiet
    <2>3. CASE Quiet /\ Spends
      <3>1. a <= p + 1
        OBVIOUS
      <3> QED BY <2>1, <2>3, <3>1 DEF Quiet
    <2>4. ASSUME NEW m \in Mail, Adds(j, m)
          PROVE  \E h \in {0, 1} :
                   /\ IsFiniteSet(Held(queued', K, l)) /\ Cardinality(Held(queued', K, l)) = H + h
                   /\ IsFiniteSet(Delivered(tally', K, l)) /\ Cardinality(Delivered(tally', K, l)) = D
                   /\ (Saves /\ a + h <= p) \/ (Spends /\ a + h <= p + 1)
      <3> DEFINE h == IF j \in K /\ l = m THEN 1 ELSE 0
      <3>1. IsFiniteSet(Held(queued', K, l)) /\ Cardinality(Held(queued', K, l)) = H + h
        BY <2>1, <2>4 DEF Adds, Moved
      <3>2. /\ IsFiniteSet(Delivered(tally', K, l))
            /\ Cardinality(Delivered(tally', K, l)) =
                 D + IF j \in K /\ l = m THEN One({"made"}, "mailed") ELSE 0
        BY <2>1, <2>4, DeliveredCounts DEF Adds
      <3>3. Cardinality(Delivered(tally', K, l)) = D
        BY <1>2, <3>2 DEF One
      <3>4. (Saves /\ a + h <= p) \/ (Spends /\ a + h <= p + 1)
        BY <2>4 DEF Adds
      <3>5. h \in {0, 1}
        OBVIOUS
      <3> HIDE DEF h
      <3> QED BY <3>1, <3>2, <3>3, <3>4, <3>5
    <2> QED BY <2>2, <2>3, <2>4
  <1>7. /\ faults \in Nat /\ stops \in Nat /\ faults' \in Nat /\ stops' \in Nat
        /\ a \in {-1, 0, 1} /\ p \in {0, 1}
    BY BoundsAssumption DEF BoundsOK
  <1> HIDE DEF H, D, A, P, a, p
  <1>8. (A + a) + (H + h) + D <= (P + p) + faults' + stops'
    <2>1. CASE Saves /\ a + h <= p
      BY <1>2, <1>6, <1>7, <2>1 DEF Saves
    <2>2. CASE Spends /\ a + h <= p + 1
      <3>1. (A + a) + (H + h) + D <= (P + p) + (faults + stops + 1)
        BY <1>2, <1>6, <1>7, <2>2
      <3>2. (P + p) + faults' + stops' = (P + p) + (faults' + stops')
        BY <1>2, <1>7
      <3> QED BY <2>2, <3>1, <3>2 DEF Spends
    <2> QED BY <1>6, <2>1, <2>2
  <1> QED BY <1>4, <1>5, <1>6, <1>8 DEF Covered, A, P

LEMMA CoveredStep == Inv /\ BoundsOK /\ AllCovered /\ [Next]_vars => AllCovered'
PROOF
  <1> SUFFICES ASSUME Inv, BoundsOK, AllCovered, [Next]_vars,
                      NEW K \in SUBSET Job, NEW l \in Mail, IsFiniteSet(K)
               PROVE  Covered(K, l)'
    BY DEF AllCovered
  <1>0. JobsOK /\ TallyTypes /\ QueuedTypes /\ Covered(K, l) /\ BoundsOK'
    BY BoundsStep DEF Inv, Parts, AllCovered
  <1>1. CASE UNCHANGED vars
    BY <1>0, <1>1 DEF vars, Covered, Adding, ToAdd, Published
  <1>2. ASSUME NEW j \in Job, Publish(j) \/ JobStep(j) \/ AddFails(j) \/ Stall(j)
        PROVE  Covered(K, l)'
    BY <1>0, <1>2, JobCosts, JobStepCovered
  <1>3. ASSUME NEW n \in BagToSet(queued),
               \/ MailStep(n) \/ SendFails(n) \/ SendStalls(n) \/ SendStallsAgain(n)
               \/ OnFailedFails(n) \/ ReprocessFails(n) \/ ReprocessStalls(n) \/ ReprocessStallsAgain(n)
        PROVE  Covered(K, l)'
    <2>1. PICK F : Books(n.job, n.mail, F) /\ Affordable(F)
      BY <1>0, <1>3, MailBooks
    <2>2. state' = state /\ left' = left
      BY <1>3 DEF MailStep, Take, Send, SendFails, SendStalls, SendStallsAgain, OnFailed, OnFailedFails,
         GiveUp, Reprocess, ReprocessFails, ReprocessStalls, ReprocessStallsAgain
    <2> QED BY <1>0, <2>1, <2>2, MailStepCovered
  <1> QED BY <1>1, <1>2, <1>3 DEF Next, Work

LEMMA OpeningCovered == Init => AllCovered
PROOF
  <1> SUFFICES ASSUME Init, NEW K \in SUBSET Job, NEW l \in Mail PROVE Covered(K, l)
    BY DEF AllCovered
  <1>1. Held(queued, K, l) = {} /\ Adding(K, l) = {} /\ Published(K) = {}
    BY DEF Init, Held, EmptyBag, SetToBag, Adding, ToAdd, Published
  <1>2. \A j \in K : tally[j][l].mailed = 0
    BY DEF Init, Zero
  <1>3. Delivered(tally, K, l) = {}
    BY <1>2, DeliveredPairs
  <1>4. faults = 0 /\ stops = 0
    BY DEF Init
  <1> QED BY <1>1, <1>3, <1>4, FS_EmptySet DEF Covered

\* However the failures of the two queues and of the dead letters fall
\* together, and however often workers stop, each of them sends an email at most once more.
LEMMA MailsAreCovered ==
  ASSUME BoundsOK, AllCovered, NEW K \in SUBSET Job, NEW l \in Mail, IsFiniteSet(K)
  PROVE  /\ IsFiniteSet(Delivered(tally, K, l))
         /\ Cardinality(Delivered(tally, K, l)) <= Cardinality(Published(K)) + faults + stops
PROOF
  <1>1. Covered(K, l)
    BY DEF AllCovered
  <1>2. IsFiniteSet(Adding(K, l)) /\ IsFiniteSet(Published(K))
    BY FS_Subset DEF Adding, Published
  <1>3. /\ Cardinality(Adding(K, l)) \in Nat /\ Cardinality(Published(K)) \in Nat
        /\ Cardinality(Held(queued, K, l)) \in Nat /\ Cardinality(Delivered(tally, K, l)) \in Nat
    BY <1>1, <1>2, FS_CardinalityType DEF Covered
  <1>4. faults \in Nat /\ stops \in Nat
    BY BoundsAssumption DEF BoundsOK
  <1> QED BY <1>1, <1>3, <1>4 DEF Covered

LEMMA CoveredHolds == Spec => [](BoundsOK /\ AllCovered)
PROOF
  BY OpeningCovered, CoveredStep, Invariant, PTL DEF Spec
=============================================================================
