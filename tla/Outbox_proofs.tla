---------------------------- MODULE Outbox_proofs ----------------------------
(***************************************************************************)
(* Proofs about the outbox publisher, for any number of rows, servers and  *)
(* overlapping calls and any number of failures.                           *)
(***************************************************************************)
EXTENDS Outbox, FiniteSetTheorems, TLAPS

-----------------------------------------------------------------------------
(* The rows and their order.                                               *)
\* No two rows were created at once, and the next one comes last.
Ordered ==
  /\ \A e \in Event : created[e] <= Cardinality(Rows)
  /\ \A e, f \in Rows : created[e] = created[f] => e = f

LEMMA RowsFinite == IsFiniteSet(Rows) /\ Cardinality(Rows) \in Nat
PROOF
  BY EventsAssumption, FS_Subset, FS_CardinalityType DEF Rows

\* findUnprocessed returns rows it was asked to choose from, and the oldest one
\* is one row.
LEMMA OldestIsIn == ASSUME NEW R, NEW n PROVE Oldest(R, n) \subseteq R
PROOF
  BY DEF Oldest

LEMMA OldestIsOne ==
  ASSUME TypeOK, Ordered, NEW R \in SUBSET Rows, NEW e \in Oldest(R, 1), NEW f \in Oldest(R, 1)
  PROVE  e = f
PROOF
  <1>1. ASSUME NEW x \in Oldest(R, 1), NEW y \in R
        PROVE  ~(created[y] < created[x])
    <2> DEFINE Older == {z \in R : created[z] < created[x]}
    <2>1. IsFiniteSet(Older) /\ Cardinality(Older) < 1
      BY <1>1, RowsFinite, FS_Subset DEF Oldest
    <2>2. Cardinality(Older) = 0
      BY <2>1, FS_CardinalityType
    <2>3. Older = {}
      BY <2>1, <2>2, FS_EmptySet
    <2> QED BY <2>3
  <1>2. e \in R /\ f \in R
    BY OldestIsIn
  <1>3. created[e] \in Nat /\ created[f] \in Nat
    BY <1>2 DEF Rows, TypeOK
  <1>4. created[e] = created[f]
    BY <1>1, <1>2, <1>3
  <1> QED BY <1>2, <1>4 DEF Ordered

\* The rows a transaction has saved stay as they are, in their order.
LEMMA RowsStay ==
  ASSUME TypeOK, [Next]_vars
  PROVE  /\ Rows \subseteq Rows'
         /\ \A e \in Rows : created'[e] = created[e]
PROOF
  <1>1. ASSUME NEW e \in Event, Save(e)
        PROVE  Rows \subseteq Rows' /\ \A f \in Rows : created'[f] = created[f]
    BY <1>1, RowsFinite DEF Save, Rows, TypeOK
  <1>2. CASE created' = created
    BY <1>2 DEF Rows
  <1>3. (\E e \in Event : Save(e)) \/ created' = created
    BY DEF Next, vars, Start, Continue, FindUnprocessed, Add, MarkProcessed, MarkFailedAttempt,
           CallAborts, AddFails, MarkProcessedFails, Restart
  <1> QED BY <1>1, <1>2, <1>3

LEMMA OrderedStep == TypeOK /\ Ordered /\ [Next]_vars => Ordered'
PROOF
  <1> SUFFICES ASSUME TypeOK, Ordered, [Next]_vars PROVE Ordered'
    OBVIOUS
  <1>1. ASSUME NEW e \in Event, Save(e)
        PROVE  Ordered'
    <2>1. Rows' = Rows \cup {e} /\ e \notin Rows
      <3>1. Cardinality(Rows) + 1 > 0
        BY RowsFinite
      <3>2. created' = [created EXCEPT ![e] = Cardinality(Rows) + 1] /\ created[e] = 0
        BY <1>1 DEF Save
      <3>3. \A f \in Event : created'[f] = IF f = e THEN Cardinality(Rows) + 1 ELSE created[f]
        BY <3>2 DEF TypeOK
      <3> QED BY <3>1, <3>2, <3>3 DEF Rows
    <2>2. Cardinality(Rows)' = Cardinality(Rows) + 1 /\ Cardinality(Rows) \in Nat
      BY <2>1, RowsFinite, FS_AddElement
    <2>3. created' = [created EXCEPT ![e] = Cardinality(Rows) + 1] /\ created \in [Event -> Nat]
      BY <1>1 DEF Save, TypeOK
    <2>4. \A f \in Event : created'[f] = IF f = e THEN Cardinality(Rows) + 1 ELSE created[f]
      BY <2>3
    <2>5. \A f \in Event : created[f] <= Cardinality(Rows) /\ created[f] \in Nat
      BY <2>3 DEF Ordered
    <2>6. \A f \in Event : created'[f] <= Cardinality(Rows)'
      BY <2>2, <2>4, <2>5
    <2>7. ASSUME NEW f \in Rows', NEW g \in Rows', created'[f] = created'[g]
          PROVE  f = g
      <3>1. f \in Event /\ g \in Event
        BY DEF Rows
      <3>2. CASE f # e /\ g # e
        BY <2>1, <2>4, <2>7, <3>1, <3>2 DEF Ordered
      <3>3. CASE f = e /\ g # e
        BY <2>2, <2>4, <2>5, <2>7, <3>1, <3>3
      <3>4. CASE f # e /\ g = e
        BY <2>2, <2>4, <2>5, <2>7, <3>1, <3>4
      <3> QED BY <3>2, <3>3, <3>4
    <2> QED BY <2>6, <2>7 DEF Ordered
  <1>2. CASE created' = created
    BY <1>2 DEF Ordered, Rows
  <1>3. (\E e \in Event : Save(e)) \/ created' = created
    BY DEF Next, vars, Start, Continue, FindUnprocessed, Add, MarkProcessed, MarkFailedAttempt,
           CallAborts, AddFails, MarkProcessedFails, Restart
  <1> QED BY <1>1, <1>2, <1>3

\* While a call works on rows it has read, a new row does not change which of
\* them is next.
LEMMA CurrentStays ==
  ASSUME TypeOK, [Next]_vars, NEW p \in Run, batch'[p] = batch[p], NEW e
  PROVE  Current(p, e)' <=> Current(p, e)
PROOF
  <1>1. batch[p] \subseteq Rows
    BY DEF TypeOK
  <1>2. \A f \in batch[p] : created'[f] = created[f]
    BY <1>1, RowsStay
  <1>3. \A f \in batch[p] :
          {g \in batch[p] : created'[g] < created'[f]} = {g \in batch[p] : created[g] < created[f]}
    BY <1>2
  <1> QED BY <1>3 DEF Current, Oldest

-----------------------------------------------------------------------------
(* Types.                                                                  *)
LEMMA FaultCounted == TypeOK /\ Fault => faults' \in 0..MaxFaults
PROOF
  BY BoundsAssumption DEF TypeOK, Fault

\* On to the next row, or back to idle: the flag, the step and the batch keep
\* their types.
LEMMA FinishTypes ==
  ASSUME TypeOK, NEW p \in Run, Finish(p)
  PROVE  /\ processing' \in [Server -> BOOLEAN]
         /\ pc' \in [Run -> Steps]
         /\ batch' \in [Run -> SUBSET Rows]
PROOF
  BY ServersAssumption DEF TypeOK, Finish, ResetsFlag, Goto, Steps

LEMMA NextRowTypes ==
  ASSUME TypeOK, NEW p \in Run, NEW e, NextRow(p, e)
  PROVE  /\ processing' \in [Server -> BOOLEAN]
         /\ pc' \in [Run -> Steps]
         /\ batch' \in [Run -> SUBSET Rows]
PROOF
  <1>1. CASE Finish(p)
    BY <1>1, FinishTypes
  <1>2. CASE batch' = [batch EXCEPT ![p] = @ \ {e}] /\ Goto(p, "add") /\ UNCHANGED processing
    BY <1>2 DEF TypeOK, Goto, Steps
  <1> QED BY <1>1, <1>2 DEF NextRow

LEMMA TypesStep == TypeOK /\ [Next]_vars => TypeOK'
PROOF
  <1> SUFFICES ASSUME TypeOK, [Next]_vars PROVE TypeOK'
    OBVIOUS
  <1> USE DEF TypeOK
  <1>1. ASSUME NEW e \in Event, Save(e)
        PROVE  TypeOK'
    <2>1. Rows \subseteq Rows'
      BY RowsStay
    <2>2. created' \in [Event -> Nat]
      BY <1>1, RowsFinite DEF Save
    <2> QED BY <1>1, <2>1, <2>2 DEF Save
  <1>2. ASSUME NEW p \in Run, Start(p)
        PROVE  TypeOK'
    BY <1>2, ServersAssumption DEF Start, Goto, Steps, Rows
  <1>3. ASSUME NEW p \in Run, FindUnprocessed(p)
        PROVE  TypeOK'
    <2>1. Oldest(Unprocessed, Limit) \subseteq Rows
      BY OldestIsIn DEF Unprocessed
    <2>2. CASE Finish(p)
      BY <1>3, <2>2, FinishTypes DEF FindUnprocessed, Rows
    <2>3. CASE ~Finish(p)
      BY <1>3, <2>1, <2>3 DEF FindUnprocessed, Goto, Steps, Rows
    <2> QED BY <2>2, <2>3
  <1>4. ASSUME NEW p \in Run, NEW e \in Event, Add(p, e)
        PROVE  TypeOK'
    BY <1>4 DEF Add, AddJob, Goto, Steps, Rows
  <1>5. ASSUME NEW p \in Run, NEW e \in Event, AddFails(p, e)
        PROVE  TypeOK'
    <2>1. jobs' \in [Event -> Nat]
      BY <1>5 DEF AddFails, AddJob
    <2>2. pc' \in [Run -> Steps]
      BY <1>5 DEF AddFails, Catches, Goto, Steps
    <2>3. faults' \in 0..MaxFaults
      BY <1>5, FaultCounted DEF AddFails
    <2> QED BY <1>5, <2>1, <2>2, <2>3 DEF AddFails, Rows
  <1>6. ASSUME NEW p \in Run, NEW e \in Event, MarkProcessed(p, e)
        PROVE  TypeOK'
    <2>1. e \in Rows
      BY <1>6, OldestIsIn DEF MarkProcessed, Current
    <2> QED BY <1>6, <2>1, NextRowTypes DEF MarkProcessed, Rows
  <1>7. ASSUME NEW p \in Run, NEW e \in Event, MarkProcessedFails(p, e)
        PROVE  TypeOK'
    <2>1. e \in Rows
      BY <1>7, OldestIsIn DEF MarkProcessedFails, Current
    <2>2. processed' \subseteq Rows
      BY <1>7, <2>1 DEF MarkProcessedFails
    <2>3. faults' \in 0..MaxFaults
      BY <1>7, FaultCounted DEF MarkProcessedFails
    <2> QED BY <1>7, <2>2, <2>3 DEF MarkProcessedFails, Goto, Steps, Rows
  <1>8. ASSUME NEW p \in Run, NEW e \in Event, MarkFailedAttempt(p, e)
        PROVE  TypeOK'
    <2>1. retry_count' \in [Event -> Nat]
      BY <1>8 DEF MarkFailedAttempt
    <2> QED BY <1>8, <2>1, NextRowTypes DEF MarkFailedAttempt, Rows
  <1>9. ASSUME NEW p \in Run, CallAborts(p)
        PROVE  TypeOK'
    BY <1>9, FaultCounted, FinishTypes DEF CallAborts, Rows
  <1>10. ASSUME NEW s \in Server, Restart(s)
         PROVE  TypeOK'
    BY <1>10, FaultCounted DEF Restart, Steps, Rows
  <1>11. CASE UNCHANGED vars
    BY <1>11 DEF vars, Rows
  <1> QED BY <1>1, <1>2, <1>3, <1>4, <1>5, <1>6, <1>7, <1>8, <1>9, <1>10, <1>11 DEF Next, Continue

LEMMA OutboxInit == Init => TypeOK /\ Ordered
PROOF
  <1> SUFFICES ASSUME Init PROVE TypeOK /\ Ordered
    OBVIOUS
  <1>1. Rows = {} /\ created = [e \in Event |-> 0]
    BY DEF Init, Rows
  <1>2. Ordered
    BY <1>1, FS_EmptySet DEF Ordered
  <1>3. TypeOK
    BY BoundsAssumption DEF Init, TypeOK, Steps
  <1> QED BY <1>2, <1>3

\* The publisher's state keeps its types; only saved rows are ever in a batch
\* or marked processed.
THEOREM Types == Spec => []TypeOK
PROOF
  BY OutboxInit, TypesStep, PTL DEF Spec

-----------------------------------------------------------------------------
(* The flag of the publisher.                                              *)
\* A server has at most one running call, and its flag tells.
Runs ==
  /\ \A p, q \in Run : pc[p] # "idle" /\ pc[q] # "idle" /\ ServerOf[p] = ServerOf[q] => p = q
  /\ \A s \in Server : processing[s] <=> \E p \in Run : ServerOf[p] = s /\ pc[p] # "idle"

\* A step of call p leaves the calls of the other servers alone, and the other
\* calls of its server idle.
OnlyCall(p) ==
  /\ \A q \in Run : q # p => pc'[q] = pc[q] /\ batch'[q] = batch[q]
  /\ \A s \in Server : s # ServerOf[p] => processing'[s] = processing[s]
  /\ processing'[ServerOf[p]] <=> pc'[p] # "idle"

LEMMA FinishOnly ==
  ASSUME TypeOK, NEW p \in Run, Finish(p)
  PROVE  OnlyCall(p) /\ pc'[p] = "idle"
PROOF
  BY ServersAssumption DEF TypeOK, Finish, ResetsFlag, Goto, OnlyCall

\* What call p may do, with row e where it has one.
StepOf(p, e) ==
  \/ Start(p) \/ FindUnprocessed(p) \/ CallAborts(p) \/ Add(p, e) \/ AddFails(p, e)
  \/ MarkProcessed(p, e) \/ MarkProcessedFails(p, e) \/ MarkFailedAttempt(p, e)

LEMMA Steppers ==
  [Next]_vars =>
    \/ \E p \in Run : \E e : StepOf(p, e)
    \/ \E s \in Server : Restart(s)
    \/ \E e \in Event : Save(e)
    \/ UNCHANGED vars
PROOF
  BY DEF Next, Continue, StepOf

\* A call that is not the one that starts was running already.
LEMMA CallStep ==
  ASSUME TypeOK, Runs, NEW p \in Run, NEW e, StepOf(p, e)
  PROVE  OnlyCall(p) /\ (pc[p] # "idle" \/ Start(p))
PROOF
  <1>0. ServerOf[p] \in Server
    BY ServersAssumption
  <1>1. CASE Start(p)
    BY <1>0, <1>1 DEF Start, Goto, OnlyCall, TypeOK
  <1>2. CASE FindUnprocessed(p)
    <2>1. CASE Finish(p)
      BY <1>2, <2>1, FinishOnly DEF FindUnprocessed
    <2>2. CASE ~Finish(p)
      BY <1>0, <1>2, <2>2 DEF FindUnprocessed, Goto, OnlyCall, TypeOK, Runs
    <2> QED BY <2>1, <2>2
  <1>3. CASE CallAborts(p)
    BY <1>3, FinishOnly DEF CallAborts
  <1>4. CASE Add(p, e) \/ AddFails(p, e) \/ MarkProcessedFails(p, e)
    BY <1>0, <1>4 DEF Add, AddFails, MarkProcessedFails, Catches, Goto, OnlyCall, TypeOK, Runs
  <1>5. CASE MarkProcessed(p, e) \/ MarkFailedAttempt(p, e)
    <2>1. pc[p] # "idle" /\ NextRow(p, e)
      BY <1>5 DEF MarkProcessed, MarkFailedAttempt
    <2>2. CASE Finish(p)
      BY <2>1, <2>2, FinishOnly
    <2>3. CASE ~Finish(p)
      BY <1>0, <2>1, <2>3 DEF NextRow, Goto, OnlyCall, TypeOK, Runs
    <2> QED BY <2>2, <2>3
  <1> QED BY <1>1, <1>2, <1>3, <1>4, <1>5 DEF StepOf

LEMMA RunsStep == TypeOK /\ Runs /\ [Next]_vars => Runs'
PROOF
  <1> SUFFICES ASSUME TypeOK, Runs, [Next]_vars PROVE Runs'
    OBVIOUS
  <1>1. ASSUME NEW p \in Run, NEW e, StepOf(p, e)
        PROVE  Runs'
    <2>1. OnlyCall(p) /\ (pc[p] # "idle" \/ Start(p))
      BY <1>1, CallStep
    <2>2. ServerOf[p] \in Server
      BY ServersAssumption
    <2>3. ASSUME NEW q \in Run, ServerOf[q] = ServerOf[p], q # p
          PROVE  pc[q] = "idle" /\ pc'[q] = "idle"
      BY <2>1, <2>2, <2>3 DEF Runs, OnlyCall, Start, MayStart
    <2>4. ASSUME NEW q \in Run, NEW r \in Run, pc'[q] # "idle", pc'[r] # "idle",
                 ServerOf[q] = ServerOf[r]
          PROVE  q = r
      <3>1. CASE q = p \/ r = p
        BY <2>3, <2>4, <3>1
      <3>2. CASE q # p /\ r # p
        BY <2>1, <2>4, <3>2 DEF OnlyCall, Runs
      <3> QED BY <3>1, <3>2
    <2>5. ASSUME NEW s \in Server
          PROVE  processing'[s] <=> \E q \in Run : ServerOf[q] = s /\ pc'[q] # "idle"
      <3>1. CASE s = ServerOf[p]
        BY <2>1, <2>3, <3>1 DEF OnlyCall
      <3>2. CASE s # ServerOf[p]
        <4>1. processing'[s] = processing[s]
          BY <2>1, <3>2 DEF OnlyCall
        <4>2. \A q \in Run : ServerOf[q] = s => pc'[q] = pc[q]
          BY <2>1, <3>2 DEF OnlyCall
        <4> QED BY <4>1, <4>2 DEF Runs
      <3> QED BY <3>1, <3>2
    <2> QED BY <2>4, <2>5 DEF Runs
  <1>2. ASSUME NEW s \in Server, Restart(s)
        PROVE  Runs'
    <2>1. \A q \in Run : pc'[q] = IF ServerOf[q] = s THEN "idle" ELSE pc[q]
      BY <1>2 DEF Restart
    <2>2. \A t \in Server : processing'[t] = IF t = s THEN FALSE ELSE processing[t]
      BY <1>2 DEF Restart, TypeOK
    <2>3. \A q, r \in Run : pc'[q] # "idle" /\ pc'[r] # "idle" /\ ServerOf[q] = ServerOf[r] => q = r
      BY <2>1 DEF Runs
    <2>4. ASSUME NEW t \in Server
          PROVE  processing'[t] <=> \E q \in Run : ServerOf[q] = t /\ pc'[q] # "idle"
      <3>1. CASE t = s
        BY <2>1, <2>2, <3>1
      <3>2. CASE t # s
        <4>1. \A q \in Run : ServerOf[q] = t => pc'[q] = pc[q]
          BY <2>1, <3>2
        <4>2. processing'[t] = processing[t]
          BY <2>2, <3>2
        <4> QED BY <4>1, <4>2 DEF Runs
      <3> QED BY <3>1, <3>2
    <2> QED BY <2>3, <2>4 DEF Runs
  <1>3. CASE pc' = pc /\ processing' = processing
    BY <1>3 DEF Runs
  <1>4. ASSUME NEW e \in Event, Save(e)
        PROVE  Runs'
    BY <1>3, <1>4 DEF Save
  <1> QED BY <1>1, <1>2, <1>3, <1>4, Steppers DEF vars

\* The flag is set exactly while a call of its server runs, and no two calls of
\* a server overlap, whatever fails in a call and whenever the server restarts.
THEOREM FlagGuardsOneCallHolds == Spec => []FlagGuardsOneCall
PROOF
  <1>1. Init => Runs
    BY DEF Init, Runs
  <1>2. Runs => FlagGuardsOneCall
    <2> SUFFICES ASSUME Runs, NEW s \in Server
                 PROVE  Cardinality({p \in Run : ServerOf[p] = s /\ pc[p] # "idle"}) =
                          IF processing[s] THEN 1 ELSE 0
      BY DEF FlagGuardsOneCall
    <2> DEFINE running == {p \in Run : ServerOf[p] = s /\ pc[p] # "idle"}
    <2>1. CASE processing[s]
      <3>1. PICK p \in Run : ServerOf[p] = s /\ pc[p] # "idle"
        BY <2>1 DEF Runs
      <3>2. running = {p}
        BY <3>1 DEF Runs
      <3> QED BY <2>1, <3>2, FS_Singleton
    <2>2. CASE ~processing[s]
      <3>1. running = {}
        BY <2>2 DEF Runs
      <3> QED BY <2>2, <3>1, FS_EmptySet
    <2> QED BY <2>1, <2>2
  <1> QED BY <1>1, <1>2, OutboxInit, TypesStep, RunsStep, PTL DEF Spec

-----------------------------------------------------------------------------
(* What is marked is published.                                            *)
\* A row is marked, or about to be, only when its job was added.
Published ==
  /\ ProcessedIsPublished
  /\ \A p \in Run, e \in Event : pc[p] = "markProcessed" /\ Current(p, e) => jobs[e] > 0

LEMMA CurrentIsOne ==
  ASSUME TypeOK, Ordered, NEW p \in Run, NEW e, NEW f, Current(p, e), Current(p, f)
  PROVE  e = f /\ e \in Rows /\ e \in batch[p]
PROOF
  <1>1. batch[p] \subseteq Rows
    BY DEF TypeOK
  <1> QED BY <1>1, OldestIsOne, OldestIsIn DEF Current

\* Nobody takes a job out of the count.
LEMMA JobsGrow == TypeOK /\ [Next]_vars => \A e \in Event : jobs'[e] >= jobs[e]
PROOF
  <1> SUFFICES ASSUME TypeOK, [Next]_vars, NEW e \in Event PROVE jobs'[e] >= jobs[e]
    OBVIOUS
  <1>1. (\E f \in Event : AddJob(f)) \/ jobs' = jobs
    BY DEF Next, Continue, vars, Save, Start, FindUnprocessed, Add, AddFails, MarkProcessed,
           MarkProcessedFails, MarkFailedAttempt, CallAborts, Restart
  <1> QED BY <1>1 DEF AddJob, TypeOK

\* A call comes to markProcessed only by adding the job of its current row.
LEMMA MarksAfterAdd ==
  ASSUME TypeOK, Runs, [Next]_vars, NEW p \in Run, NEW f, pc'[p] = "markProcessed", Current(p, f)'
  PROVE  /\ Current(p, f) /\ batch'[p] = batch[p]
         /\ pc[p] = "markProcessed" \/ \E e : Add(p, e)
PROOF
  <1>1. ASSUME NEW q \in Run, NEW e, StepOf(q, e)
        PROVE  batch'[p] = batch[p] /\ (pc[p] = "markProcessed" \/ \E g : Add(p, g))
    <2>1. CASE q # p
      BY <1>1, <2>1, CallStep DEF OnlyCall
    <2>2. CASE q = p
      <3>1. CASE Add(p, e)
        BY <3>1 DEF Add
      <3>2. CASE NextRow(p, e) \/ Finish(p)
        BY <3>2 DEF NextRow, Finish, Goto, TypeOK
      <3>3. CASE ~Add(p, e) /\ ~NextRow(p, e) /\ ~Finish(p)
        BY <1>1, <2>2, <3>3 DEF StepOf, Start, FindUnprocessed, AddFails, Catches, MarkProcessed,
             MarkProcessedFails, MarkFailedAttempt, CallAborts, Goto, TypeOK
      <3> QED BY <3>1, <3>2, <3>3
    <2> QED BY <2>1, <2>2
  <1>2. ASSUME NEW s \in Server, Restart(s)
        PROVE  batch'[p] = batch[p] /\ pc[p] = "markProcessed"
    <2>1. pc' = [q \in Run |-> IF ServerOf[q] = s THEN "idle" ELSE pc[q]]
      BY <1>2 DEF Restart
    <2>2. ServerOf[p] # s /\ pc[p] = "markProcessed"
      BY <2>1
    <2> QED BY <1>2, <2>2 DEF Restart
  <1>3. (\E e \in Event : Save(e)) \/ UNCHANGED vars => batch'[p] = batch[p] /\ pc[p] = "markProcessed"
    BY DEF Save, vars
  <1>4. batch'[p] = batch[p] /\ (pc[p] = "markProcessed" \/ \E g : Add(p, g))
    BY <1>1, <1>2, <1>3, Steppers
  <1> QED BY <1>4, CurrentStays

\* A row gets marked only by a call that is at it.
LEMMA MarkedWhenCurrent ==
  ASSUME TypeOK, [Next]_vars, NEW f \in processed', f \notin processed
  PROVE  \E p \in Run : MarkProcessed(p, f) \/ MarkProcessedFails(p, f)
PROOF
  BY DEF Next, Continue, vars, Save, Start, FindUnprocessed, Add, AddFails, MarkProcessed,
         MarkProcessedFails, MarkFailedAttempt, CallAborts, Restart

LEMMA PublishedStep ==
  TypeOK /\ Ordered /\ Runs /\ Published /\ [Next]_vars => Published'
PROOF
  <1> SUFFICES ASSUME TypeOK, Ordered, Runs, Published, [Next]_vars PROVE Published'
    OBVIOUS
  <1>0. TypeOK' /\ \A e \in Event : jobs'[e] >= jobs[e]
    BY TypesStep, JobsGrow
  <1>1. \A e \in Event : jobs[e] \in Nat /\ jobs'[e] \in Nat
    BY <1>0 DEF TypeOK
  <1>2. ASSUME NEW e \in processed'
        PROVE  jobs'[e] > 0
    <2>1. e \in Event
      BY <1>0 DEF TypeOK, Rows
    <2>2. jobs[e] > 0
      BY <2>1, MarkedWhenCurrent DEF Published, ProcessedIsPublished, MarkProcessed, MarkProcessedFails
    <2> QED BY <1>0, <1>1, <2>1, <2>2
  <1>3. ASSUME NEW p \in Run, NEW f \in Event, pc'[p] = "markProcessed", Current(p, f)'
        PROVE  jobs'[f] > 0
    <2>1. Current(p, f) /\ (pc[p] = "markProcessed" \/ \E e : Add(p, e))
      BY <1>3, MarksAfterAdd
    <2>2. CASE pc[p] = "markProcessed"
      BY <1>0, <1>1, <2>1, <2>2 DEF Published
    <2>3. ASSUME NEW e, Add(p, e)
          PROVE  jobs'[f] > 0
      <3>1. e = f
        BY <2>1, <2>3, CurrentIsOne DEF Add
      <3> QED BY <1>1, <2>3, <3>1 DEF Add, AddJob, TypeOK
    <2> QED BY <2>1, <2>2, <2>3
  <1> QED BY <1>2, <1>3 DEF Published, ProcessedIsPublished

\* A row that counts as published has its job in the queue, whatever fails or
\* stops between the two calls.
THEOREM ProcessedIsPublishedHolds == Spec => []ProcessedIsPublished
PROOF
  <1>1. Init => Runs /\ Published
    BY DEF Init, Runs, Published, ProcessedIsPublished
  <1>2. Published => ProcessedIsPublished
    BY DEF Published
  <1> QED BY <1>1, <1>2, OutboxInit, TypesStep, OrderedStep, RunsStep, PublishedStep, PTL DEF Spec

-----------------------------------------------------------------------------
(* Duplicates have a cause.                                                *)
\* The call has added the job of row e, its current one, and not marked it.
AddedAt(p, e) == pc[p] = "markProcessed" /\ Current(p, e)

\* The call has yet to come to row e of its batch.
PendingAt(p, e) ==
  /\ e \in batch[p]
  /\ \/ pc[p] = "add"
     \/ pc[p] \in {"markProcessed", "markFailedAttempt"} /\ ~Current(p, e)

Added(e) == {s \in Server : \E p \in Run : ServerOf[p] = s /\ AddedAt(p, e)}
Pending(e) == {s \in Server : \E p \in Run : ServerOf[p] = s /\ PendingAt(p, e)}

\* Until a row is marked, each of its jobs was added by a call that is still at
\* it or has failed; from then on no call takes the row up again.
JobsCounted ==
  \A e \in Event :
    /\ e \notin processed => jobs[e] <= Cardinality(Added(e)) + faults
    /\ e \in processed => jobs[e] + Cardinality(Pending(e)) <= Cardinality(Server) + faults

LEMMA ServersFinite ==
  ASSUME NEW e
  PROVE  /\ IsFiniteSet(Added(e)) /\ Cardinality(Added(e)) \in Nat
         /\ IsFiniteSet(Pending(e)) /\ Cardinality(Pending(e)) \in Nat
PROOF
  BY ServersAssumption, FS_Subset, FS_CardinalityType DEF Added, Pending

LEMMA ServersFiniteNext ==
  ASSUME NEW e
  PROVE  /\ IsFiniteSet(Added(e)') /\ Cardinality(Added(e))' \in Nat
         /\ IsFiniteSet(Pending(e)') /\ Cardinality(Pending(e))' \in Nat
PROOF
  <1>1. Added(e)' \subseteq Server /\ Pending(e)' \subseteq Server
    BY DEF Added, Pending
  <1> QED BY <1>1, ServersAssumption, FS_Subset, FS_CardinalityType

\* Two sets that differ in one element at most.
LEMMA OneElement ==
  ASSUME NEW S, NEW T, NEW s, IsFiniteSet(S), IsFiniteSet(T),
         \A t : t # s => (t \in T <=> t \in S)
  PROVE  /\ Cardinality(S) \in Nat /\ Cardinality(T) \in Nat
         /\ s \in T /\ s \notin S => Cardinality(T) = Cardinality(S) + 1
         /\ s \notin T /\ s \in S => Cardinality(S) = Cardinality(T) + 1
         /\ (s \in T <=> s \in S) => Cardinality(T) = Cardinality(S)
PROOF
  <1>1. Cardinality(S) \in Nat /\ Cardinality(T) \in Nat
    BY FS_CardinalityType
  <1>2. s \in T /\ s \notin S => T = S \cup {s}
    OBVIOUS
  <1>3. s \notin T /\ s \in S => S = T \cup {s}
    OBVIOUS
  <1>4. (s \in T <=> s \in S) => T = S
    OBVIOUS
  <1> QED BY <1>1, <1>2, <1>3, <1>4, FS_AddElement

\* One server cannot both have added the job of a row and have yet to come to it.
LEMMA AddedNotPending == Runs => \A e : Added(e) \cap Pending(e) = {}
PROOF
  <1> SUFFICES ASSUME Runs, NEW e, NEW s \in Added(e), s \in Pending(e) PROVE FALSE
    OBVIOUS
  <1>1. PICK p \in Run : ServerOf[p] = s /\ AddedAt(p, e)
    BY DEF Added
  <1>2. PICK q \in Run : ServerOf[q] = s /\ PendingAt(q, e)
    BY DEF Pending
  <1>3. p = q
    BY <1>1, <1>2 DEF Runs, AddedAt, PendingAt
  <1> QED BY <1>1, <1>2, <1>3 DEF AddedAt, PendingAt

\* A step of call p changes these sets at its server only, where it is the one
\* call that counts.
LEMMA CountsElsewhere ==
  ASSUME TypeOK, Runs, [Next]_vars, NEW p \in Run, NEW x, StepOf(p, x), NEW e
  PROVE  /\ \A t : t # ServerOf[p] => (t \in Added(e)' <=> t \in Added(e))
         /\ \A t : t # ServerOf[p] => (t \in Pending(e)' <=> t \in Pending(e))
         /\ ServerOf[p] \in Added(e) <=> AddedAt(p, e)
         /\ ServerOf[p] \in Added(e)' <=> AddedAt(p, e)'
         /\ ServerOf[p] \in Pending(e) <=> PendingAt(p, e)
         /\ ServerOf[p] \in Pending(e)' <=> PendingAt(p, e)'
PROOF
  <1>0. ServerOf[p] \in Server
    BY ServersAssumption
  <1>1. OnlyCall(p) /\ (pc[p] # "idle" \/ Start(p))
    BY CallStep
  <1>2. ASSUME NEW q \in Run, q # p
        PROVE  (AddedAt(q, e)' <=> AddedAt(q, e)) /\ (PendingAt(q, e)' <=> PendingAt(q, e))
    <2>1. pc'[q] = pc[q] /\ batch'[q] = batch[q]
      BY <1>1, <1>2 DEF OnlyCall
    <2>2. Current(q, e)' <=> Current(q, e)
      BY <2>1, CurrentStays
    <2> QED BY <2>1, <2>2 DEF AddedAt, PendingAt
  <1>3. ASSUME NEW q \in Run, q # p, ServerOf[q] = ServerOf[p]
        PROVE  ~AddedAt(q, e) /\ ~PendingAt(q, e)
    <2>1. pc[q] = "idle"
      BY <1>0, <1>1, <1>3 DEF Runs, Start, MayStart
    <2> QED BY <2>1 DEF AddedAt, PendingAt
  <1>4. \A t : t # ServerOf[p] => (t \in Added(e)' <=> t \in Added(e))
    BY <1>2 DEF Added
  <1>5. \A t : t # ServerOf[p] => (t \in Pending(e)' <=> t \in Pending(e))
    BY <1>2 DEF Pending
  <1>6. /\ ServerOf[p] \in Added(e) <=> AddedAt(p, e)
        /\ ServerOf[p] \in Added(e)' <=> AddedAt(p, e)'
    BY <1>0, <1>2, <1>3 DEF Added
  <1>7. /\ ServerOf[p] \in Pending(e) <=> PendingAt(p, e)
        /\ ServerOf[p] \in Pending(e)' <=> PendingAt(p, e)'
    BY <1>0, <1>2, <1>3 DEF Pending
  <1> QED BY <1>4, <1>5, <1>6, <1>7

\* A step on a row that is not marked afterwards.
LEMMA AddsOrFails ==
  ASSUME TypeOK, Ordered, Runs, [Next]_vars, NEW p \in Run, NEW x, StepOf(p, x),
         NEW e \in Event, e \notin processed'
  PROVE  \/ jobs'[e] = jobs[e] /\ faults' = faults /\ (AddedAt(p, e) => AddedAt(p, e)')
         \/ jobs'[e] = jobs[e] + 1 /\ faults' = faults /\ ~AddedAt(p, e) /\ AddedAt(p, e)'
         \/ jobs'[e] <= jobs[e] + 1 /\ faults' = faults + 1 /\ ~AddedAt(p, e)
         \/ jobs'[e] = jobs[e] /\ faults' = faults + 1
PROOF
  <1>0. jobs[e] \in Nat /\ jobs \in [Event -> Nat]
    BY DEF TypeOK
  <1>1. CASE pc[p] # "markProcessed" /\ UNCHANGED <<jobs, faults>>
    BY <1>1 DEF AddedAt
  <1>2. CASE Add(p, x)
    <2>1. pc'[p] = "markProcessed" /\ batch'[p] = batch[p] /\ pc[p] = "add"
      BY <1>2 DEF Add, Goto, TypeOK
    <2>2. CASE e = x
      <3>1. Current(p, e)'
        BY <1>2, <2>1, <2>2, CurrentStays DEF Add
      <3> QED BY <1>0, <1>2, <2>1, <2>2, <3>1 DEF Add, AddJob, AddedAt
    <2>3. CASE e # x
      BY <1>0, <1>2, <2>1, <2>3 DEF Add, AddJob, AddedAt
    <2> QED BY <2>2, <2>3
  <1>3. CASE AddFails(p, x)
    <2>1. jobs'[e] <= jobs[e] + 1
      BY <1>0, <1>3 DEF AddFails, AddJob
    <2> QED BY <1>3, <2>1 DEF AddFails, Fault, AddedAt
  <1>4. CASE MarkProcessed(p, x)
    <2>1. x # e
      BY <1>4 DEF MarkProcessed
    <2>2. ~AddedAt(p, e)
      BY <1>4, <2>1, CurrentIsOne DEF AddedAt, MarkProcessed
    <2> QED BY <1>4, <2>2 DEF MarkProcessed
  <1>5. CASE MarkProcessedFails(p, x) \/ CallAborts(p)
    BY <1>5 DEF MarkProcessedFails, CallAborts, Fault
  <1> QED BY <1>1, <1>2, <1>3, <1>4, <1>5
      DEF StepOf, Start, FindUnprocessed, MarkFailedAttempt

\* A step on a row that is marked.
LEMMA PassesOver ==
  ASSUME TypeOK, Ordered, Runs, [Next]_vars, NEW p \in Run, NEW x, StepOf(p, x),
         NEW e \in Event, e \in processed
  PROVE  /\ PendingAt(p, e)' => PendingAt(p, e)
         /\ \/ jobs'[e] = jobs[e] /\ faults' = faults
            \/ jobs'[e] = jobs[e] + 1 /\ faults' = faults /\ PendingAt(p, e) /\ ~PendingAt(p, e)'
            \/ jobs'[e] <= jobs[e] + 1 /\ faults' = faults + 1
PROOF
  <1>0. jobs[e] \in Nat /\ jobs \in [Event -> Nat]
    BY DEF TypeOK
  <1>1. CASE Start(p) \/ Finish(p)
    <2>1. ~PendingAt(p, e)'
      BY <1>1 DEF PendingAt, Start, Finish, Goto, TypeOK
    <2>2. jobs' = jobs /\ (faults' = faults \/ faults' = faults + 1)
      BY <1>1 DEF StepOf, Finish, Goto, TypeOK, Start, FindUnprocessed, CallAborts, Fault, Add,
           AddFails, Catches, MarkProcessed, MarkProcessedFails, MarkFailedAttempt
    <2> QED BY <1>0, <2>1, <2>2
  <1>2. CASE FindUnprocessed(p) /\ ~Finish(p)
    <2>1. batch'[p] \subseteq Unprocessed
      BY <1>2, OldestIsIn DEF FindUnprocessed, TypeOK
    <2>2. e \notin batch'[p]
      BY <2>1 DEF Unprocessed
    <2> QED BY <1>2, <2>2 DEF FindUnprocessed, PendingAt
  <1>3. CASE Add(p, x) \/ AddFails(p, x)
    <2>1. /\ pc[p] = "add" /\ batch'[p] = batch[p] /\ Current(p, x)
          /\ pc'[p] \in {"markProcessed", "markFailedAttempt"}
      BY <1>3 DEF Add, AddFails, Catches, Goto, TypeOK
    <2>2. Current(p, e)' <=> Current(p, e)
      BY <2>1, CurrentStays
    <2>3. PendingAt(p, e)' => PendingAt(p, e)
      BY <2>1 DEF PendingAt
    <2>4. CASE x = e
      <3>1. PendingAt(p, e) /\ ~PendingAt(p, e)'
        BY <2>1, <2>2, <2>4, CurrentIsOne DEF PendingAt
      <3> QED BY <1>0, <1>3, <2>4, <3>1 DEF Add, AddFails, AddJob, Fault
    <2>5. CASE x # e
      BY <1>0, <1>3, <2>3, <2>5 DEF Add, AddFails, AddJob, Fault
    <2> QED BY <2>4, <2>5
  <1>4. CASE MarkProcessedFails(p, x)
    <2>1. /\ pc[p] = "markProcessed" /\ batch'[p] = batch[p] /\ pc'[p] = "markFailedAttempt"
      BY <1>4 DEF MarkProcessedFails, Goto, TypeOK
    <2>2. Current(p, e)' <=> Current(p, e)
      BY <2>1, CurrentStays
    <2> QED BY <1>0, <1>4, <2>1, <2>2 DEF PendingAt, MarkProcessedFails, Fault
  <1>5. CASE (MarkProcessed(p, x) \/ MarkFailedAttempt(p, x)) /\ ~Finish(p)
    <2>1. /\ pc[p] \in {"markProcessed", "markFailedAttempt"} /\ Current(p, x)
          /\ batch'[p] = batch[p] \ {x} /\ jobs' = jobs /\ faults' = faults
      BY <1>5 DEF MarkProcessed, MarkFailedAttempt, NextRow, TypeOK
    <2>2. e \in batch'[p] => PendingAt(p, e)
      BY <2>1, CurrentIsOne DEF PendingAt
    <2> QED BY <2>1, <2>2 DEF PendingAt
  <1>6. CallAborts(p) => Finish(p)
    BY DEF CallAborts
  <1> QED BY <1>1, <1>2, <1>3, <1>4, <1>5, <1>6 DEF StepOf

\* A row gets marked: those that added its job before count for the server they
\* run on, those that have yet to come to it for another.
LEMMA MarkedCounts ==
  ASSUME TypeOK, Ordered, Runs, JobsCounted, [Next]_vars,
         NEW e \in processed', e \notin processed
  PROVE  jobs'[e] + Cardinality(Pending(e))' <= Cardinality(Server) + faults'
PROOF
  <1>1. PICK p \in Run : MarkProcessed(p, e) \/ MarkProcessedFails(p, e)
    BY MarkedWhenCurrent
  <1>2. StepOf(p, e) /\ AddedAt(p, e) /\ e \in Event
    BY <1>1, CurrentIsOne DEF StepOf, AddedAt, MarkProcessed, MarkProcessedFails, Rows
  <1>3. ~PendingAt(p, e)'
    <2>1. CASE MarkProcessed(p, e)
      BY <2>1 DEF MarkProcessed, NextRow, Finish, Goto, PendingAt, TypeOK
    <2>2. CASE MarkProcessedFails(p, e)
      <3>1. batch'[p] = batch[p] /\ pc'[p] = "markFailedAttempt" /\ Current(p, e)
        BY <2>2 DEF MarkProcessedFails, Goto, TypeOK
      <3> QED BY <3>1, CurrentStays DEF PendingAt
    <2> QED BY <1>1, <2>1, <2>2
  <1>4. Added(e) \cap Pending(e)' = {}
    <2>1. Added(e) \cap Pending(e) = {}
      BY AddedNotPending
    <2>2. \A t : t # ServerOf[p] => (t \in Pending(e)' <=> t \in Pending(e))
      BY <1>2, CountsElsewhere
    <2>3. ServerOf[p] \notin Pending(e)'
      BY <1>2, <1>3, CountsElsewhere
    <2> QED BY <2>1, <2>2, <2>3
  <1>5. Cardinality(Added(e)) + Cardinality(Pending(e))' <= Cardinality(Server)
    <2> DEFINE A == Added(e)
               P == Pending(e)'
    <2>1. A \subseteq Server /\ P \subseteq Server
      BY DEF Added, Pending
    <2>2. IsFiniteSet(A) /\ IsFiniteSet(P)
      BY <2>1, ServersAssumption, FS_Subset
    <2>3. A \cap P = {}
      BY <1>4
    <2> HIDE DEF A, P
    <2>4. Cardinality(A \cup P) = Cardinality(A) + Cardinality(P) - Cardinality(A \cap P)
      BY <2>2, FS_Union
    <2>5. Cardinality(A \cap P) = 0
      BY <2>3, FS_EmptySet
    <2>6. A \cup P \in SUBSET Server
      BY <2>1
    <2>7. Cardinality(A \cup P) <= Cardinality(Server)
      BY <2>6, ServersAssumption, FS_Subset
    <2>8. Cardinality(A) \in Nat /\ Cardinality(P) \in Nat
      BY <2>2, FS_CardinalityType
    <2>9. Cardinality(A) + Cardinality(P) <= Cardinality(Server)
      BY <2>4, <2>5, <2>7, <2>8
    <2> QED BY <2>9 DEF A, P
  <1>6. jobs'[e] = jobs[e] /\ (faults' = faults \/ faults' = faults + 1)
    BY <1>1 DEF MarkProcessed, MarkProcessedFails, Fault
  <1>7. jobs[e] <= Cardinality(Added(e)) + faults
    BY <1>2 DEF JobsCounted
  <1>8. /\ jobs[e] \in Nat /\ faults \in Nat /\ Cardinality(Server) \in Nat
        /\ Cardinality(Added(e)) \in Nat /\ Cardinality(Pending(e))' \in Nat
    BY <1>2, BoundsAssumption, ServersAssumption, FS_CardinalityType, ServersFinite,
       ServersFiniteNext DEF TypeOK
  <1> QED BY <1>5, <1>6, <1>7, <1>8

LEMMA JobsCountedStep ==
  TypeOK /\ Ordered /\ Runs /\ JobsCounted /\ [Next]_vars => JobsCounted'
PROOF
  <1> SUFFICES ASSUME TypeOK, Ordered, Runs, JobsCounted, [Next]_vars, NEW e \in Event
               PROVE  /\ e \notin processed' =>
                           jobs'[e] <= Cardinality(Added(e))' + faults'
                      /\ e \in processed' =>
                           jobs'[e] + Cardinality(Pending(e))' <= Cardinality(Server) + faults'
    BY DEF JobsCounted
  <1>0. /\ jobs[e] \in Nat /\ jobs'[e] \in Nat /\ faults \in Nat /\ faults' \in Nat
        /\ Cardinality(Server) \in Nat
    BY TypesStep, BoundsAssumption, ServersAssumption, FS_CardinalityType DEF TypeOK
  <1>1. /\ e \notin processed => jobs[e] <= Cardinality(Added(e)) + faults
        /\ e \in processed => jobs[e] + Cardinality(Pending(e)) <= Cardinality(Server) + faults
    BY DEF JobsCounted
  <1>2. processed \subseteq processed'
    BY DEF Next, Continue, vars, Save, Start, FindUnprocessed, Add, AddFails, MarkProcessed,
           MarkProcessedFails, MarkFailedAttempt, CallAborts, Restart
  <1>3. /\ IsFiniteSet(Added(e)) /\ Cardinality(Added(e)) \in Nat
        /\ IsFiniteSet(Pending(e)) /\ Cardinality(Pending(e)) \in Nat
        /\ IsFiniteSet(Added(e)') /\ Cardinality(Added(e))' \in Nat
        /\ IsFiniteSet(Pending(e)') /\ Cardinality(Pending(e))' \in Nat
    BY ServersFinite, ServersFiniteNext
  <1>4. ASSUME NEW p \in Run, NEW x, StepOf(p, x), e \notin processed'
        PROVE  jobs'[e] <= Cardinality(Added(e))' + faults'
    <2>1. \/ jobs'[e] = jobs[e] /\ faults' = faults /\ (AddedAt(p, e) => AddedAt(p, e)')
          \/ jobs'[e] = jobs[e] + 1 /\ faults' = faults /\ ~AddedAt(p, e) /\ AddedAt(p, e)'
          \/ jobs'[e] <= jobs[e] + 1 /\ faults' = faults + 1 /\ ~AddedAt(p, e)
          \/ jobs'[e] = jobs[e] /\ faults' = faults + 1
      BY <1>4, AddsOrFails
    <2>2. /\ AddedAt(p, e)' /\ ~AddedAt(p, e) => Cardinality(Added(e))' = Cardinality(Added(e)) + 1
          /\ ~AddedAt(p, e)' /\ AddedAt(p, e) => Cardinality(Added(e)) = Cardinality(Added(e))' + 1
          /\ (AddedAt(p, e)' <=> AddedAt(p, e)) => Cardinality(Added(e))' = Cardinality(Added(e))
      BY <1>3, <1>4, CountsElsewhere, OneElement
    <2> QED BY <1>0, <1>1, <1>2, <1>3, <1>4, <2>1, <2>2
  <1>5. ASSUME NEW p \in Run, NEW x, StepOf(p, x), e \in processed
        PROVE  jobs'[e] + Cardinality(Pending(e))' <= Cardinality(Server) + faults'
    <2>1. /\ PendingAt(p, e)' => PendingAt(p, e)
          /\ \/ jobs'[e] = jobs[e] /\ faults' = faults
             \/ jobs'[e] = jobs[e] + 1 /\ faults' = faults /\ PendingAt(p, e) /\ ~PendingAt(p, e)'
             \/ jobs'[e] <= jobs[e] + 1 /\ faults' = faults + 1
      BY <1>5, PassesOver
    <2>2. /\ ~PendingAt(p, e)' /\ PendingAt(p, e) =>
               Cardinality(Pending(e)) = Cardinality(Pending(e))' + 1
          /\ (PendingAt(p, e)' <=> PendingAt(p, e)) =>
               Cardinality(Pending(e))' = Cardinality(Pending(e))
      BY <1>3, <1>5, CountsElsewhere, OneElement
    <2> QED BY <1>0, <1>1, <1>3, <1>5, <2>1, <2>2
  <1>6. ASSUME NEW s \in Server, Restart(s)
        PROVE  /\ e \notin processed' => jobs'[e] <= Cardinality(Added(e))' + faults'
               /\ e \in processed' =>
                    jobs'[e] + Cardinality(Pending(e))' <= Cardinality(Server) + faults'
    <2>1. /\ \A q \in Run : ServerOf[q] = s => ~AddedAt(q, e)' /\ ~PendingAt(q, e)'
          /\ \A q \in Run : ServerOf[q] # s => pc'[q] = pc[q] /\ batch'[q] = batch[q]
      BY <1>6 DEF Restart, AddedAt, PendingAt
    <2>2. ASSUME NEW q \in Run, ServerOf[q] # s
          PROVE  (AddedAt(q, e)' <=> AddedAt(q, e)) /\ (PendingAt(q, e)' <=> PendingAt(q, e))
      <3>1. pc'[q] = pc[q] /\ batch'[q] = batch[q]
        BY <2>1, <2>2
      <3>2. Current(q, e)' <=> Current(q, e)
        BY <3>1, CurrentStays
      <3> QED BY <3>1, <3>2 DEF AddedAt, PendingAt
    <2>3. s \notin Added(e)' /\ \A t : t # s => (t \in Added(e)' <=> t \in Added(e))
      BY <2>1, <2>2 DEF Added
    <2>4. s \notin Pending(e)' /\ \A t : t # s => (t \in Pending(e)' <=> t \in Pending(e))
      BY <2>1, <2>2 DEF Pending
    <2>5. \/ Cardinality(Added(e)) = Cardinality(Added(e))' + 1
          \/ Cardinality(Added(e)) = Cardinality(Added(e))'
      BY <1>3, <2>3, OneElement
    <2>6. \/ Cardinality(Pending(e)) = Cardinality(Pending(e))' + 1
          \/ Cardinality(Pending(e)) = Cardinality(Pending(e))'
      BY <1>3, <2>4, OneElement
    <2>7. jobs' = jobs /\ processed' = processed /\ faults' = faults + 1
      BY <1>6 DEF Restart, Fault
    <2> QED BY <1>0, <1>1, <1>3, <2>5, <2>6, <2>7
  <1>7. ASSUME UNCHANGED <<pc, batch, jobs, processed, faults>>
        PROVE  /\ e \notin processed' => jobs'[e] <= Cardinality(Added(e))' + faults'
               /\ e \in processed' =>
                    jobs'[e] + Cardinality(Pending(e))' <= Cardinality(Server) + faults'
    <2>1. \A q \in Run : Current(q, e)' <=> Current(q, e)
      BY <1>7, CurrentStays
    <2>2. Added(e)' = Added(e) /\ Pending(e)' = Pending(e)
      BY <1>7, <2>1 DEF Added, Pending, AddedAt, PendingAt
    <2> QED BY <1>1, <1>7, <2>2
  <1>8. \/ \E p \in Run : \E x : StepOf(p, x)
        \/ \E s \in Server : Restart(s)
        \/ UNCHANGED <<pc, batch, jobs, processed, faults>>
    BY Steppers DEF Save, vars
  <1> QED BY <1>4, <1>5, <1>6, <1>7, <1>8, MarkedCounts

\* An event has at most one job for each server and one for each failure:
\* whichever calls overlap, nothing else adds a second one.
THEOREM DuplicatesHaveCauseHolds == Spec => []DuplicatesHaveCause
PROOF
  <1>1. Init => Runs /\ JobsCounted
    <2> SUFFICES ASSUME Init PROVE Runs /\ JobsCounted
      OBVIOUS
    <2>1. \A e \in Event : e \notin processed /\ jobs[e] = 0 /\ faults = 0
      BY DEF Init
    <2> QED BY <2>1, ServersFinite DEF JobsCounted, Init, Runs
  <1>2. TypeOK /\ Runs /\ JobsCounted => DuplicatesHaveCause
    <2> SUFFICES ASSUME TypeOK, JobsCounted, NEW e \in Event
                 PROVE  jobs[e] <= Cardinality(Server) + faults
      BY DEF DuplicatesHaveCause
    <2>1. Cardinality(Added(e)) <= Cardinality(Server)
      <3>1. Added(e) \in SUBSET Server
        BY DEF Added
      <3> QED BY <3>1, ServersAssumption, FS_Subset
    <2>2. /\ jobs[e] \in Nat /\ faults \in Nat /\ Cardinality(Server) \in Nat
          /\ Cardinality(Added(e)) \in Nat /\ Cardinality(Pending(e)) \in Nat
      BY BoundsAssumption, ServersAssumption, FS_CardinalityType, ServersFinite DEF TypeOK
    <2>3. /\ e \notin processed => jobs[e] <= Cardinality(Added(e)) + faults
          /\ e \in processed => jobs[e] + Cardinality(Pending(e)) <= Cardinality(Server) + faults
      BY DEF JobsCounted
    <2> QED BY <2>1, <2>2, <2>3
  <1> QED BY <1>1, <1>2, OutboxInit, TypesStep, OrderedStep, RunsStep, JobsCountedStep, PTL DEF Spec
=============================================================================
