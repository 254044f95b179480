--------------------------- MODULE Deposits_proofs ---------------------------
(***************************************************************************)
(* Proofs of the safety properties of Deposits, for any number of users,   *)
(* wallets, keys, sessions, concurrent requests and webhook deliveries.    *)
(***************************************************************************)
EXTENDS Deposits, WalletStore_proofs

-----------------------------------------------------------------------------
(* The inductive invariant.                                                *)

\* The steps between the INSERT of the transaction and the UPDATE that gives
\* it the id of its session.
Executing(r) == pc[r] \in {"processDeposit", "updateProviderRef"}
HasSession(r) == pc[r] \in {"updateProviderRef", "return"}

\* Two requests never execute one key, and a request that executes finds the
\* row it inserted, without a session.
OneExecutor ==
  \A r \in Request : Executing(r) =>
    /\ tx[input[r].key] = NewTransaction(input[r])
    /\ \A q \in Request : Executing(q) /\ input[q].key = input[r].key => q = r

\* What a deposit request's variables hold at each await: the session it made
\* is for its key and amount, is nobody else's, and is not known to the client
\* nor to any row before the UPDATE.
RequestsOK ==
  \A r \in Request :
    /\ pc[r] # "idle" => input[r] \in Inputs
    /\ created[r] # Null => HasSession(r)
    /\ HasSession(r) =>
         /\ created[r] \in Session /\ session[created[r]] # Null
         /\ session[created[r]].key = input[r].key
         /\ session[created[r]].amount = input[r].amount
         /\ \A q \in Request : HasSession(q) /\ created[q] = created[r] => q = r
    /\ pc[r] = "updateProviderRef" =>
         /\ session[created[r]].status = "open"
         /\ created[r] \notin handedOut
    /\ pc[r] = "return" =>
         /\ tx[input[r].key] # Null
         /\ tx[input[r].key].provider_ref = created[r]

\* A session that a row refers to was made for this row's key and amount; the
\* URL of a session is out only when the session's row refers to it, and a
\* session is paid only when its URL is out.
SessionsOK ==
  /\ \A k \in Key : tx[k] # Null /\ tx[k].provider_ref \in Session =>
       LET s == tx[k].provider_ref
       IN  session[s] # Null /\ session[s].key = k /\ session[s].amount = tx[k].amount
  /\ \A s \in handedOut :
       session[s] # Null /\ tx[session[s].key] # Null /\ tx[session[s].key].provider_ref = s
  /\ \A s \in Session : session[s] # Null /\ session[s].status \in {"processing", "paid"} =>
       s \in handedOut

\* Stripe reports a payment or an expiry only once it has happened.
EventsOK ==
  \A e \in sent :
    /\ session[e.session] # Null
    /\ e.paid => session[e.session].status = "paid"
    /\ e.type = "expired" => session[e.session].status = "expired"

\* The status of a row follows that of its session.
StatusOK ==
  \A k \in Key : tx[k] # Null =>
    LET s == tx[k].provider_ref
    IN  /\ tx[k].status = "COMPLETED" =>
             \/ s = EarlierSession /\ Earlier[k] # Null
             \/ s \in Session /\ session[s].status = "paid"
        /\ tx[k].status = "FAILED" => s \in Session /\ session[s].status = "expired"
        /\ s = EarlierSession => tx[k].status = "COMPLETED"
        /\ tx[k].status = "PENDING" => tx[k].amount \in Amount

\* What a webhook handler's variables hold at each await.
Settling == {"settleFind", "findWallet", "lockWallet", "settle", "invalidate"}
Failing == {"failFind", "failUpdate"}
FoundRow == {"findWallet", "lockWallet", "settle", "invalidate", "failUpdate"}
FoundWallet == {"lockWallet", "settle", "invalidate"}

HandlersOK ==
  \A h \in Handler :
    /\ hpc[h] # "idle" => event[h] \in sent
    /\ hpc[h] \in Settling => Settles(event[h])
    /\ hpc[h] \in Failing => event[h].type = "expired"
    /\ hpc[h] \in FoundRow =>
         /\ found[h] \in Key /\ tx[found[h]] # Null
         /\ tx[found[h]].provider_ref = event[h].session
    /\ hpc[h] \in FoundWallet =>
         /\ wallet[h] \in Wallet
         /\ Owner[wallet[h]] = tx[found[h]].user
         /\ CurrencyOf[wallet[h]] = tx[found[h]].currency

Control ==
  TypeOK /\ OneExecutor /\ RequestsOK /\ SessionsOK /\ EventsOK /\ StatusOK /\ HandlersOK

\* A handler locks the row of the wallet it credits, and the balance it read
\* there is still the row's: nobody changes a row that another one has locked.
Isolation ==
  \A h \in Handler :
    /\ row[h] # Null =>
         /\ hpc[h] = "settle" /\ lock[wallet[h]] = h
         /\ row[h] = balance[wallet[h]]
    /\ \A w \in Wallet : lock[w] = h => hpc[h] = "settle" /\ wallet[h] = w

\* The entries of deposits, their rows and their events.  Transfers may have
\* entries in the same ledger.
Settled ==
  \A k \in Key :
    /\ outbox[Event("DepositSucceeded", k)] = IF HasStatus(k, "COMPLETED") THEN 1 ELSE 0
    /\ \A w \in Wallet : \A i \in 1..Len(ledger[w]) :
         ledger[w][i].type = "DEPOSIT" /\ ledger[w][i].idempotency_key = k =>
           /\ HasStatus(k, "COMPLETED")
           /\ ledger[w][i].amount = tx[k].amount
           /\ Owner[w] = tx[k].user /\ CurrencyOf[w] = tx[k].currency
    /\ HasStatus(k, "COMPLETED") =>
         \E w \in Wallet : \E i \in 1..Len(ledger[w]) :
           ledger[w][i].type = "DEPOSIT" /\ ledger[w][i].idempotency_key = k

OnlyDeposits == \A w \in Wallet : \A i \in 1..Len(ledger[w]) : ledger[w][i].type = "DEPOSIT"

Books == StoreBooks /\ Settled

-----------------------------------------------------------------------------
(* Constants, and what the row of a new transaction holds.                 *)
LEMMA ConstantFacts ==
  /\ Null \notin Wallet /\ Null \notin Int /\ Null \notin Key
  /\ Null \notin Transaction /\ Null \notin CheckoutSession /\ Null \notin StripeEvent
  /\ Null \notin Session /\ EarlierSession \notin Session /\ EarlierSession # Null
  /\ Amount \subseteq Nat /\ \A a \in Amount : a > 0
  /\ Null \notin Inputs /\ Null \notin Handler /\ Handler \subseteq Holder
PROOF
  BY StoreConstants, RowsAssumption, InputsAssumption, SlotsAssumption

LEMMA InputFacts ==
  ASSUME NEW i \in Inputs
  PROVE  /\ i.user \in User /\ i.amount \in Amount /\ i.amount \in Nat
         /\ i.currency \in Currency /\ i.key \in Key
         /\ NewTransaction(i) \in Transaction /\ NewTransaction(i) # Null
         /\ NewTransaction(i).user = i.user /\ NewTransaction(i).amount = i.amount
         /\ NewTransaction(i).currency = i.currency
         /\ NewTransaction(i).status = "PENDING" /\ NewTransaction(i).provider_ref = Null
PROOF
  <1>1. i \in DepositDto
    BY InputsAssumption
  <1>2. /\ i.user \in User /\ i.amount \in Amount /\ i.currency \in Currency /\ i.key \in Key
        /\ i.amount \in Nat
    BY <1>1, ConstantFacts DEF DepositDto
  <1>3. NewTransaction(i) \in Transaction
    BY <1>2 DEF NewTransaction, Transaction, TransactionStatus
  <1> QED BY <1>2, <1>3, ConstantFacts DEF NewTransaction

\* The deposit that was settled before under the opening key of a wallet.
LEMMA EarlierDeposit ==
  ASSUME NEW k \in Key
  PROVE  \/ /\ Earlier[k] = Null
            /\ \A w \in Wallet : Opening[w] > 0 => OpeningKey[w] # k
         \/ \E w \in Wallet :
              /\ Opening[w] > 0 /\ Opening[w] \in Nat /\ OpeningKey[w] = k
              /\ \A v \in Wallet : OpeningKey[v] = k => v = w
              /\ Earlier[k] = [to |-> w, amount |-> Opening[w]]
              /\ Earlier[k] # Null /\ Earlier[k].to = w
PROOF
  <1>1. CASE \E w \in Wallet : Opening[w] > 0 /\ OpeningKey[w] = k
    <2>1. PICK w \in Wallet : Opening[w] > 0 /\ OpeningKey[w] = k
      BY <1>1
    <2>2. \A v \in Wallet : OpeningKey[v] = k => v = w
      BY <2>1, OpeningAssumption
    <2>3. (CHOOSE v \in Wallet : OpeningKey[v] = k) = w
      BY <2>1, <2>2
    <2>4. Opening[w] \in Nat
      BY OpeningAssumption
    <2>5. Earlier[k] = [to |-> w, amount |-> Opening[w]]
      BY <1>1, <2>3 DEF Earlier
    <2>6. [to |-> w, amount |-> Opening[w]] # Null
      BY <2>4, NullAssumption
    <2> QED BY <2>1, <2>2, <2>4, <2>5, <2>6
  <1>2. CASE ~ \E w \in Wallet : Opening[w] > 0 /\ OpeningKey[w] = k
    BY <1>2 DEF Earlier
  <1> QED BY <1>1, <1>2

LEMMA EarlierRow ==
  ASSUME NEW w \in Wallet
  PROVE  /\ EarlierTransaction(w) \in Transaction /\ EarlierTransaction(w) # Null
         /\ EarlierTransaction(w).status = "COMPLETED"
         /\ EarlierTransaction(w).provider_ref = EarlierSession
         /\ EarlierTransaction(w).amount = Opening[w]
         /\ EarlierTransaction(w).user = Owner[w]
         /\ EarlierTransaction(w).currency = CurrencyOf[w]
PROOF
  <1>1. EarlierTransaction(w) \in Transaction
    BY WalletAssumption, OpeningAssumption DEF EarlierTransaction, Transaction, TransactionStatus
  <1> QED BY <1>1, ConstantFacts DEF EarlierTransaction

-----------------------------------------------------------------------------
(* Types and control.                                                      *)
LEMMA ControlInit == Init => Control
PROOF
  <1> SUFFICES ASSUME Init PROVE Control
    OBVIOUS
  <1>1. StoreTypeOK
    BY StoreInitTypes DEF Init
  <1>2. ASSUME NEW k \in Key
        PROVE  \/ tx[k] = Null
               \/ \E w \in Wallet : tx[k] = EarlierTransaction(w) /\ Earlier[k] # Null
    <2>1. tx[k] = IF Earlier[k] = Null THEN Null ELSE EarlierTransaction(Earlier[k].to)
      BY DEF Init
    <2> QED BY <2>1, EarlierDeposit
  <1>3. tx \in [Key -> Transaction \cup {Null}]
    <2>1. \A k \in Key : tx[k] \in Transaction \cup {Null}
      BY <1>2, EarlierRow
    <2>2. tx = [k \in Key |-> tx[k]]
      BY DEF Init
    <2> QED BY <2>1, <2>2
  <1>4. TypeOK
    BY <1>1, <1>3 DEF Init, TypeOK, Steps, Responses, HandlerSteps
  <1>5. StatusOK /\ SessionsOK
    <2>1. StatusOK
      BY <1>2, EarlierRow, ConstantFacts DEF StatusOK
    <2>2. SessionsOK
      BY <1>2, EarlierRow, ConstantFacts DEF Init, SessionsOK
    <2> QED BY <2>1, <2>2
  <1>6. OneExecutor /\ RequestsOK
    BY DEF Init, OneExecutor, RequestsOK, Executing, HasSession
  <1>7. EventsOK /\ HandlersOK
    BY DEF Init, EventsOK, HandlersOK, Settling, Failing, FoundRow, FoundWallet
  <1> QED BY <1>4, <1>5, <1>6, <1>7 DEF Control

\* A step of a request that touches no row and nothing of Stripe.
LEMMA RowsUntouched ==
  ASSUME Control, UNCHANGED <<tx, stripeVars, handlerVars>>
  PROVE  SessionsOK' /\ EventsOK' /\ StatusOK' /\ HandlersOK'
PROOF
  <1>1. SessionsOK'
    BY DEF Control, SessionsOK, stripeVars
  <1>2. EventsOK'
    BY DEF Control, EventsOK, stripeVars
  <1>3. StatusOK'
    BY DEF Control, StatusOK, stripeVars
  <1>4. HandlersOK'
    BY DEF Control, HandlersOK, stripeVars, handlerVars
  <1> QED BY <1>1, <1>2, <1>3, <1>4

\* A request that ends.
LEMMA AnswerKeepsRequests ==
  ASSUME Control, NEW r \in Request, NEW a \in Responses, Answer(r, a),
         UNCHANGED <<tx, session>>, handedOut' \subseteq handedOut \cup {created[r]}
  PROVE  OneExecutor' /\ RequestsOK'
PROOF
  <1>1. /\ pc'[r] = "idle" /\ created'[r] = Null
        /\ \A q \in Request \ {r} : pc'[q] = pc[q] /\ created'[q] = created[q]
        /\ input' = input
    BY DEF Answer, Goto, Control, TypeOK
  <1>2. OneExecutor'
    BY <1>1 DEF Control, OneExecutor, Executing
  <1>3. RequestsOK'
    <2> SUFFICES ASSUME NEW q \in Request
                 PROVE  RequestsOK!(q)'
      BY DEF RequestsOK
    <2>1. CASE q = r
      BY <1>1, <2>1 DEF HasSession
    <2>2. CASE q # r
      <3>1. RequestsOK!(q)
        BY DEF Control, RequestsOK
      <3>2. \A p \in Request : HasSession(p)' => HasSession(p) /\ p # r
        BY <1>1 DEF HasSession
      <3>3. HasSession(q)' <=> HasSession(q)
        BY <1>1, <2>2 DEF HasSession
      <3>4. pc[q] = "updateProviderRef" => created[q] \notin handedOut'
        <4> SUFFICES ASSUME pc[q] = "updateProviderRef", created[q] = created[r]
                     PROVE  FALSE
          BY <3>1
        <4>1. HasSession(q) /\ created[r] # Null
          BY <3>1, ConstantFacts DEF HasSession
        <4>2. HasSession(r)
          BY <4>1 DEF Control, RequestsOK
        <4> QED BY <2>2, <3>1, <4>1, <4>2
      <3> QED BY <1>1, <2>2, <3>1, <3>2, <3>3, <3>4
    <2> QED BY <2>1, <2>2
  <1> QED BY <1>2, <1>3

LEMMA AnswerKeepsControl ==
  ASSUME Control, NEW r \in Request, NEW a \in Responses, Answer(r, a),
         UNCHANGED <<storeVars, tx, stripeVars, handlerVars>>
  PROVE  Control'
PROOF
  <1>1. TypeOK'
    BY StoreStutters DEF Control, TypeOK, Answer, Goto, Steps, stripeVars, handlerVars
  <1>2. OneExecutor' /\ RequestsOK'
    BY AnswerKeepsRequests DEF stripeVars
  <1> QED BY <1>1, <1>2, RowsUntouched DEF Control

\* A request that moves on from an await before the INSERT.
LEMMA MovesOn ==
  ASSUME Control, NEW r \in Request, NEW step \in Steps, Goto(r, step),
         pc[r] \in {"idle", "findByIdempotencyKey", "findByUserIdAndCurrency"},
         step \in {"findByIdempotencyKey", "findByUserIdAndCurrency", "createTransaction"},
         input'[r] \in Inputs, \A q \in Request \ {r} : input'[q] = input[q],
         input' \in [Request -> Inputs \cup {Null}], response' \in [Request -> Responses],
         UNCHANGED <<storeVars, tx, created, stripeVars, handlerVars>>
  PROVE  Control'
PROOF
  <1>1. /\ pc'[r] = step /\ pc' \in [Request -> Steps]
        /\ \A q \in Request \ {r} : pc'[q] = pc[q]
    BY DEF Goto, Control, TypeOK
  <1>2. TypeOK'
    BY <1>1, StoreStutters DEF Control, TypeOK, stripeVars, handlerVars
  <1>3. \A q \in Request : /\ Executing(q)' <=> Executing(q) /\ q # r
                           /\ HasSession(q)' <=> HasSession(q) /\ q # r
    BY <1>1 DEF Executing, HasSession
  <1>4. ~Executing(r) /\ ~HasSession(r) /\ created[r] = Null
    <2>1. ~Executing(r) /\ ~HasSession(r)
      BY DEF Executing, HasSession
    <2> QED BY <2>1 DEF Control, RequestsOK
  <1>5. OneExecutor'
    BY <1>3 DEF Control, OneExecutor
  <1>6. RequestsOK'
    <2> SUFFICES ASSUME NEW q \in Request
                 PROVE  RequestsOK!(q)'
      BY DEF RequestsOK
    <2>1. RequestsOK!(q)
      BY DEF Control, RequestsOK
    <2> QED BY <1>1, <1>3, <1>4, <2>1 DEF stripeVars
  <1> QED BY <1>2, <1>5, <1>6, RowsUntouched DEF Control

LEMMA ArriveStep ==
  ASSUME Control, NEW r \in Request, NEW i \in Inputs, Arrive(r, i)
  PROVE  Control'
PROOF
  <1>1. /\ input'[r] = i /\ \A q \in Request \ {r} : input'[q] = input[q]
        /\ input' \in [Request -> Inputs \cup {Null}] /\ response' \in [Request -> Responses]
    BY DEF Arrive, Control, TypeOK, Responses
  <1> QED BY <1>1, MovesOn DEF Arrive, Steps

LEMMA FindStep ==
  ASSUME Control, NEW r \in Request, FindExisting(r) \/ FindWallet(r)
  PROVE  Control'
PROOF
  <1>1. CASE \E a \in {"duplicate", "notFound"} : Answer(r, a)
    BY <1>1, AnswerKeepsControl DEF FindExisting, FindWallet, Responses
  <1>2. CASE ~ \E a \in {"duplicate", "notFound"} : Answer(r, a)
    <2>1. PICK step \in {"findByUserIdAndCurrency", "createTransaction"} :
            Goto(r, step) /\ UNCHANGED <<input, response, created>>
      BY <1>2 DEF FindExisting, FindWallet
    <2>2. input[r] \in Inputs /\ pc[r] \in {"findByIdempotencyKey", "findByUserIdAndCurrency"}
      BY DEF FindExisting, FindWallet, Control, RequestsOK
    <2>3. UNCHANGED <<storeVars, tx, stripeVars, handlerVars>>
      BY DEF FindExisting, FindWallet
    <2> QED BY <2>1, <2>2, <2>3, MovesOn DEF Steps, Control, TypeOK
  <1> QED BY <1>1, <1>2

\* What a handler found stays there while a row keeps its columns.
LEMMA FoundStays ==
  ASSUME Control, UNCHANGED handlerVars, sent \subseteq sent',
         \A k \in Key : tx[k] # Null /\ tx[k].provider_ref # Null =>
           /\ tx'[k] # Null /\ tx'[k].provider_ref = tx[k].provider_ref
           /\ tx'[k].user = tx[k].user /\ tx'[k].currency = tx[k].currency
  PROVE  HandlersOK'
PROOF
  <1> SUFFICES ASSUME NEW h \in Handler
               PROVE  HandlersOK!(h)'
    BY DEF HandlersOK
  <1>1. HandlersOK!(h)
    BY DEF Control, HandlersOK
  <1>2. UNCHANGED <<hpc, event, found, wallet>>
    BY DEF handlerVars
  <1>3. hpc[h] \in FoundRow =>
          /\ event[h] \in StripeEvent
          /\ tx[found[h]].provider_ref # Null
    BY <1>1, ConstantFacts DEF Control, TypeOK, StripeEvent, FoundRow
  <1>4. Settles(event[h])' <=> Settles(event[h])
    BY <1>2 DEF Settles
  <1> QED BY <1>1, <1>2, <1>3, <1>4 DEF FoundRow, FoundWallet, Settling, Failing

LEMMA CreateTransactionStep ==
  ASSUME Control, NEW r \in Request, CreateTransaction(r)
  PROVE  Control'
PROOF
  <1>1. CASE Answer(r, "error") /\ UNCHANGED tx
    BY <1>1, AnswerKeepsControl DEF CreateTransaction, Responses
  <1>2. CASE /\ TransactionKeyFree(input[r].key)
             /\ tx' = [tx EXCEPT ![input[r].key] = NewTransaction(input[r])]
             /\ Goto(r, "processDeposit")
             /\ UNCHANGED <<input, response, created>>
    <2> DEFINE k == input[r].key
               t == NewTransaction(input[r])
    <2>1. /\ pc[r] = "createTransaction" /\ input[r] \in Inputs /\ k \in Key
          /\ UNCHANGED <<storeVars, session, handedOut, sent, unacked, handlerVars>>
      BY InputFacts DEF CreateTransaction, stripeVars, Control, RequestsOK
    <2>2. /\ t \in Transaction /\ t # Null /\ t.provider_ref = Null
          /\ t.status = "PENDING" /\ t.amount \in Amount
      BY <2>1, InputFacts
    <2>3. tx[k] = Null /\ tx' = [tx EXCEPT ![k] = t]
      BY <1>2 DEF TransactionKeyFree
    <2> HIDE DEF t
    <2>4. tx'[k] = t /\ \A l \in Key \ {k} : tx'[l] = tx[l]
      BY <2>1, <2>3 DEF Control, TypeOK
    <2>5. pc'[r] = "processDeposit" /\ \A q \in Request \ {r} : pc'[q] = pc[q]
      BY <1>2 DEF Goto, Control, TypeOK
    <2>6. TypeOK'
      <3>1. tx' \in [Key -> Transaction \cup {Null}] /\ pc' \in [Request -> Steps]
        BY <1>2, <2>1, <2>2, <2>3 DEF Goto, Steps, Control, TypeOK
      <3> QED BY <1>2, <2>1, <3>1, StoreStutters DEF Control, TypeOK, handlerVars
    <2>7. OneExecutor'
      <3>1. \A q \in Request : Executing(q) => input[q] \in Inputs /\ input[q].key \in Key
        BY InputFacts DEF Control, RequestsOK, Executing
      <3>2. \A q \in Request : Executing(q) => tx[input[q].key] # Null /\ input[q].key # k
        BY <2>3, <3>1, InputFacts DEF Control, OneExecutor
      <3>3. \A q \in Request : Executing(q)' <=> Executing(q) \/ q = r
        BY <2>1, <2>5 DEF Executing
      <3> QED BY <1>2, <2>4, <3>1, <3>2, <3>3 DEF Control, OneExecutor, NewTransaction, t
    <2>8. RequestsOK'
      <3> SUFFICES ASSUME NEW q \in Request
                   PROVE  RequestsOK!(q)'
        BY DEF RequestsOK
      <3>1. RequestsOK!(q)
        BY DEF Control, RequestsOK
      <3>2. \A p \in Request : HasSession(p)' <=> HasSession(p)
        BY <2>1, <2>5 DEF HasSession
      <3>3. pc[q] = "return" => input[q].key \in Key /\ input[q].key # k
        BY <2>3, <3>1, InputFacts
      <3> QED BY <1>2, <2>1, <2>4, <2>5, <3>1, <3>2, <3>3
    <2>9. SessionsOK'
      <3>1. \A s \in handedOut : session[s] # Null /\ session[s].key \in Key
        BY ConstantFacts DEF Control, TypeOK, SessionsOK, CheckoutSession
      <3> QED BY <2>1, <2>2, <2>3, <2>4, <3>1, ConstantFacts DEF Control, SessionsOK
    <2>10. EventsOK'
      BY <2>1 DEF Control, EventsOK
    <2>11. StatusOK'
      BY <2>1, <2>2, <2>4, ConstantFacts DEF Control, StatusOK
    <2>12. HandlersOK'
      BY <2>1, <2>3, <2>4, FoundStays
    <2> QED BY <2>6, <2>7, <2>8, <2>9, <2>10, <2>11, <2>12 DEF Control
  <1> QED BY <1>1, <1>2 DEF CreateTransaction

\* Stripe creates a session: for the key and the amount of the request, and a
\* new one.
LEMMA CreateSessionStep ==
  ASSUME Control, NEW r \in Request, NEW s \in Session, CreateSession(r, s)
  PROVE  Control'
PROOF
  <1> DEFINE new == [key |-> input[r].key, amount |-> input[r].amount, status |-> "open"]
  <1>1. /\ pc[r] = "processDeposit" /\ input[r] \in Inputs
        /\ session[s] = Null /\ session' = [session EXCEPT ![s] = new]
        /\ UNCHANGED <<storeVars, tx, handedOut, sent, unacked, handlerVars, input>>
    BY DEF CreateSession, Answer, Control, RequestsOK
  <1>2. /\ new \in CheckoutSession /\ new # Null /\ new.status = "open"
        /\ new.key = input[r].key /\ new.amount = input[r].amount
    BY <1>1, InputFacts, ConstantFacts DEF CheckoutSession
  <1> HIDE DEF new
  <1>3. session'[s] = new /\ \A x \in Session \ {s} : session'[x] = session[x]
    BY <1>1 DEF Control, TypeOK
  <1>4. \/ /\ pc'[r] = "updateProviderRef" /\ created'[r] = s /\ UNCHANGED response
        \/ /\ pc'[r] = "idle" /\ created'[r] = Null
    BY DEF CreateSession, Answer, Goto, Control, TypeOK
  <1>5. /\ \A q \in Request \ {r} : pc'[q] = pc[q] /\ created'[q] = created[q]
        /\ pc' \in [Request -> Steps] /\ created' \in [Request -> Session \cup {Null}]
        /\ response' \in [Request -> Responses]
    BY DEF CreateSession, Answer, Goto, Control, TypeOK, Steps, Responses
  <1>6. TypeOK'
    <2>1. session' \in [Session -> CheckoutSession \cup {Null}]
      BY <1>1, <1>2 DEF Control, TypeOK
    <2> QED BY <1>1, <1>5, <2>1, StoreStutters DEF Control, TypeOK, handlerVars
  <1>7. OneExecutor'
    <2>1. \A q \in Request : Executing(q)' => Executing(q)
      BY <1>1, <1>4, <1>5 DEF Executing
    <2> QED BY <1>1, <2>1 DEF Control, OneExecutor
  <1>8. ASSUME NEW q \in Request, HasSession(q)
        PROVE  q # r /\ created[q] \in Session /\ created[q] # s
    BY <1>1, <1>8 DEF Control, RequestsOK, HasSession
  <1>9. \A q \in Request : HasSession(q)' <=>
          HasSession(q) \/ (q = r /\ pc'[r] = "updateProviderRef")
    BY <1>1, <1>4, <1>5 DEF HasSession
  <1>10. s \notin handedOut /\ \A e \in sent : e.session # s
    BY <1>1 DEF Control, SessionsOK, EventsOK
  <1>11. RequestsOK'
    <2> SUFFICES ASSUME NEW q \in Request
                 PROVE  RequestsOK!(q)'
      BY DEF RequestsOK
    <2>1. CASE q = r
      BY <1>1, <1>2, <1>3, <1>4, <1>5, <1>8, <1>9, <1>10, <2>1 DEF HasSession
    <2>2. CASE q # r
      <3>1. RequestsOK!(q)
        BY DEF Control, RequestsOK
      <3>2. HasSession(q)' <=> HasSession(q)
        BY <1>9, <2>2
      <3>3. pc[q] = "updateProviderRef" => HasSession(q)
        BY DEF HasSession
      <3> QED BY <1>1, <1>3, <1>4, <1>5, <1>8, <1>9, <2>2, <3>1, <3>2, <3>3
    <2> QED BY <2>1, <2>2
  <1>12. SessionsOK'
    <2>1. \A k \in Key : tx[k] # Null /\ tx[k].provider_ref \in Session => tx[k].provider_ref # s
      BY <1>1 DEF Control, SessionsOK
    <2> QED BY <1>1, <1>2, <1>3, <1>10, <2>1 DEF Control, TypeOK, SessionsOK
  <1>13. EventsOK'
    BY <1>1, <1>3, <1>10 DEF Control, TypeOK, EventsOK, StripeEvent
  <1>14. StatusOK'
    <2>1. \A k \in Key : tx[k] # Null /\ tx[k].provider_ref \in Session => tx[k].provider_ref # s
      BY <1>1 DEF Control, SessionsOK
    <2> QED BY <1>1, <1>3, <2>1 DEF Control, StatusOK
  <1>15. HandlersOK'
    BY <1>1, FoundStays
  <1> QED BY <1>6, <1>7, <1>11, <1>12, <1>13, <1>14, <1>15 DEF Control

LEMMA UpdateProviderRefStep ==
  ASSUME Control, NEW r \in Request, UpdateProviderRef(r)
  PROVE  Control'
PROOF
  <1> DEFINE k == input[r].key
             s == created[r]
  <1>1. /\ pc[r] = "updateProviderRef" /\ input[r] \in Inputs /\ k \in Key
        /\ tx' = [tx EXCEPT ![k].provider_ref = s]
        /\ pc' = [pc EXCEPT ![r] = "return"]
        /\ UNCHANGED <<storeVars, input, response, created, stripeVars, handlerVars>>
    BY InputFacts DEF UpdateProviderRef, WithProviderRef, Goto, Control, RequestsOK
  <1>2. /\ s \in Session /\ session[s] # Null /\ session[s].key = k
        /\ session[s].amount = input[r].amount /\ session[s].status = "open"
        /\ s \notin handedOut
        /\ \A q \in Request : HasSession(q) /\ created[q] = s => q = r
    BY <1>1 DEF Control, RequestsOK, HasSession
  <1>3. tx[k] = NewTransaction(input[r])
    BY <1>1 DEF Control, OneExecutor, Executing
  <1>4. /\ tx[k] \in Transaction /\ tx[k] # Null
        /\ tx[k].status = "PENDING" /\ tx[k].provider_ref = Null
        /\ tx[k].amount = input[r].amount /\ tx[k].amount \in Amount
    BY <1>1, <1>3, InputFacts
  <1>5. /\ tx'[k] = [tx[k] EXCEPT !.provider_ref = s]
        /\ \A l \in Key \ {k} : tx'[l] = tx[l]
    BY <1>1 DEF Control, TypeOK
  <1>6. /\ tx'[k] \in Transaction /\ tx'[k] # Null /\ tx'[k].provider_ref = s
        /\ tx'[k].status = "PENDING" /\ tx'[k].amount = tx[k].amount
    BY <1>2, <1>4, <1>5, ConstantFacts DEF Transaction
  <1>7. pc'[r] = "return" /\ \A q \in Request \ {r} : pc'[q] = pc[q]
    BY <1>1 DEF Control, TypeOK
  <1>8. TypeOK'
    <2>1. tx' \in [Key -> Transaction \cup {Null}] /\ pc' \in [Request -> Steps]
      BY <1>1, <1>5, <1>6 DEF Control, TypeOK, Steps
    <2> QED BY <1>1, <2>1, StoreStutters DEF Control, TypeOK, stripeVars, handlerVars
  <1>9. \A q \in Request : /\ Executing(q)' <=> Executing(q) /\ q # r
                           /\ HasSession(q)' <=> HasSession(q)
    BY <1>1, <1>7 DEF Executing, HasSession
  <1>10. \A q \in Request : Executing(q) => input[q] \in Inputs /\ input[q].key \in Key
    BY InputFacts DEF Control, RequestsOK, Executing
  <1>11. OneExecutor'
    <2>1. Executing(r)
      BY <1>1 DEF Executing
    <2>2. \A q \in Request : Executing(q) /\ q # r => input[q].key # k
      BY <2>1 DEF Control, OneExecutor
    <2> QED BY <1>1, <1>5, <1>9, <1>10, <2>2 DEF Control, OneExecutor, NewTransaction
  <1>12. RequestsOK'
    <2> SUFFICES ASSUME NEW q \in Request
                 PROVE  RequestsOK!(q)'
      BY DEF RequestsOK
    <2>1. RequestsOK!(q)
      BY DEF Control, RequestsOK
    <2>2. CASE q = r
      BY <1>1, <1>2, <1>6, <1>7, <1>9, <2>1, <2>2 DEF stripeVars
    <2>3. CASE q # r
      <3>1. pc[q] = "return" => input[q].key # k
        BY <1>4, <2>1, ConstantFacts DEF HasSession
      <3>2. pc[q] = "return" => input[q].key \in Key
        BY <2>1, InputFacts
      <3> QED BY <1>1, <1>5, <1>7, <1>9, <2>1, <2>3, <3>1, <3>2 DEF stripeVars
    <2> QED BY <2>2, <2>3
  <1>13. SessionsOK'
    <2>1. ASSUME NEW l \in Key, tx'[l] # Null, tx'[l].provider_ref \in Session
          PROVE  /\ session[tx'[l].provider_ref] # Null
                 /\ session[tx'[l].provider_ref].key = l
                 /\ session[tx'[l].provider_ref].amount = tx'[l].amount
      <3>1. CASE l = k
        BY <1>2, <1>4, <1>6, <3>1
      <3>2. CASE l # k
        BY <1>5, <2>1, <3>2 DEF Control, SessionsOK
      <3> QED BY <3>1, <3>2
    <2>2. ASSUME NEW x \in handedOut
          PROVE  /\ session[x] # Null /\ tx'[session[x].key] # Null
                 /\ tx'[session[x].key].provider_ref = x
      <3>1. /\ session[x] # Null /\ session[x].key \in Key
            /\ tx[session[x].key] # Null /\ tx[session[x].key].provider_ref = x
            /\ x \in Session
        BY ConstantFacts DEF Control, TypeOK, SessionsOK, CheckoutSession
      <3>2. session[x].key # k
        BY <1>4, <3>1, ConstantFacts
      <3> QED BY <1>5, <3>1, <3>2
    <2>3. UNCHANGED <<session, handedOut>>
      BY <1>1 DEF stripeVars
    <2> QED BY <2>1, <2>2, <2>3 DEF Control, SessionsOK
  <1>14. EventsOK'
    BY <1>1 DEF Control, EventsOK, stripeVars
  <1>15. StatusOK'
    BY <1>1, <1>2, <1>4, <1>5, <1>6, ConstantFacts DEF Control, StatusOK, stripeVars
  <1>16. HandlersOK'
    BY <1>1, <1>4, <1>5, FoundStays DEF stripeVars
  <1> QED BY <1>8, <1>11, <1>12, <1>13, <1>14, <1>15, <1>16 DEF Control

\* The URL goes to the client when the row has the session's id.
LEMMA ReturnUrlStep ==
  ASSUME Control, NEW r \in Request, ReturnUrl(r)
  PROVE  Control'
PROOF
  <1> DEFINE s == created[r]
  <1>1. /\ pc[r] = "return" /\ input[r] \in Inputs /\ input[r].key \in Key
        /\ handedOut' = handedOut \cup {s} /\ Answer(r, "checkoutUrl")
        /\ UNCHANGED <<storeVars, tx, session, sent, unacked, handlerVars>>
    BY InputFacts DEF ReturnUrl, Control, RequestsOK
  <1>2. /\ s \in Session /\ session[s] # Null /\ session[s].key = input[r].key
        /\ tx[input[r].key] # Null /\ tx[input[r].key].provider_ref = s
    BY <1>1 DEF Control, RequestsOK, HasSession
  <1>3. TypeOK'
    <2>1. /\ pc' \in [Request -> Steps] /\ response' \in [Request -> Responses]
          /\ created' \in [Request -> Session \cup {Null}] /\ input' = input
      BY <1>1 DEF Answer, Goto, Control, TypeOK, Steps, Responses
    <2> QED BY <1>1, <1>2, <2>1, StoreStutters DEF Control, TypeOK, handlerVars
  <1>4. OneExecutor' /\ RequestsOK'
    BY <1>1, AnswerKeepsRequests DEF Responses
  <1>5. SessionsOK'
    BY <1>1, <1>2 DEF Control, SessionsOK
  <1>6. EventsOK' /\ StatusOK'
    <2>1. EventsOK'
      BY <1>1 DEF Control, EventsOK
    <2>2. StatusOK'
      BY <1>1 DEF Control, StatusOK
    <2> QED BY <2>1, <2>2
  <1>7. HandlersOK'
    BY <1>1, FoundStays
  <1> QED BY <1>3, <1>4, <1>5, <1>6, <1>7 DEF Control

\* A session that is not settled yet gets further, and Stripe says so.
LEMMA SessionMoves ==
  ASSUME Control, NEW s \in Session,
         NEW before \in {"open", "processing"}, NEW after \in {"processing", "paid", "expired"},
         Becomes(s, before, after),
         NEW e \in StripeEvent, Emit(e), e.session = s,
         e.paid => after = "paid", e.type = "expired" => after = "expired",
         after # "expired" => s \in handedOut,
         \A r \in Request : pc[r] = "updateProviderRef" => created[r] # s,
         UNCHANGED <<storeVars, tx, requestVars, handedOut, handlerVars>>
  PROVE  Control'
PROOF
  <1>1. session[s] # Null /\ session[s].status = before /\ session[s] \in CheckoutSession
    BY DEF Becomes, Control, TypeOK
  <1>2. /\ session'[s] = [session[s] EXCEPT !.status = after]
        /\ \A x \in Session \ {s} : session'[x] = session[x]
    BY DEF Becomes, Control, TypeOK
  <1>3. /\ session'[s] \in CheckoutSession /\ session'[s] # Null
        /\ session'[s].key = session[s].key /\ session'[s].amount = session[s].amount
        /\ session'[s].status = after
    BY <1>1, <1>2, ConstantFacts DEF CheckoutSession
  <1>4. /\ \A x \in Session : /\ session'[x] # Null <=> session[x] # Null
                              /\ session'[x].key = session[x].key
                              /\ session'[x].amount = session[x].amount
        /\ session[s].status \notin {"paid", "expired"}
    BY <1>1, <1>2, <1>3
  <1>5. TypeOK'
    <2>1. session' \in [Session -> CheckoutSession \cup {Null}]
      BY <1>3 DEF Becomes, Control, TypeOK
    <2>2. sent' \subseteq StripeEvent /\ unacked' \subseteq sent' /\ sent \subseteq sent'
      BY DEF Emit, Control, TypeOK
    <2>3. event' \in [Handler -> sent' \cup {Null}]
      BY <2>2 DEF handlerVars, Control, TypeOK
    <2> QED BY <2>1, <2>2, <2>3, StoreStutters DEF Control, TypeOK, requestVars, handlerVars
  <1>6. OneExecutor'
    BY DEF Control, OneExecutor, Executing, requestVars
  <1>7. RequestsOK'
    <2> SUFFICES ASSUME NEW r \in Request
                 PROVE  RequestsOK!(r)'
      BY DEF RequestsOK
    <2>1. RequestsOK!(r)
      BY DEF Control, RequestsOK
    <2>2. \A q \in Request : HasSession(q)' <=> HasSession(q)
      BY DEF HasSession, requestVars
    <2>3. pc[r] = "updateProviderRef" => HasSession(r)
      BY DEF HasSession
    <2> QED BY <1>2, <1>4, <2>1, <2>2, <2>3 DEF requestVars
  <1>8. SessionsOK'
    <2>1. \A x \in handedOut : x \in Session
      BY DEF Control, TypeOK
    <2>2. \A k \in Key : SessionsOK!1!(k)'
      BY <1>2, <1>4 DEF Control, SessionsOK
    <2>3. \A x \in handedOut : SessionsOK!2!(x)'
      BY <1>2, <1>4, <2>1 DEF Control, SessionsOK
    <2>4. ASSUME NEW x \in Session
          PROVE  SessionsOK!3!(x)'
      <3>1. SessionsOK!3!(x)
        BY DEF Control, SessionsOK
      <3>2. CASE x = s
        BY <1>2, <1>3, <3>2
      <3>3. CASE x # s
        BY <1>2, <3>1, <3>3
      <3> QED BY <3>2, <3>3
    <2> QED BY <2>2, <2>3, <2>4 DEF SessionsOK
  <1>9. EventsOK'
    <2> SUFFICES ASSUME NEW x \in sent'
                 PROVE  EventsOK!(x)'
      BY DEF EventsOK
    <2>1. CASE x = e
      BY <1>3, <2>1
    <2>2. CASE x \in sent
      <3>1. EventsOK!(x) /\ x.session \in Session
        BY <2>2 DEF Control, TypeOK, EventsOK, StripeEvent
      <3>2. x.session = s => ~x.paid /\ x.type # "expired"
        BY <1>4, <3>1
      <3> QED BY <1>2, <1>4, <3>1, <3>2
    <2> QED BY <2>1, <2>2 DEF Emit
  <1>10. StatusOK'
    <2> SUFFICES ASSUME NEW k \in Key, tx[k] # Null
                 PROVE  StatusOK!(k)!2'
      BY DEF StatusOK
    <2>1. StatusOK!(k)!2
      BY DEF Control, StatusOK
    <2> QED BY <1>2, <1>4, <2>1
  <1>11. HandlersOK'
    <2>1. sent \subseteq sent'
      BY DEF Emit
    <2> QED BY <2>1, FoundStays
  <1> QED BY <1>5, <1>6, <1>7, <1>8, <1>9, <1>10, <1>11 DEF Control

LEMMA ReportFacts ==
  ASSUME NEW type \in {"completed", "expired", "async_payment_succeeded"},
         NEW paid \in BOOLEAN, NEW s \in Session
  PROVE  /\ Report(type, paid, s) \in StripeEvent
         /\ Report(type, paid, s).type = type
         /\ Report(type, paid, s).paid = paid
         /\ Report(type, paid, s).session = s
PROOF
  BY DEF Report, StripeEvent

LEMMA StripeStep ==
  ASSUME Control, NEW s \in Session, Pay(s) \/ Expire(s)
  PROVE  Control'
PROOF
  <1>1. CASE Pay(s)
    <2>1. /\ s \in handedOut
          /\ UNCHANGED <<storeVars, tx, requestVars, handedOut, handlerVars>>
      BY <1>1 DEF Pay
    <2>2. \A r \in Request : pc[r] = "updateProviderRef" => created[r] # s
      BY <2>1 DEF Control, RequestsOK
    <2> DEFINE Moves(before, after, e) ==
                 /\ before \in {"open", "processing"} /\ after \in {"processing", "paid"}
                 /\ Becomes(s, before, after) /\ Emit(e)
                 /\ e \in StripeEvent /\ e.session = s /\ e.type # "expired"
                 /\ e.paid => after = "paid"
    <2>3. ASSUME NEW before, NEW after, NEW e, Moves(before, after, e)
          PROVE  Control'
      BY <2>1, <2>2, <2>3, SessionMoves
    <2>4. CASE Becomes(s, "open", "paid") /\ Emit(Report("completed", TRUE, s))
      <3>1. Moves("open", "paid", Report("completed", TRUE, s))
        BY <2>4, ReportFacts
      <3> QED BY <2>3, <3>1
    <2>5. CASE Becomes(s, "open", "processing") /\ Emit(Report("completed", FALSE, s))
      <3>1. Moves("open", "processing", Report("completed", FALSE, s))
        BY <2>5, ReportFacts
      <3> QED BY <2>3, <3>1
    <2>6. CASE Becomes(s, "processing", "paid") /\ Emit(Report("async_payment_succeeded", TRUE, s))
      <3>1. Moves("processing", "paid", Report("async_payment_succeeded", TRUE, s))
        BY <2>6, ReportFacts
      <3> QED BY <2>3, <3>1
    <2> QED BY <1>1, <2>4, <2>5, <2>6 DEF Pay
  <1>2. CASE Expire(s)
    <2> DEFINE e == Report("expired", FALSE, s)
    <2>1. e \in StripeEvent /\ e.session = s /\ e.type = "expired" /\ e.paid = FALSE
      BY ReportFacts
    <2>2. /\ Becomes(s, "open", "expired") /\ Emit(e)
          /\ \A r \in Request : created[r] # s
          /\ UNCHANGED <<storeVars, tx, requestVars, handedOut, handlerVars>>
      BY <1>2 DEF Expire
    <2> HIDE DEF e
    <2> QED BY <2>1, <2>2, SessionMoves
  <1> QED BY <1>1, <1>2

\* A step of a handler that touches no row leaves the rest as it was.
LEMMA OnlyHandler ==
  ASSUME Control, UNCHANGED <<tx, requestVars, session, handedOut, sent>>
  PROVE  OneExecutor' /\ RequestsOK' /\ SessionsOK' /\ EventsOK' /\ StatusOK'
PROOF
  <1>1. OneExecutor'
    BY DEF Control, OneExecutor, Executing, requestVars
  <1>2. RequestsOK'
    BY DEF Control, RequestsOK, HasSession, requestVars
  <1>3. SessionsOK'
    BY DEF Control, SessionsOK
  <1>4. EventsOK'
    BY DEF Control, EventsOK
  <1>5. StatusOK'
    BY DEF Control, StatusOK
  <1> QED BY <1>1, <1>2, <1>3, <1>4, <1>5

\* What a handler's step must leave alone for handler g.
LEMMA OtherHandler ==
  ASSUME Control, NEW g \in Handler,
         hpc'[g] = hpc[g], event'[g] = event[g], found'[g] = found[g], wallet'[g] = wallet[g],
         sent' = sent,
         \A k \in Key : tx[k] # Null =>
           /\ tx'[k] # Null /\ tx'[k].provider_ref = tx[k].provider_ref
           /\ tx'[k].user = tx[k].user /\ tx'[k].currency = tx[k].currency
  PROVE  HandlersOK!(g)'
PROOF
  <1>1. HandlersOK!(g)
    BY DEF Control, HandlersOK
  <1>2. Settles(event[g])' <=> Settles(event[g])
    BY DEF Settles
  <1> QED BY <1>1, <1>2 DEF FoundRow, FoundWallet

LEMMA HandlerEndsStep ==
  ASSUME Control, NEW h \in Handler, HandlerEnds(h), StoreTypeOK',
         UNCHANGED <<tx, requestVars, session, handedOut, sent>>, unacked' \subseteq unacked
  PROVE  Control'
PROOF
  <1>1. /\ hpc'[h] = "idle"
        /\ \A g \in Handler \ {h} : /\ hpc'[g] = hpc[g] /\ event'[g] = event[g]
                                    /\ found'[g] = found[g] /\ wallet'[g] = wallet[g]
    BY DEF HandlerEnds, HGoto, Control, TypeOK
  <1>2. TypeOK'
    BY DEF HandlerEnds, HGoto, HandlerSteps, Control, TypeOK, requestVars
  <1>3. HandlersOK'
    <2> SUFFICES ASSUME NEW g \in Handler
                 PROVE  HandlersOK!(g)'
      BY DEF HandlersOK
    <2>1. CASE g = h
      BY <1>1, <2>1 DEF Settling, Failing, FoundRow, FoundWallet
    <2>2. CASE g # h
      BY <1>1, <2>2, OtherHandler
    <2> QED BY <2>1, <2>2
  <1> QED BY <1>2, <1>3, OnlyHandler DEF Control

LEMMA AcknowledgeStep ==
  ASSUME Control, NEW h \in Handler, Acknowledge(h), StoreTypeOK', UNCHANGED <<tx, requestVars>>
  PROVE  Control'
PROOF
  BY HandlerEndsStep DEF Acknowledge

LEMMA DeliverStep ==
  ASSUME Control, NEW h \in Handler, NEW e \in sent, Deliver(h, e)
  PROVE  Control'
PROOF
  <1>1. hpc[h] = "idle" /\ UNCHANGED <<storeVars, tx, requestVars, session, handedOut, sent>>
    BY DEF Deliver
  <1>2. ASSUME NEW step \in {"settleFind", "failFind"}, HGoto(h, step),
               event' = [event EXCEPT ![h] = e],
               step = "settleFind" => Settles(e), step = "failFind" => e.type = "expired",
               UNCHANGED <<unacked, found, wallet, row>>
        PROVE  Control'
    <2>1. /\ hpc'[h] = step /\ event'[h] = e
          /\ \A g \in Handler \ {h} : hpc'[g] = hpc[g] /\ event'[g] = event[g]
      BY <1>2 DEF HGoto, Control, TypeOK
    <2>2. TypeOK'
      BY <1>1, <1>2, StoreStutters DEF HGoto, HandlerSteps, Control, TypeOK, requestVars
    <2>3. HandlersOK'
      <3> SUFFICES ASSUME NEW g \in Handler
                   PROVE  HandlersOK!(g)'
        BY DEF HandlersOK
      <3>1. CASE g = h
        BY <1>1, <1>2, <2>1, <3>1 DEF Settling, Failing, FoundRow, FoundWallet, Settles
      <3>2. CASE g # h
        BY <1>1, <1>2, <2>1, <3>2, OtherHandler
      <3> QED BY <3>1, <3>2
    <2> QED BY <1>1, <2>2, <2>3, OnlyHandler DEF Control
  <1>3. CASE unacked' = unacked \ {e} /\ UNCHANGED handlerVars
    <2>1. TypeOK'
      BY <1>1, <1>3, StoreStutters DEF Control, TypeOK, requestVars, handlerVars
    <2> QED BY <1>1, <1>3, <2>1, OnlyHandler, FoundStays DEF Control
  <1> QED BY <1>2, <1>3 DEF Deliver

LEMMA FindPendingStep ==
  ASSUME Control, NEW h \in Handler, SettleFind(h) \/ FailFind(h)
  PROVE  Control'
PROOF
  <1>1. PICK step \in {"settleFind", "failFind"}, next \in {"findWallet", "failUpdate"} :
          FindPending(h, step, next) /\ (step = "settleFind" <=> next = "findWallet")
    BY DEF SettleFind, FailFind
  <1>2. hpc[h] = step /\ UNCHANGED <<storeVars, tx, requestVars>> /\ StoreTypeOK'
    BY <1>1, StoreStutters DEF FindPending, Control, TypeOK
  <1>3. CASE Acknowledge(h)
    BY <1>2, <1>3, AcknowledgeStep
  <1>4. ASSUME NEW k \in PendingWith(event[h].session),
               found' = [found EXCEPT ![h] = k], HGoto(h, next),
               UNCHANGED <<event, wallet, row, stripeVars>>
        PROVE  Control'
    <2>1. k \in Key /\ tx[k] # Null /\ tx[k].provider_ref = event[h].session
      BY <1>4 DEF PendingWith
    <2>2. /\ hpc'[h] = next /\ found'[h] = k
          /\ \A g \in Handler \ {h} : hpc'[g] = hpc[g] /\ found'[g] = found[g]
      BY <1>4, <2>1 DEF HGoto, Control, TypeOK
    <2>3. TypeOK'
      BY <1>2, <1>4, <2>1 DEF HGoto, HandlerSteps, Control, TypeOK, requestVars, stripeVars
    <2>4. HandlersOK'
      <3> SUFFICES ASSUME NEW g \in Handler
                   PROVE  HandlersOK!(g)'
        BY DEF HandlersOK
      <3>1. CASE g = h
        <4>1. HandlersOK!(h)
          BY DEF Control, HandlersOK
        <4> QED
          BY <1>1, <1>2, <1>4, <2>1, <2>2, <3>1, <4>1
          DEF Settling, Failing, FoundRow, FoundWallet, Settles, stripeVars
      <3>2. CASE g # h
        BY <1>2, <1>4, <2>2, <3>2, OtherHandler DEF stripeVars
      <3> QED BY <3>1, <3>2
    <2> QED BY <1>2, <1>4, <2>3, <2>4, OnlyHandler DEF Control, stripeVars
  <1> QED BY <1>1, <1>3, <1>4 DEF FindPending

LEMMA SettleFindWalletStep ==
  ASSUME Control, NEW h \in Handler, SettleFindWallet(h)
  PROVE  Control'
PROOF
  <1>1. hpc[h] = "findWallet" /\ UNCHANGED <<storeVars, tx, requestVars>> /\ StoreTypeOK'
    BY StoreStutters DEF SettleFindWallet, Control, TypeOK
  <1>2. CASE Acknowledge(h)
    BY <1>1, <1>2, AcknowledgeStep
  <1>3. ASSUME NEW w \in WalletsOf(tx[found[h]].user, tx[found[h]].currency),
               wallet' = [wallet EXCEPT ![h] = w], HGoto(h, "lockWallet"),
               UNCHANGED <<event, found, row, stripeVars>>
        PROVE  Control'
    <2>1. w \in Wallet /\ Owner[w] = tx[found[h]].user /\ CurrencyOf[w] = tx[found[h]].currency
      BY <1>3 DEF WalletsOf, Control, TypeOK, StoreTypeOK
    <2>2. /\ hpc'[h] = "lockWallet" /\ wallet'[h] = w
          /\ \A g \in Handler \ {h} : hpc'[g] = hpc[g] /\ wallet'[g] = wallet[g]
      BY <1>3, <2>1 DEF HGoto, Control, TypeOK
    <2>3. TypeOK'
      BY <1>1, <1>3, <2>1 DEF HGoto, HandlerSteps, Control, TypeOK, requestVars, stripeVars
    <2>4. HandlersOK'
      <3> SUFFICES ASSUME NEW g \in Handler
                   PROVE  HandlersOK!(g)'
        BY DEF HandlersOK
      <3>1. CASE g = h
        <4>1. HandlersOK!(h)
          BY DEF Control, HandlersOK
        <4> QED
          BY <1>1, <1>3, <2>1, <2>2, <3>1, <4>1
          DEF Settling, Failing, FoundRow, FoundWallet, Settles, stripeVars
      <3>2. CASE g # h
        BY <1>1, <1>3, <2>2, <3>2, OtherHandler DEF stripeVars
      <3> QED BY <3>1, <3>2
    <2> QED BY <1>1, <1>3, <2>3, <2>4, OnlyHandler DEF Control, stripeVars
  <1> QED BY <1>2, <1>3 DEF SettleFindWallet

\* What SELECT ... FOR UPDATE returns and leaves.
LEMMA LockWalletStep ==
  ASSUME Control, NEW h \in Handler, LockWallet(h)
  PROVE  Control'
PROOF
  <1>1. /\ hpc[h] = "lockWallet" /\ wallet[h] \in Wallet
        /\ LockRow(h, wallet[h])
        /\ row' = [row EXCEPT ![h] = RowRead(wallet[h])]
        /\ hpc' = [hpc EXCEPT ![h] = "settle"]
        /\ UNCHANGED <<users, live, balance, ledger, outbox, cache, tx, requestVars,
                       stripeVars, event, found, wallet>>
    BY DEF LockWallet, HGoto, Control, HandlersOK, FoundWallet
  <1>2. lock' \in [Wallet -> Holder \cup {Null}] /\ RowRead(wallet[h]) \in Int \cup {Null}
    BY <1>1, Locked, ConstantFacts DEF Control, TypeOK
  <1>3. TypeOK'
    BY <1>1, <1>2 DEF Control, TypeOK, StoreTypeOK, HandlerSteps, requestVars, stripeVars
  <1>4. HandlersOK'
    <2> SUFFICES ASSUME NEW g \in Handler
                 PROVE  HandlersOK!(g)'
      BY DEF HandlersOK
    <2>1. CASE g = h
      <3>1. HandlersOK!(h)
        BY DEF Control, HandlersOK
      <3>2. hpc'[h] = "settle"
        BY <1>1 DEF Control, TypeOK
      <3> QED
        BY <1>1, <2>1, <3>1, <3>2
        DEF Settling, Failing, FoundRow, FoundWallet, Settles, stripeVars
    <2>2. CASE g # h
      <3>1. hpc'[g] = hpc[g]
        BY <1>1, <2>2 DEF Control, TypeOK
      <3> QED BY <1>1, <3>1, OtherHandler DEF stripeVars
    <2> QED BY <2>1, <2>2
  <1> QED BY <1>1, <1>3, <1>4, OnlyHandler DEF Control, stripeVars

\* A row whose session is settled gets the status of the session.
LEMMA StatusMoves ==
  ASSUME Control, NEW k \in Key, tx[k] # Null, NEW s \in Session, tx[k].provider_ref = s,
         NEW status \in {"COMPLETED", "FAILED"},
         tx' = [tx EXCEPT ![k].status = status],
         status = "COMPLETED" => session[s].status = "paid",
         status = "FAILED" => session[s].status = "expired",
         UNCHANGED <<requestVars, session, handedOut, sent>>
  PROVE  /\ tx' \in [Key -> Transaction \cup {Null}]
         /\ tx'[k] = [tx[k] EXCEPT !.status = status]
         /\ tx'[k] \in Transaction /\ tx'[k].status = status
         /\ \A l \in Key \ {k} : tx'[l] = tx[l]
         /\ \A l \in Key : /\ tx'[l] # Null <=> tx[l] # Null
                           /\ tx'[l].provider_ref = tx[l].provider_ref
                           /\ tx'[l].user = tx[l].user /\ tx'[l].currency = tx[l].currency
                           /\ tx'[l].amount = tx[l].amount
         /\ OneExecutor' /\ RequestsOK' /\ SessionsOK' /\ EventsOK' /\ StatusOK'
PROOF
  <1>1. /\ tx'[k] = [tx[k] EXCEPT !.status = status] /\ tx[k] \in Transaction
        /\ \A l \in Key \ {k} : tx'[l] = tx[l]
    BY DEF Control, TypeOK
  <1>2. /\ tx'[k] \in Transaction /\ tx'[k] # Null /\ tx'[k].status = status
        /\ tx'[k].provider_ref = s /\ tx'[k].user = tx[k].user
        /\ tx'[k].currency = tx[k].currency /\ tx'[k].amount = tx[k].amount
    BY <1>1, ConstantFacts DEF Transaction, TransactionStatus
  <1>3. tx' \in [Key -> Transaction \cup {Null}]
    BY <1>1, <1>2 DEF Control, TypeOK
  <1>4. \A l \in Key : /\ tx'[l] # Null <=> tx[l] # Null
                       /\ tx'[l].provider_ref = tx[l].provider_ref
                       /\ tx'[l].user = tx[l].user /\ tx'[l].currency = tx[l].currency
                       /\ tx'[l].amount = tx[l].amount
    BY <1>1, <1>2
  <1>5. OneExecutor'
    <2>1. ASSUME NEW r \in Request, Executing(r)
          PROVE  /\ input[r].key \in Key /\ tx'[input[r].key] = tx[input[r].key]
      <3>1. input[r] \in Inputs
        BY <2>1 DEF Control, RequestsOK, Executing
      <3>2. input[r].key \in Key /\ tx[input[r].key].provider_ref = Null
        BY <2>1, <3>1, InputFacts DEF Control, OneExecutor
      <3> QED BY <1>1, <3>2, ConstantFacts
    <2> QED BY <2>1 DEF Control, OneExecutor, Executing, NewTransaction, requestVars
  <1>6. RequestsOK'
    <2> SUFFICES ASSUME NEW r \in Request
                 PROVE  RequestsOK!(r)'
      BY DEF RequestsOK
    <2>1. RequestsOK!(r)
      BY DEF Control, RequestsOK
    <2>2. \A q \in Request : HasSession(q)' <=> HasSession(q)
      BY DEF HasSession, requestVars
    <2>3. pc[r] = "return" => input[r].key \in Key
      BY <2>1, InputFacts
    <2> QED BY <1>4, <2>1, <2>2, <2>3 DEF requestVars
  <1>7. SessionsOK'
    <2>1. \A l \in Key : SessionsOK!1!(l)'
      BY <1>4 DEF Control, SessionsOK
    <2>2. \A x \in handedOut : SessionsOK!2!(x)'
      <3>1. \A x \in handedOut : session[x] # Null => session[x].key \in Key
        BY DEF Control, TypeOK, CheckoutSession
      <3> QED BY <1>4, <3>1 DEF Control, SessionsOK
    <2>3. \A x \in Session : SessionsOK!3!(x)'
      BY DEF Control, SessionsOK
    <2> QED BY <2>1, <2>2, <2>3 DEF SessionsOK
  <1>8. EventsOK'
    BY DEF Control, EventsOK
  <1>9. StatusOK'
    <2> SUFFICES ASSUME NEW l \in Key, tx'[l] # Null
                 PROVE  StatusOK!(l)!2'
      BY DEF StatusOK
    <2>1. CASE l = k
      BY <1>2, <2>1, ConstantFacts
    <2>2. CASE l # k
      BY <1>1, <2>2 DEF Control, StatusOK
    <2> QED BY <2>1, <2>2
  <1> QED BY <1>1, <1>2, <1>3, <1>4, <1>5, <1>6, <1>7, <1>8, <1>9

\* The row a handler found, and how its session stands.
LEMMA FoundFacts ==
  ASSUME Control, NEW h \in Handler, hpc[h] \in FoundRow
  PROVE  /\ found[h] \in Key /\ tx[found[h]] # Null /\ tx[found[h]] \in Transaction
         /\ event[h].session \in Session /\ event[h] \in sent
         /\ tx[found[h]].provider_ref = event[h].session
         /\ hpc[h] \in Settling => session[event[h].session].status = "paid"
         /\ hpc[h] \in Failing => session[event[h].session].status = "expired"
         /\ tx[found[h]].amount \in Nat
PROOF
  <1>1. HandlersOK!(h) /\ hpc[h] # "idle"
    BY DEF Control, HandlersOK, FoundRow
  <1>2. event[h] \in sent /\ event[h] \in StripeEvent /\ EventsOK!(event[h])
    BY <1>1 DEF Control, TypeOK, EventsOK
  <1>3. event[h].session \in Session
    BY <1>2 DEF StripeEvent
  <1>4. tx[found[h]] \in Transaction
    BY <1>1 DEF Control, TypeOK
  <1> QED BY <1>1, <1>2, <1>3, <1>4 DEF Settles, Transaction

LEMMA SettleStep ==
  ASSUME Control, NEW h \in Handler, Settle(h)
  PROVE  Control'
PROOF
  <1> DEFINE k == found[h]
             w == wallet[h]
             s == event[h].session
  <1>1. hpc[h] = "settle" /\ row[h] # Null /\ hpc[h] \in Settling
        /\ hpc[h] \in FoundRow /\ hpc[h] \in FoundWallet
    BY DEF Settle, Settling, FoundRow, FoundWallet
  <1>2. /\ k \in Key /\ tx[k] # Null /\ s \in Session /\ tx[k].provider_ref = s
        /\ session[s].status = "paid" /\ tx[k].amount \in Nat
        /\ w \in Wallet /\ row[h] \in Int
    BY <1>1, FoundFacts DEF Control, TypeOK, HandlersOK
  <1>3. tx' = [tx EXCEPT ![k].status = "COMPLETED"]
        /\ UNCHANGED <<users, live, cache, requestVars, stripeVars, event, found, wallet>>
    BY DEF Settle, MarkedCompleted
  <1>4. /\ tx' \in [Key -> Transaction \cup {Null}]
        /\ \A l \in Key : /\ tx'[l] # Null <=> tx[l] # Null
                          /\ tx'[l].provider_ref = tx[l].provider_ref
                          /\ tx'[l].user = tx[l].user /\ tx'[l].currency = tx[l].currency
        /\ OneExecutor' /\ RequestsOK' /\ SessionsOK' /\ EventsOK' /\ StatusOK'
    BY <1>2, <1>3, StatusMoves DEF stripeVars
  <1>5. StoreTypeOK'
    <2> DEFINE e == Entry("DEPOSIT", tx[k].amount, row[h] + tx[k].amount, k)
    <2>1. e \in LedgerEntry
      BY <1>2 DEF Entry, LedgerEntry, LedgerEntryType, LedgerKey
    <2>2. ledger' = [ledger EXCEPT ![w] = Append(@, e)]
      BY DEF Settle
    <2> HIDE DEF e
    <2>3. ledger' \in [Wallet -> Seq(LedgerEntry)]
      BY <1>2, <2>1, <2>2 DEF Control, TypeOK, StoreTypeOK
    <2>4. balance' \in [Wallet -> Int]
      <3>1. balance' = [balance EXCEPT ![w] = row[h] + tx[k].amount] /\ row[h] + tx[k].amount \in Int
        BY <1>2 DEF Settle
      <3> QED BY <3>1 DEF Control, TypeOK, StoreTypeOK
    <2>5. outbox' \in [OutboxEvent -> Nat]
      BY <1>2, SavedEvent DEF Settle, Control, TypeOK, StoreTypeOK
    <2>6. lock' \in [Wallet -> Holder \cup {Null}]
      BY ReleaseTypes DEF Settle, Control, TypeOK, StoreTypeOK
    <2> QED BY <1>3, <2>3, <2>4, <2>5, <2>6 DEF Control, TypeOK, StoreTypeOK
  <1>6. hpc' = [hpc EXCEPT ![h] = "invalidate"] /\ row' = [row EXCEPT ![h] = Null]
    BY DEF Settle, HGoto
  <1>7. TypeOK'
    BY <1>3, <1>4, <1>5, <1>6 DEF Control, TypeOK, HandlerSteps, requestVars, stripeVars
  <1>8. HandlersOK'
    <2> SUFFICES ASSUME NEW g \in Handler
                 PROVE  HandlersOK!(g)'
      BY DEF HandlersOK
    <2>1. CASE g = h
      <3>1. HandlersOK!(h)
        BY DEF Control, HandlersOK
      <3>2. hpc'[h] = "invalidate"
        BY <1>6 DEF Control, TypeOK
      <3> QED
        BY <1>1, <1>2, <1>3, <1>4, <2>1, <3>1, <3>2
        DEF Settling, Failing, FoundRow, FoundWallet, Settles, stripeVars
    <2>2. CASE g # h
      <3>1. hpc'[g] = hpc[g]
        BY <1>6, <2>2 DEF Control, TypeOK
      <3> QED BY <1>3, <1>4, <3>1, OtherHandler DEF stripeVars
    <2> QED BY <2>1, <2>2
  <1> QED BY <1>4, <1>7, <1>8 DEF Control

LEMMA FailUpdateStep ==
  ASSUME Control, NEW h \in Handler, FailUpdate(h)
  PROVE  Control'
PROOF
  <1> DEFINE k == found[h]
             s == event[h].session
  <1>1. hpc[h] = "failUpdate" /\ hpc[h] \in Failing /\ hpc[h] \in FoundRow
    BY DEF FailUpdate, Failing, FoundRow
  <1>2. /\ k \in Key /\ tx[k] # Null /\ s \in Session /\ tx[k].provider_ref = s
        /\ session[s].status = "expired"
    BY <1>1, FoundFacts
  <1>3. /\ tx' = [tx EXCEPT ![k].status = "FAILED"] /\ HandlerEnds(h) /\ unacked' \subseteq unacked
        /\ UNCHANGED <<storeVars, requestVars, session, handedOut, sent>>
    BY DEF FailUpdate, Acknowledge
  <1>4. /\ tx' \in [Key -> Transaction \cup {Null}]
        /\ \A l \in Key : /\ tx'[l] # Null <=> tx[l] # Null
                          /\ tx'[l].provider_ref = tx[l].provider_ref
                          /\ tx'[l].user = tx[l].user /\ tx'[l].currency = tx[l].currency
        /\ OneExecutor' /\ RequestsOK' /\ SessionsOK' /\ EventsOK' /\ StatusOK'
    BY <1>2, <1>3, StatusMoves
  <1>5. /\ hpc'[h] = "idle"
        /\ \A g \in Handler \ {h} : /\ hpc'[g] = hpc[g] /\ event'[g] = event[g]
                                    /\ found'[g] = found[g] /\ wallet'[g] = wallet[g]
    BY <1>3 DEF HandlerEnds, HGoto, Control, TypeOK
  <1>6. TypeOK'
    BY <1>3, <1>4, StoreStutters DEF HandlerEnds, HGoto, HandlerSteps, Control, TypeOK, requestVars
  <1>7. HandlersOK'
    <2> SUFFICES ASSUME NEW g \in Handler
                 PROVE  HandlersOK!(g)'
      BY DEF HandlersOK
    <2>1. CASE g = h
      BY <1>5, <2>1 DEF Settling, Failing, FoundRow, FoundWallet
    <2>2. CASE g # h
      BY <1>3, <1>4, <1>5, <2>2, OtherHandler
    <2> QED BY <2>1, <2>2
  <1> QED BY <1>4, <1>6, <1>7 DEF Control

LEMMA HandlerFailsStep ==
  ASSUME Control, NEW h \in Handler, HandlerFails(h)
  PROVE  Control'
PROOF
  <1>1. StoreTypeOK'
    BY ReleaseTypes DEF HandlerFails, Control, TypeOK, StoreTypeOK
  <1> QED BY <1>1, HandlerEndsStep DEF HandlerFails, NotAcknowledged, stripeVars

LEMMA InvalidateCacheStep ==
  ASSUME Control, NEW h \in Handler, InvalidateCache(h)
  PROVE  Control'
PROOF
  <1>1. StoreTypeOK'
    BY DEF InvalidateCache, Control, TypeOK, StoreTypeOK
  <1> QED BY <1>1, AcknowledgeStep DEF InvalidateCache

\* Steps that leave everything but the store as it was.
LEMMA StoreOnly ==
  ASSUME Control, StoreTypeOK', UNCHANGED <<tx, requestVars, stripeVars, handlerVars>>
  PROVE  Control'
PROOF
  <1>1. TypeOK'
    BY DEF Control, TypeOK, requestVars, stripeVars, handlerVars
  <1>2. OneExecutor' /\ RequestsOK' /\ SessionsOK' /\ EventsOK' /\ StatusOK'
    BY OnlyHandler DEF stripeVars
  <1>3. HandlersOK'
    BY FoundStays DEF stripeVars
  <1> QED BY <1>1, <1>2, <1>3 DEF Control

LEMMA ControlStep == Control /\ [Next]_vars => Control'
PROOF
  <1> SUFFICES ASSUME Control, [Next]_vars PROVE Control'
    OBVIOUS
  <1>1. ASSUME NEW r \in Request, RequestNext(r)
        PROVE  Control'
    <2>1. ASSUME UnsupportedMethod(r) \/ Fail(r)
          PROVE  Control'
      BY <2>1, AnswerKeepsControl DEF UnsupportedMethod, Fail, Responses
    <2> QED
      BY <1>1, <2>1, ArriveStep, FindStep, CreateTransactionStep, CreateSessionStep,
         UpdateProviderRefStep, ReturnUrlStep DEF RequestNext
  <1>2. ASSUME NEW h \in Handler, HandlerNext(h)
        PROVE  Control'
    <2>1. ASSUME SettleRefused(h)
          PROVE  HandlerFails(h)
      BY <2>1 DEF SettleRefused
    <2> QED
      BY <1>2, <2>1, DeliverStep, FindPendingStep, SettleFindWalletStep, LockWalletStep,
         SettleStep, InvalidateCacheStep, FailUpdateStep, HandlerFailsStep DEF HandlerNext
  <1>3. ASSUME NEW u \in User, RemoveUser(u)
        PROVE  Control'
    BY <1>3, DeleteTypes, StoreOnly DEF RemoveUser, Control, TypeOK
  <1>4. CASE UNCHANGED vars
    BY <1>4, StoreStutters, StoreOnly DEF vars, Control, TypeOK
  <1> QED BY <1>1, <1>2, <1>3, <1>4, StripeStep DEF Next

LEMMA ControlInvariant == Spec => []Control
PROOF
  BY ControlInit, ControlStep, PTL DEF Spec

\* Every variable keeps its type: in particular no handler settles a missing
\* row or credits an amount that is not a number.
THEOREM Types == Spec => []TypeOK
PROOF
  <1>1. Control => TypeOK
    BY DEF Control
  <1> QED BY <1>1, ControlInvariant, PTL

-----------------------------------------------------------------------------
(* Isolation.                                                              *)
LEMMA IsolationInit == Init => Isolation
PROOF
  BY ConstantFacts DEF Init, StoreInit, Isolation

\* What anybody's step must leave alone for handler h.
LEMMA IsolationKept ==
  ASSUME Control, Isolation, NEW h \in Handler,
         hpc'[h] = hpc[h], wallet'[h] = wallet[h], row'[h] = row[h],
         \A w \in Wallet : lock'[w] = h <=> lock[w] = h,
         \A w \in Wallet : lock[w] = h => balance'[w] = balance[w]
  PROVE  Isolation!(h)'
PROOF
  <1>1. Isolation!(h)
    BY DEF Isolation
  <1>2. row[h] # Null => wallet[h] \in Wallet
    BY <1>1 DEF Control, HandlersOK, FoundWallet
  <1> QED BY <1>1, <1>2

\* A handler that holds no lock and touches none.
LEMMA QuietHandler ==
  ASSUME Control, Isolation, NEW h \in Handler,
         hpc[h] # "settle", row'[h] \in {row[h], Null},
         \A g \in Handler \ {h} : hpc'[g] = hpc[g] /\ wallet'[g] = wallet[g] /\ row'[g] = row[g],
         UNCHANGED <<lock, balance>>
  PROVE  Isolation'
PROOF
  <1>1. row'[h] = Null /\ \A w \in Wallet : lock'[w] # h
    BY DEF Isolation
  <1>2. \A g \in Handler \ {h} : Isolation!(g)'
    BY IsolationKept
  <1> QED BY <1>1, <1>2 DEF Isolation

\* COMMIT or ROLLBACK: the handler gives its lock back and forgets the row.
LEMMA ReleaseStep ==
  ASSUME Control, Isolation, NEW h \in Handler, ReleaseLocks(h), row'[h] = Null,
         \A g \in Handler \ {h} : hpc'[g] = hpc[g] /\ wallet'[g] = wallet[g] /\ row'[g] = row[g],
         \A w \in Wallet : balance'[w] = balance[w] \/ lock[w] = h
  PROVE  Isolation'
PROOF
  <1>1. \A w \in Wallet : /\ lock'[w] # h
                          /\ \A g \in Handler \ {h} : lock'[w] = g <=> lock[w] = g
    BY Released, ConstantFacts
  <1>2. \A g \in Handler \ {h} : Isolation!(g)'
    BY <1>1, IsolationKept
  <1> QED BY <1>1, <1>2 DEF Isolation

\* What a settlement works on: the locked wallet of the transaction's user,
\* with the balance it has now.
LEMMA SettleFacts ==
  ASSUME Control, Isolation, NEW h \in Handler, Settle(h)
  PROVE  \E k \in Key, w \in Wallet, a \in Nat, e \in LedgerEntry :
           /\ k = found[h] /\ w = wallet[h] /\ a = tx[k].amount
           /\ tx[k] # Null /\ tx[k] \in Transaction /\ tx[k].status # "FAILED"
           /\ tx[k].provider_ref \in Session
           /\ Owner[w] = tx[k].user /\ CurrencyOf[w] = tx[k].currency
           /\ lock[w] = h
           /\ ~LedgerKeyTaken(k)
           /\ balance' = [balance EXCEPT ![w] = e.balance_after]
           /\ e.balance_after = balance[w] + e.amount
           /\ ledger' = [ledger EXCEPT ![w] = Append(@, e)]
           /\ e.type = "DEPOSIT" /\ e.amount = a /\ Signed(e) = e.amount
           /\ e.idempotency_key = k
           /\ tx' = [tx EXCEPT ![k].status = "COMPLETED"]
           /\ SaveOutbox("DepositSucceeded", k)
PROOF
  <1> DEFINE k == found[h]
             w == wallet[h]
             a == tx[k].amount
             e == Entry("DEPOSIT", a, balance[w] + a, k)
  <1>1. /\ hpc[h] = "settle" /\ row[h] # Null /\ hpc[h] \in Settling
        /\ hpc[h] \in FoundRow /\ hpc[h] \in FoundWallet
    BY DEF Settle, Settling, FoundRow, FoundWallet
  <1>2. /\ k \in Key /\ a \in Nat /\ tx[k] # Null /\ tx[k] \in Transaction
        /\ tx[k].provider_ref \in Session /\ session[tx[k].provider_ref].status = "paid"
    BY <1>1, FoundFacts
  <1>3. tx[k].status # "FAILED"
    BY <1>2 DEF Control, StatusOK
  <1>4. w \in Wallet /\ Owner[w] = tx[k].user /\ CurrencyOf[w] = tx[k].currency
    BY <1>1 DEF Control, HandlersOK
  <1>5. lock[w] = h /\ row[h] = balance[w]
    BY <1>1 DEF Isolation
  <1>6. /\ e.type = "DEPOSIT" /\ e.amount = a /\ e.balance_after = balance[w] + a
        /\ e.idempotency_key = k
    BY DEF Entry
  <1>7. Signed(e) = e.amount
    BY <1>6 DEF Signed
  <1>8. /\ balance' = [balance EXCEPT ![w] = e.balance_after]
        /\ ledger' = [ledger EXCEPT ![w] = Append(@, e)]
        /\ tx' = [tx EXCEPT ![k].status = "COMPLETED"]
        /\ ~LedgerKeyTaken(k) /\ SaveOutbox("DepositSucceeded", k)
    BY <1>5, <1>6 DEF Settle, MarkedCompleted
  <1>9. e \in LedgerEntry
    <2>1. balance[w] \in Int /\ balance[w] + a \in Int
      BY <1>2, <1>4 DEF Control, TypeOK, StoreTypeOK
    <2> QED BY <1>2, <2>1 DEF Entry, LedgerEntry, LedgerEntryType, LedgerKey
  <1> HIDE DEF e
  <1> k \in Key /\ w \in Wallet /\ a \in Nat /\ e \in LedgerEntry
    BY <1>2, <1>4, <1>9
  <1> WITNESS k \in Key, w \in Wallet, a \in Nat, e \in LedgerEntry
  <1> QED BY <1>2, <1>3, <1>4, <1>5, <1>6, <1>7, <1>8

LEMMA IsolationStep == Control /\ Isolation /\ [Next]_vars => Isolation'
PROOF
  <1> SUFFICES ASSUME Control, Isolation, [Next]_vars PROVE Isolation'
    OBVIOUS
  <1>1. CASE UNCHANGED <<lock, balance, handlerVars>>
    BY <1>1 DEF Isolation, handlerVars
  <1>2. ASSUME NEW r \in Request, RequestNext(r)
        PROVE  UNCHANGED <<lock, balance, handlerVars>>
    BY <1>2 DEF RequestNext, Arrive, FindExisting, FindWallet, CreateTransaction,
                UnsupportedMethod, CreateSession, UpdateProviderRef, ReturnUrl, Fail, storeVars
  <1>3. ASSUME NEW s \in Session, Pay(s) \/ Expire(s)
        PROVE  UNCHANGED <<lock, balance, handlerVars>>
    BY <1>3 DEF Pay, Expire, storeVars
  <1>4. ASSUME NEW u \in User, RemoveUser(u)
        PROVE  UNCHANGED <<lock, balance, handlerVars>>
    BY <1>4 DEF RemoveUser, DeleteUser
  <1>5. ASSUME UNCHANGED vars
        PROVE  UNCHANGED <<lock, balance, handlerVars>>
    BY <1>5 DEF vars, storeVars
  <1>6. ASSUME NEW h \in Handler, HandlerNext(h)
        PROVE  Isolation'
    <2>1. ASSUME NEW e \in sent, Deliver(h, e)
          PROVE  Isolation'
      BY <2>1, QuietHandler DEF Deliver, HGoto, storeVars, handlerVars, Control, TypeOK
    <2>2. ASSUME SettleFind(h) \/ FailFind(h)
          PROVE  Isolation'
      BY <2>2, QuietHandler DEF SettleFind, FailFind, FindPending, Acknowledge, HandlerEnds,
                                HGoto, storeVars, Control, TypeOK
    <2>3. ASSUME SettleFindWallet(h)
          PROVE  Isolation'
      BY <2>3, QuietHandler DEF SettleFindWallet, Acknowledge, HandlerEnds,
                                HGoto, storeVars, Control, TypeOK
    <2>4. ASSUME FailUpdate(h) \/ InvalidateCache(h)
          PROVE  Isolation'
      BY <2>4, QuietHandler DEF FailUpdate, InvalidateCache, Acknowledge, HandlerEnds,
                                HGoto, storeVars, Control, TypeOK
    <2>5. ASSUME LockWallet(h)
          PROVE  Isolation'
      <3>1. /\ hpc[h] = "lockWallet" /\ wallet[h] \in Wallet /\ h \in Holder /\ h # Null
            /\ LockRow(h, wallet[h]) /\ balance' = balance /\ wallet' = wallet
            /\ hpc' = [hpc EXCEPT ![h] = "settle"]
            /\ row' = [row EXCEPT ![h] = RowRead(wallet[h])]
        BY <2>5, ConstantFacts DEF LockWallet, HGoto, Control, HandlersOK, FoundWallet
      <3>2. /\ hpc'[h] = "settle" /\ row'[h] = RowRead(wallet[h])
            /\ \A g \in Handler \ {h} : hpc'[g] = hpc[g] /\ row'[g] = row[g]
        BY <3>1 DEF Control, TypeOK
      <3>3. \A w \in Wallet : lock[w] # h
        BY <3>1 DEF Isolation
      <3>4. /\ \A g \in Handler \ {h} : \A w \in Wallet : lock'[w] = g <=> lock[w] = g
            /\ \A w \in Wallet \ {wallet[h]} : lock'[w] = lock[w]
            /\ RowRead(wallet[h]) # Null =>
                 lock'[wallet[h]] = h /\ RowRead(wallet[h]) = balance[wallet[h]]
        <4>1. StoreTypeOK /\ h \in Holder /\ wallet[h] \in Wallet /\ LockRow(h, wallet[h])
          BY <3>1 DEF Control, TypeOK
        <4>2. \A g \in Handler \ {h} : g # h /\ g # Null
          BY ConstantFacts
        <4> QED BY <4>1, <4>2, Locked
      <3>5. \A g \in Handler \ {h} : Isolation!(g)'
        BY <3>1, <3>2, <3>4, IsolationKept
      <3>6. Isolation!(h)'
        BY <3>1, <3>2, <3>3, <3>4
      <3> QED BY <3>5, <3>6 DEF Isolation
    <2>6. ASSUME Settle(h)
          PROVE  Isolation'
      <3>1. \A w \in Wallet : balance'[w] = balance[w] \/ lock[w] = h
        BY <2>6, SettleFacts DEF Control, TypeOK, StoreTypeOK
      <3> QED BY <2>6, <3>1, ReleaseStep DEF Settle, HGoto, Control, TypeOK
    <2>7. ASSUME HandlerFails(h)
          PROVE  Isolation'
      BY <2>7, ReleaseStep DEF HandlerFails, HandlerEnds, HGoto, Control, TypeOK
    <2>8. SettleRefused(h) => HandlerFails(h)
      BY DEF SettleRefused
    <2> QED
      BY <1>6, <2>1, <2>2, <2>3, <2>4, <2>5, <2>6, <2>7, <2>8 DEF HandlerNext
  <1> QED BY <1>1, <1>2, <1>3, <1>4, <1>5, <1>6 DEF Next

LEMMA IsolationInvariant == Spec => [](Control /\ Isolation)
PROOF
  BY ControlInit, ControlStep, IsolationInit, IsolationStep, PTL DEF Spec

-----------------------------------------------------------------------------
(* What becomes of a row.                                                  *)
\* Only a settlement books, saves an event or completes a row; and a row
\* keeps its columns.
RowStays(k) ==
  tx[k] # Null =>
    /\ tx'[k] = [tx[k] EXCEPT !.status = tx'[k].status, !.provider_ref = tx'[k].provider_ref]
    /\ tx[k].status # "PENDING" => tx'[k].status = tx[k].status
    /\ tx[k].provider_ref # Null => tx'[k].provider_ref = tx[k].provider_ref

LEMMA RowColumns ==
  ASSUME Control, NEW k \in Key
  PROVE  /\ tx'[k] = tx[k] => RowStays(k)
         /\ \A status : tx'[k] = [tx[k] EXCEPT !.status = status] /\
              (tx[k].status = "PENDING" \/ tx[k].status = status) => RowStays(k)
         /\ \A s : tx'[k] = [tx[k] EXCEPT !.provider_ref = s] /\
              tx[k].provider_ref = Null => RowStays(k)
PROOF
  <1>1. tx[k] \in Transaction \cup {Null}
    BY DEF Control, TypeOK
  <1>2. ASSUME tx[k] \in Transaction
        PROVE  tx[k] = [user |-> tx[k].user, amount |-> tx[k].amount,
                        currency |-> tx[k].currency, status |-> tx[k].status,
                        provider_ref |-> tx[k].provider_ref]
    BY <1>2 DEF Transaction
  <1> QED BY <1>1, <1>2 DEF RowStays

LEMMA RowsStay ==
  ASSUME Control, Isolation, [Next]_vars, NEW k \in Key
  PROVE  RowStays(k)
PROOF
  <1>1. tx'[k] = tx[k] => RowStays(k)
    BY RowColumns
  <1>2. ASSUME NEW r \in Request, CreateTransaction(r)
        PROVE  RowStays(k)
    <2>1. input[r] \in Inputs /\ input[r].key \in Key
      BY <1>2, InputFacts DEF CreateTransaction, Control, RequestsOK
    <2>2. tx[k] # Null => tx'[k] = tx[k]
      BY <1>2, <2>1 DEF CreateTransaction, TransactionKeyFree, Control, TypeOK
    <2> QED BY <1>1, <2>2 DEF RowStays
  <1>3. ASSUME NEW r \in Request, UpdateProviderRef(r)
        PROVE  RowStays(k)
    <2>1. /\ input[r] \in Inputs /\ input[r].key \in Key
          /\ tx' = [tx EXCEPT ![input[r].key].provider_ref = created[r]]
          /\ tx[input[r].key].provider_ref = Null
      BY <1>3, InputFacts DEF UpdateProviderRef, WithProviderRef, Executing,
                              Control, RequestsOK, OneExecutor
    <2>2. \/ tx'[k] = tx[k]
          \/ tx'[k] = [tx[k] EXCEPT !.provider_ref = created[r]] /\ tx[k].provider_ref = Null
      BY <2>1 DEF Control, TypeOK
    <2> QED BY <2>2, RowColumns
  <1>4. ASSUME NEW h \in Handler, Settle(h)
        PROVE  RowStays(k)
    <2>1. PICK l \in Key : /\ tx' = [tx EXCEPT ![l].status = "COMPLETED"]
                           /\ tx[l] \in Transaction /\ tx[l].status # "FAILED"
      BY <1>4, SettleFacts
    <2>2. tx[l].status \in {"PENDING", "COMPLETED"}
      BY <2>1 DEF Transaction, TransactionStatus
    <2>3. \/ tx'[k] = tx[k]
          \/ /\ tx'[k] = [tx[k] EXCEPT !.status = "COMPLETED"]
             /\ tx[k].status = "PENDING" \/ tx[k].status = "COMPLETED"
      BY <2>1, <2>2 DEF Control, TypeOK
    <2> QED BY <2>3, RowColumns
  <1>5. ASSUME NEW h \in Handler, FailUpdate(h)
        PROVE  RowStays(k)
    <2>1. hpc[h] \in Failing /\ hpc[h] \in FoundRow
      BY <1>5 DEF FailUpdate, Failing, FoundRow
    <2>2. /\ found[h] \in Key /\ tx' = [tx EXCEPT ![found[h]].status = "FAILED"]
          /\ tx[found[h]] \in Transaction /\ tx[found[h]].provider_ref \in Session
          /\ session[tx[found[h]].provider_ref].status = "expired"
      BY <1>5, <2>1, FoundFacts DEF FailUpdate
    <2>3. tx[found[h]].status \in {"PENDING", "FAILED"}
      BY <2>2, ConstantFacts DEF Control, StatusOK, Transaction, TransactionStatus
    <2>4. \/ tx'[k] = tx[k]
          \/ /\ tx'[k] = [tx[k] EXCEPT !.status = "FAILED"]
             /\ tx[k].status = "PENDING" \/ tx[k].status = "FAILED"
      BY <2>2, <2>3 DEF Control, TypeOK
    <2> QED BY <2>4, RowColumns
  <1>6. CASE UNCHANGED tx
    BY <1>1, <1>6
  <1>7. ASSUME NEW r \in Request, RequestNext(r), ~CreateTransaction(r), ~UpdateProviderRef(r)
        PROVE  UNCHANGED tx
    BY <1>7 DEF RequestNext, Arrive, FindExisting, FindWallet, UnsupportedMethod,
                CreateSession, ReturnUrl, Fail
  <1>8. ASSUME NEW h \in Handler, HandlerNext(h), ~Settle(h), ~FailUpdate(h)
        PROVE  UNCHANGED tx
    BY <1>8 DEF HandlerNext, Deliver, SettleFind, FailFind, FindPending, SettleFindWallet,
                LockWallet, SettleRefused, HandlerFails, InvalidateCache
  <1>9. ASSUME \/ \E s \in Session : Pay(s) \/ Expire(s)
               \/ \E u \in User : RemoveUser(u)
               \/ UNCHANGED vars
        PROVE  UNCHANGED tx
    BY <1>9 DEF Pay, Expire, RemoveUser, vars
  <1> QED BY <1>2, <1>3, <1>4, <1>5, <1>6, <1>7, <1>8, <1>9 DEF Next

\* A transaction row keeps its user, amount and currency, its provider_ref
\* once it has one, and its status once that is COMPLETED or FAILED, whatever
\* events arrive late, twice or in the wrong order.
THEOREM TransactionsStayHolds == Spec => TransactionsStay
PROOF
  <1>1. Control /\ Isolation /\ [Next]_vars => [\A k \in Key : RowStays(k)]_vars
    BY RowsStay
  <1> QED BY <1>1, IsolationInvariant, PTL DEF Spec, TransactionsStay, RowStays

-----------------------------------------------------------------------------
(* The books.                                                              *)
LEMMA SettledInit == Init => Settled /\ OnlyDeposits
PROOF
  <1> SUFFICES ASSUME Init PROVE Settled /\ OnlyDeposits
    OBVIOUS
  <1>1. StoreInit
    BY DEF Init
  <1>2. OnlyDeposits
    BY <1>1, OpeningLedger DEF OnlyDeposits
  <1>3. ASSUME NEW k \in Key
        PROVE  Settled!(k)
    <2>1. tx[k] = IF Earlier[k] = Null THEN Null ELSE EarlierTransaction(Earlier[k].to)
      BY DEF Init
    <2>2. Event("DepositSucceeded", k) \in OutboxEvent
      BY DEF Event, OutboxEvent
    <2>3. outbox[Event("DepositSucceeded", k)] =
            IF \E w \in Wallet : Opening[w] > 0 /\ OpeningKey[w] = k THEN 1 ELSE 0
      BY <1>1, <2>2 DEF StoreInit, Event
    <2>4. CASE Earlier[k] = Null /\ \A w \in Wallet : Opening[w] > 0 => OpeningKey[w] # k
      <3>1. ~HasStatus(k, "COMPLETED") /\ outbox[Event("DepositSucceeded", k)] = 0
        BY <2>1, <2>3, <2>4 DEF HasStatus
      <3>2. ASSUME NEW w \in Wallet, NEW i \in 1..Len(ledger[w])
            PROVE  ledger[w][i].idempotency_key # k
        BY <1>1, <2>4, OpeningLedger
      <3> QED BY <3>1, <3>2
    <2>5. ASSUME NEW w \in Wallet, Opening[w] > 0, Opening[w] \in Nat, OpeningKey[w] = k,
                 \A v \in Wallet : OpeningKey[v] = k => v = w,
                 Earlier[k] # Null, Earlier[k].to = w
          PROVE  Settled!(k)
      <3>1. /\ HasStatus(k, "COMPLETED") /\ tx[k].amount = Opening[w]
            /\ tx[k].user = Owner[w] /\ tx[k].currency = CurrencyOf[w]
        BY <2>1, <2>5, EarlierRow DEF HasStatus
      <3>2. outbox[Event("DepositSucceeded", k)] = 1
        BY <2>3, <2>5
      <3>3. ASSUME NEW v \in Wallet, NEW i \in 1..Len(ledger[v]), ledger[v][i].idempotency_key = k
            PROVE  v = w /\ ledger[v][i].amount = Opening[w]
        BY <1>1, <2>5, <3>3, OpeningLedger
      <3>4. 1 \in 1..Len(ledger[w]) /\ ledger[w][1].type = "DEPOSIT"
            /\ ledger[w][1].idempotency_key = k
        BY <1>1, <2>5, OpeningLedger
      <3> QED BY <3>1, <3>2, <3>3, <3>4
    <2> QED BY <2>4, <2>5, EarlierDeposit
  <1> QED BY <1>2, <1>3 DEF Settled

\* A step that books no deposit and completes no row, whatever else it books.
LEMMA NothingSettled ==
  ASSUME Settled,
         \A k \in Key : /\ HasStatus(k, "COMPLETED")' <=> HasStatus(k, "COMPLETED")
                        /\ HasStatus(k, "COMPLETED") =>
                             /\ tx'[k].amount = tx[k].amount /\ tx'[k].user = tx[k].user
                             /\ tx'[k].currency = tx[k].currency
                        /\ outbox'[Event("DepositSucceeded", k)] = outbox[Event("DepositSucceeded", k)],
         \A w \in Wallet : \A i \in 1..Len(ledger[w]) :
           i \in 1..Len(ledger'[w]) /\ ledger'[w][i] = ledger[w][i],
         \A w \in Wallet : \A i \in 1..Len(ledger'[w]) : ledger'[w][i].type = "DEPOSIT" =>
           i \in 1..Len(ledger[w]) /\ ledger'[w][i] = ledger[w][i]
  PROVE  Settled'
PROOF
  <1> SUFFICES ASSUME NEW k \in Key
               PROVE  Settled!(k)'
    BY DEF Settled
  <1>1. Settled!(k)
    BY DEF Settled
  <1>2. ASSUME HasStatus(k, "COMPLETED")
        PROVE  \E w \in Wallet : \E i \in 1..Len(ledger'[w]) :
                 ledger'[w][i].type = "DEPOSIT" /\ ledger'[w][i].idempotency_key = k
    <2>1. PICK w \in Wallet : \E i \in 1..Len(ledger[w]) :
            ledger[w][i].type = "DEPOSIT" /\ ledger[w][i].idempotency_key = k
      BY <1>1, <1>2
    <2>2. \A i \in 1..Len(ledger[w]) : i \in 1..Len(ledger'[w]) /\ ledger'[w][i] = ledger[w][i]
      OBVIOUS
    <2> QED BY <2>1, <2>2
  <1> QED BY <1>1, <1>2

\* COMMIT of settleTransaction: the row, the entry and the event, at once.
LEMMA SettleBooks ==
  ASSUME Control, Isolation, Settled, NEW h \in Handler, Settle(h)
  PROVE  /\ Settled' /\ (OnlyDeposits => OnlyDeposits')
         /\ \E k \in Key :
              /\ k = found[h] /\ tx[k].status = "PENDING"
              /\ ~HasStatus(k, "COMPLETED") /\ HasStatus(k, "COMPLETED")'
              /\ tx'[k] = [tx[k] EXCEPT !.status = "COMPLETED"]
              /\ \A l \in Key \ {k} : tx'[l] = tx[l]
PROOF
  <1>1. PICK k \in Key, w \in Wallet, a \in Nat, e \in LedgerEntry :
          /\ k = found[h] /\ w = wallet[h] /\ a = tx[k].amount
          /\ tx[k] # Null /\ tx[k] \in Transaction /\ tx[k].status # "FAILED"
          /\ tx[k].provider_ref \in Session
          /\ Owner[w] = tx[k].user /\ CurrencyOf[w] = tx[k].currency
          /\ lock[w] = h
          /\ ~LedgerKeyTaken(k)
          /\ balance' = [balance EXCEPT ![w] = e.balance_after]
          /\ e.balance_after = balance[w] + e.amount
          /\ ledger' = [ledger EXCEPT ![w] = Append(@, e)]
          /\ e.type = "DEPOSIT" /\ e.amount = a /\ Signed(e) = e.amount
          /\ e.idempotency_key = k
          /\ tx' = [tx EXCEPT ![k].status = "COMPLETED"]
          /\ SaveOutbox("DepositSucceeded", k)
    BY SettleFacts
  <1>2. ~HasStatus(k, "COMPLETED")
    BY <1>1 DEF Settled, LedgerKeyTaken
  <1>3. tx[k].status = "PENDING"
    BY <1>1, <1>2 DEF HasStatus, Transaction, TransactionStatus
  <1>4. /\ tx'[k] = [tx[k] EXCEPT !.status = "COMPLETED"]
        /\ \A l \in Key \ {k} : tx'[l] = tx[l]
    BY <1>1 DEF Control, TypeOK
  <1>5. /\ tx'[k] \in Transaction /\ tx'[k].status = "COMPLETED" /\ tx'[k].amount = a
        /\ tx'[k].user = tx[k].user /\ tx'[k].currency = tx[k].currency
    BY <1>1, <1>4 DEF Transaction, TransactionStatus
  <1>6. HasStatus(k, "COMPLETED")'
    BY <1>5, ConstantFacts DEF HasStatus
  <1>7. StoreTypeOK
    BY DEF Control, TypeOK
  <1>8. /\ outbox'[Event("DepositSucceeded", k)] = outbox[Event("DepositSucceeded", k)] + 1
        /\ \A l \in Key \ {k} :
             outbox'[Event("DepositSucceeded", l)] = outbox[Event("DepositSucceeded", l)]
    BY <1>1, <1>7, SavedEvent DEF StoreTypeOK
  <1>9. /\ \A v \in Wallet : \A i \in 1..Len(ledger[v]) :
             i \in 1..Len(ledger'[v]) /\ ledger'[v][i] = ledger[v][i]
        /\ \A v \in Wallet : \A i \in 1..Len(ledger'[v]) :
             \/ i \in 1..Len(ledger[v]) /\ ledger'[v][i] = ledger[v][i]
             \/ v = w /\ i = Len(ledger[w]) + 1 /\ ledger'[v][i] = e
        /\ Len(ledger[w]) + 1 \in 1..Len(ledger'[w])
        /\ ledger'[w][Len(ledger[w]) + 1] = e
    <2>1. ledger' = [ledger EXCEPT ![w] = Append(@, e)]
      BY <1>1
    <2> QED BY <1>7, <2>1, OneEntryBooked
  <1>10. ASSUME NEW l \in Key
         PROVE  Settled!(l)'
    <2>1. Settled!(l)
      BY DEF Settled
    <2>2. CASE l = k
      <3>1. outbox'[Event("DepositSucceeded", k)] = 1
        BY <1>2, <1>8, <2>1, <2>2
      <3>2. ASSUME NEW v \in Wallet, NEW i \in 1..Len(ledger'[v]),
                   ledger'[v][i].idempotency_key = k
            PROVE  v = w /\ ledger'[v][i] = e
        BY <1>1, <1>9, <3>2 DEF LedgerKeyTaken
      <3>3. \E v \in Wallet : \E i \in 1..Len(ledger'[v]) :
              ledger'[v][i].type = "DEPOSIT" /\ ledger'[v][i].idempotency_key = k
        BY <1>1, <1>9
      <3>4. /\ e.type = "DEPOSIT" /\ e.amount = tx'[k].amount
            /\ Owner[w] = tx'[k].user /\ CurrencyOf[w] = tx'[k].currency
        BY <1>1, <1>5
      <3>5. \A v \in Wallet : \A i \in 1..Len(ledger'[v]) :
              ledger'[v][i].type = "DEPOSIT" /\ ledger'[v][i].idempotency_key = k =>
                /\ ledger'[v][i].amount = tx'[k].amount
                /\ Owner[v] = tx'[k].user /\ CurrencyOf[v] = tx'[k].currency
        BY <3>2, <3>4
      <3> QED BY <1>6, <2>2, <3>1, <3>3, <3>5
    <2>3. CASE l # k
      <3>1. tx'[l] = tx[l] /\ (HasStatus(l, "COMPLETED")' <=> HasStatus(l, "COMPLETED"))
        BY <1>4, <2>3 DEF HasStatus
      <3>2. ASSUME NEW v \in Wallet, NEW i \in 1..Len(ledger'[v]),
                   ledger'[v][i].idempotency_key = l
            PROVE  i \in 1..Len(ledger[v]) /\ ledger'[v][i] = ledger[v][i]
        BY <1>1, <1>9, <2>3, <3>2
      <3>3. ASSUME HasStatus(l, "COMPLETED")
            PROVE  \E v \in Wallet : \E i \in 1..Len(ledger'[v]) :
                     ledger'[v][i].type = "DEPOSIT" /\ ledger'[v][i].idempotency_key = l
        <4>1. PICK v \in Wallet : \E i \in 1..Len(ledger[v]) :
                ledger[v][i].type = "DEPOSIT" /\ ledger[v][i].idempotency_key = l
          BY <2>1, <3>3
        <4>2. \A i \in 1..Len(ledger[v]) : i \in 1..Len(ledger'[v]) /\ ledger'[v][i] = ledger[v][i]
          BY <1>9
        <4> QED BY <4>1, <4>2
      <3> QED BY <1>8, <2>1, <2>3, <3>1, <3>2, <3>3
    <2> QED BY <2>2, <2>3
  <1>11. OnlyDeposits => OnlyDeposits'
    BY <1>1, <1>9 DEF OnlyDeposits
  <1>12. Settled'
    BY <1>10 DEF Settled
  <1> QED BY <1>1, <1>2, <1>3, <1>4, <1>6, <1>11, <1>12

\* Only COMMIT of settleTransaction touches the books.
LEMMA OnlySettle ==
  ASSUME Control, Isolation, [Next]_vars, ~ \E h \in Handler : Settle(h)
  PROVE  /\ UNCHANGED <<balance, ledger, outbox>>
         /\ \A k \in Key :
              /\ HasStatus(k, "COMPLETED")' <=> HasStatus(k, "COMPLETED")
              /\ HasStatus(k, "COMPLETED") =>
                   /\ tx'[k].amount = tx[k].amount /\ tx'[k].user = tx[k].user
                   /\ tx'[k].currency = tx[k].currency
PROOF
  <1>1. UNCHANGED <<balance, ledger, outbox>>
    <2>1. ASSUME NEW r \in Request, RequestNext(r)
          PROVE  UNCHANGED <<balance, ledger, outbox>>
      BY <2>1 DEF RequestNext, Arrive, FindExisting, FindWallet, CreateTransaction,
                  UnsupportedMethod, CreateSession, UpdateProviderRef, ReturnUrl, Fail, storeVars
    <2>2. ASSUME NEW h \in Handler, HandlerNext(h)
          PROVE  UNCHANGED <<balance, ledger, outbox>>
      BY <2>2 DEF HandlerNext, Deliver, SettleFind, FailFind, FindPending, SettleFindWallet,
                  LockWallet, SettleRefused, HandlerFails, InvalidateCache, FailUpdate, storeVars
    <2>3. ASSUME \/ \E s \in Session : Pay(s) \/ Expire(s)
                 \/ \E u \in User : RemoveUser(u)
                 \/ UNCHANGED vars
          PROVE  UNCHANGED <<balance, ledger, outbox>>
      BY <2>3 DEF Pay, Expire, RemoveUser, DeleteUser, vars, storeVars
    <2> QED BY <2>1, <2>2, <2>3 DEF Next
  <1>2. ASSUME NEW k \in Key
        PROVE  HasStatus(k, "COMPLETED") =>
                 /\ HasStatus(k, "COMPLETED")'
                 /\ tx'[k].amount = tx[k].amount /\ tx'[k].user = tx[k].user
                 /\ tx'[k].currency = tx[k].currency
    <2> SUFFICES ASSUME HasStatus(k, "COMPLETED")
                 PROVE  /\ HasStatus(k, "COMPLETED")'
                        /\ tx'[k].amount = tx[k].amount /\ tx'[k].user = tx[k].user
                        /\ tx'[k].currency = tx[k].currency
      OBVIOUS
    <2>1. /\ tx[k] # Null /\ tx[k] \in Transaction /\ tx[k].status = "COMPLETED"
          /\ tx'[k] \in Transaction \cup {Null}
      BY ControlStep DEF HasStatus, Control, TypeOK
    <2>2. /\ tx'[k] = [tx[k] EXCEPT !.status = tx'[k].status, !.provider_ref = tx'[k].provider_ref]
          /\ tx'[k].status = "COMPLETED"
      BY <2>1, RowsStay DEF RowStays
    <2>3. tx'[k].amount = tx[k].amount /\ tx'[k].user = tx[k].user
          /\ tx'[k].currency = tx[k].currency
      BY <2>1, <2>2 DEF Transaction
    <2>4. tx'[k] # Null
      <3>1. tx[k].provider_ref # Null
        BY <2>1, ConstantFacts DEF Control, StatusOK
      <3>2. [tx[k] EXCEPT !.status = tx'[k].status, !.provider_ref = tx[k].provider_ref] \in Transaction
        BY <2>1, <2>2 DEF Transaction
      <3>3. tx'[k].provider_ref = tx[k].provider_ref
        BY <2>1, <3>1, RowsStay DEF RowStays
      <3> QED BY <2>2, <3>2, <3>3, ConstantFacts
    <2> QED BY <2>2, <2>3, <2>4 DEF HasStatus
  <1>3. ASSUME NEW k \in Key, HasStatus(k, "COMPLETED")'
        PROVE  HasStatus(k, "COMPLETED")
    <2>1. tx'[k] # Null /\ tx'[k].status = "COMPLETED"
      BY <1>3 DEF HasStatus
    <2>2. CASE tx'[k] = tx[k]
      BY <2>1, <2>2 DEF HasStatus
    <2>3. ASSUME NEW r \in Request, CreateTransaction(r)
          PROVE  HasStatus(k, "COMPLETED")
      <3>1. input[r] \in Inputs /\ input[r].key \in Key /\ NewTransaction(input[r]).status = "PENDING"
        BY <2>3, InputFacts DEF CreateTransaction, Control, RequestsOK
      <3> QED BY <2>1, <2>2, <2>3, <3>1 DEF CreateTransaction, Control, TypeOK
    <2>4. ASSUME NEW r \in Request, UpdateProviderRef(r)
          PROVE  HasStatus(k, "COMPLETED")
      <3>1. /\ input[r] \in Inputs /\ input[r].key \in Key
            /\ tx' = [tx EXCEPT ![input[r].key].provider_ref = created[r]]
            /\ tx[input[r].key] \in Transaction /\ tx[input[r].key].status = "PENDING"
        BY <2>4, InputFacts DEF UpdateProviderRef, WithProviderRef, Executing,
                                Control, RequestsOK, OneExecutor
      <3>2. input[r].key = k => tx'[k].status = "PENDING"
        BY <3>1 DEF Control, TypeOK, Transaction
      <3> QED BY <2>1, <2>2, <3>1, <3>2 DEF Control, TypeOK
    <2>5. ASSUME NEW h \in Handler, FailUpdate(h)
          PROVE  HasStatus(k, "COMPLETED")
      <3>1. hpc[h] \in FoundRow
        BY <2>5 DEF FailUpdate, FoundRow
      <3>2. /\ found[h] \in Key /\ tx' = [tx EXCEPT ![found[h]].status = "FAILED"]
            /\ tx[found[h]] \in Transaction
        BY <2>5, <3>1, FoundFacts DEF FailUpdate
      <3>3. found[h] = k => tx'[k].status = "FAILED"
        BY <3>2 DEF Control, TypeOK, Transaction
      <3> QED BY <2>1, <2>2, <3>2, <3>3 DEF Control, TypeOK
    <2>6. ASSUME NEW r \in Request, RequestNext(r), ~CreateTransaction(r), ~UpdateProviderRef(r)
          PROVE  UNCHANGED tx
      BY <2>6 DEF RequestNext, Arrive, FindExisting, FindWallet, UnsupportedMethod,
                  CreateSession, ReturnUrl, Fail
    <2>7. ASSUME NEW h \in Handler, HandlerNext(h), ~FailUpdate(h)
          PROVE  UNCHANGED tx
      BY <2>7 DEF HandlerNext, Deliver, SettleFind, FailFind, FindPending, SettleFindWallet,
                  LockWallet, SettleRefused, HandlerFails, InvalidateCache
    <2>8. ASSUME \/ \E s \in Session : Pay(s) \/ Expire(s)
                 \/ \E u \in User : RemoveUser(u)
                 \/ UNCHANGED vars
          PROVE  UNCHANGED tx
      BY <2>8 DEF Pay, Expire, RemoveUser, vars
    <2> QED BY <2>2, <2>3, <2>4, <2>5, <2>6, <2>7, <2>8 DEF Next
  <1> QED BY <1>1, <1>2, <1>3

LEMMA BooksInit == Init => Books /\ OnlyDeposits
PROOF
  BY SettledInit, OpeningBooks DEF Init, Books

LEMMA BooksStep == Control /\ Isolation /\ Books /\ [Next]_vars => Books'
PROOF
  <1> SUFFICES ASSUME Control, Isolation, Books, [Next]_vars PROVE Books'
    OBVIOUS
  <1>1. ASSUME NEW h \in Handler, Settle(h)
        PROVE  Books'
    <2>1. StoreTypeOK /\ StoreBooks /\ Settled
      BY DEF Control, TypeOK, Books
    <2>2. PICK w \in Wallet, e \in LedgerEntry :
            /\ ledger' = [ledger EXCEPT ![w] = Append(@, e)]
            /\ balance' = [balance EXCEPT ![w] = e.balance_after]
            /\ e.amount \in Nat /\ Signed(e) = e.amount
            /\ e.balance_after = balance[w] + e.amount
            /\ ~LedgerKeyTaken(e.idempotency_key)
      BY <1>1, SettleFacts
    <2>3. StoreBooks'
      BY <2>1, <2>2, CreditBooked
    <2> QED BY <1>1, <2>1, <2>3, SettleBooks DEF Books
  <1>2. CASE ~ \E h \in Handler : Settle(h)
    <2>1. /\ UNCHANGED <<balance, ledger, outbox>> /\ StoreBooks /\ Settled
          /\ \A k \in Key :
               /\ HasStatus(k, "COMPLETED")' <=> HasStatus(k, "COMPLETED")
               /\ HasStatus(k, "COMPLETED") =>
                    /\ tx'[k].amount = tx[k].amount /\ tx'[k].user = tx[k].user
                    /\ tx'[k].currency = tx[k].currency
      BY <1>2, OnlySettle DEF Books
    <2> QED BY <2>1, NothingBooked, NothingSettled DEF Books
  <1> QED BY <1>1, <1>2

LEMMA OnlyDepositsStep ==
  Control /\ Isolation /\ Books /\ OnlyDeposits /\ [Next]_vars => OnlyDeposits'
PROOF
  <1> SUFFICES ASSUME Control, Isolation, Books, OnlyDeposits, [Next]_vars PROVE OnlyDeposits'
    OBVIOUS
  <1>1. CASE \E h \in Handler : Settle(h)
    BY <1>1, SettleBooks DEF Books
  <1>2. CASE ~ \E h \in Handler : Settle(h)
    BY <1>2, OnlySettle DEF OnlyDeposits
  <1> QED BY <1>1, <1>2

LEMMA BooksInvariant == Spec => [](Control /\ Isolation /\ Books /\ OnlyDeposits)
PROOF
  BY ControlInit, ControlStep, IsolationInit, IsolationStep, BooksInit, BooksStep,
     OnlyDepositsStep, PTL DEF Spec

\* A payment is credited once, in full, to the right wallet, with one event,
\* however often Stripe reports it and however many handlers settle it at
\* once; and nothing else is credited.
THEOREM SettledOnceHolds == Spec => []SettledOnce
PROOF
  <1>1. Settled /\ OnlyDeposits => SettledOnce
    BY DEF Settled, OnlyDeposits, SettledOnce
  <1>2. Control /\ Isolation /\ Books /\ OnlyDeposits => SettledOnce
    BY <1>1 DEF Books
  <1> QED BY <1>2, BooksInvariant, PTL

\* Settlements keep the ledger's trail, overdraw nothing and book no key twice.
THEOREM StoreBooksHold == Spec => [](AuditTrail /\ NeverOverdrawn /\ BookedOnce)
PROOF
  <1>1. Control /\ Isolation /\ Books /\ OnlyDeposits => AuditTrail /\ NeverOverdrawn /\ BookedOnce
    BY DEF Books, StoreBooks
  <1> QED BY <1>1, BooksInvariant, PTL

\* A COMPLETED transaction was paid for at Stripe, in a session made for its
\* key and its amount.
THEOREM CreditIsPaidHolds == Spec => []CreditIsPaid
PROOF
  <1>1. Control => CreditIsPaid
    <2> SUFFICES ASSUME Control, NEW k \in Key, HasStatus(k, "COMPLETED"), Earlier[k] = Null
                 PROVE  \E s \in Session :
                          /\ tx[k].provider_ref = s
                          /\ session[s] = [key |-> k, amount |-> tx[k].amount, status |-> "paid"]
      BY DEF CreditIsPaid
    <2>1. tx[k] # Null /\ tx[k].status = "COMPLETED"
      BY DEF HasStatus
    <2>2. PICK s \in Session : tx[k].provider_ref = s /\ session[s].status = "paid"
      BY <2>1 DEF Control, StatusOK
    <2>3. /\ session[s] # Null /\ session[s] \in CheckoutSession
          /\ session[s].key = k /\ session[s].amount = tx[k].amount
      BY <2>1, <2>2 DEF Control, TypeOK, SessionsOK
    <2>4. session[s] = [key |-> k, amount |-> tx[k].amount, status |-> "paid"]
      BY <2>2, <2>3 DEF CheckoutSession
    <2> QED BY <2>2, <2>4
  <1> QED BY <1>1, ControlInvariant, PTL

\* No client ever gets a URL to pay at whose session no row records.
THEOREM UrlIsTraceableHolds == Spec => []UrlIsTraceable
PROOF
  <1>1. Control => UrlIsTraceable
    <2> SUFFICES ASSUME Control, NEW s \in handedOut
                 PROVE  \E k \in Key : tx[k] # Null /\ tx[k].provider_ref = s /\ session[s].key = k
      BY DEF UrlIsTraceable
    <2>1. /\ session[s] # Null /\ tx[session[s].key] # Null
          /\ tx[session[s].key].provider_ref = s /\ s \in Session
      BY DEF Control, TypeOK, SessionsOK
    <2>2. session[s].key \in Key
      BY <2>1 DEF Control, TypeOK, CheckoutSession
    <2> QED BY <2>1, <2>2
  <1> QED BY <1>1, ControlInvariant, PTL

-----------------------------------------------------------------------------
(* Dead keys.                                                              *)
\* A step that neither writes row k nor lets a request execute key k.
LEMMA StaysDead ==
  ASSUME NEW k \in Key, Dead(k), tx'[k] = tx[k],
         \A r \in Request : Executing(r)' /\ input'[r].key = k => Executing(r) /\ input[r].key = k
  PROVE  tx'[k] = tx[k] /\ Dead(k)'
PROOF
  BY DEF Dead, HasStatus, Executing

LEMMA DeadStep ==
  ASSUME Control, Isolation, [Next]_vars, NEW k \in Key, Dead(k)
  PROVE  tx'[k] = tx[k] /\ Dead(k)'
PROOF
  <1>1. tx[k] # Null /\ tx[k].provider_ref = Null
    BY DEF Dead, HasStatus
  <1>2. CASE UNCHANGED <<tx, pc, input>>
    BY <1>2, StaysDead DEF Executing
  <1>3. ASSUME NEW r \in Request, RequestNext(r)
        PROVE  tx'[k] = tx[k] /\ Dead(k)'
    <2>1. \A q \in Request \ {r} : pc'[q] = pc[q] /\ input'[q] = input[q]
      BY <1>3 DEF RequestNext, Arrive, FindExisting, FindWallet, CreateTransaction,
                  UnsupportedMethod, CreateSession, UpdateProviderRef, ReturnUrl, Fail,
                  Answer, Goto, Control, TypeOK
    <2>2. ASSUME tx'[k] = tx[k],
                 pc'[r] \in {"processDeposit", "updateProviderRef"} /\ input'[r].key = k =>
                   Executing(r) /\ input[r].key = k
          PROVE  tx'[k] = tx[k] /\ Dead(k)'
      BY <2>1, <2>2, StaysDead DEF Executing
    <2>3. CASE CreateTransaction(r)
      <3>1. input[r] \in Inputs /\ input[r].key \in Key /\ input' = input
        BY <2>3, InputFacts DEF CreateTransaction, Answer, Control, RequestsOK
      <3>2. tx'[k] = tx[k]
        BY <1>1, <2>3, <3>1 DEF CreateTransaction, TransactionKeyFree, Control, TypeOK
      <3>3. pc'[r] = "idle" \/ input[r].key # k
        BY <1>1, <2>3 DEF CreateTransaction, TransactionKeyFree, Answer, Goto, Control, TypeOK
      <3> QED BY <2>2, <3>1, <3>2, <3>3
    <2>4. CASE UpdateProviderRef(r)
      <3>1. /\ pc'[r] = "return" /\ input' = input
            /\ Executing(r) /\ input[r].key # k
            /\ tx' = [tx EXCEPT ![input[r].key].provider_ref = created[r]]
        BY <2>4 DEF UpdateProviderRef, WithProviderRef, Goto, Executing, Dead, Control, TypeOK
      <3>2. tx'[k] = tx[k]
        BY <3>1 DEF Control, TypeOK
      <3> QED BY <2>2, <3>1, <3>2
    <2>5. ASSUME NEW s \in Session, CreateSession(r, s)
          PROVE  tx'[k] = tx[k] /\ Dead(k)'
      <3>1. Executing(r) /\ UNCHANGED <<tx, input>>
        BY <2>5 DEF CreateSession, Answer, Executing
      <3> QED BY <2>2, <3>1
    <2>6. CASE ~CreateTransaction(r) /\ ~UpdateProviderRef(r)
               /\ ~ \E s \in Session : CreateSession(r, s)
      <3>1. UNCHANGED tx /\ pc'[r] \notin {"processDeposit", "updateProviderRef"}
        BY <1>3, <2>6 DEF RequestNext, Arrive, FindExisting, FindWallet, UnsupportedMethod,
                          ReturnUrl, Fail, Answer, Goto, Control, TypeOK
      <3> QED BY <2>2, <3>1
    <2> QED BY <2>3, <2>4, <2>5, <2>6
  <1>4. ASSUME NEW h \in Handler, HandlerNext(h)
        PROVE  tx'[k] = tx[k] /\ Dead(k)'
    <2>1. UNCHANGED <<pc, input>>
      BY <1>4 DEF HandlerNext, Deliver, SettleFind, FailFind, FindPending, SettleFindWallet,
                  LockWallet, SettleRefused, HandlerFails, InvalidateCache, FailUpdate, Settle,
                  requestVars
    <2>2. ASSUME Settle(h) \/ FailUpdate(h)
          PROVE  tx'[k] = tx[k]
      <3>1. hpc[h] \in FoundRow
        BY <2>2 DEF Settle, FailUpdate, FoundRow
      <3>2. tx[found[h]].provider_ref # Null
        BY <3>1, FoundFacts, ConstantFacts
      <3>3. found[h] # k
        BY <1>1, <3>2
      <3>4. \E status : tx' = [tx EXCEPT ![found[h]].status = status]
        BY <2>2 DEF Settle, MarkedCompleted, FailUpdate
      <3> QED BY <3>3, <3>4 DEF Control, TypeOK
    <2>3. ASSUME ~Settle(h), ~FailUpdate(h)
          PROVE  UNCHANGED tx
      BY <1>4, <2>3 DEF HandlerNext, Deliver, SettleFind, FailFind, FindPending,
                        SettleFindWallet, LockWallet, SettleRefused, HandlerFails, InvalidateCache
    <2>4. tx'[k] = tx[k]
      BY <2>2, <2>3
    <2> QED BY <2>1, <2>4, StaysDead DEF Executing
  <1>5. ASSUME \/ \E s \in Session : Pay(s) \/ Expire(s)
               \/ \E u \in User : RemoveUser(u)
               \/ UNCHANGED vars
        PROVE  UNCHANGED <<tx, pc, input>>
    BY <1>5 DEF Pay, Expire, RemoveUser, vars, requestVars
  <1> QED BY <1>2, <1>3, <1>4, <1>5 DEF Next

\* The key of a deposit whose request failed between the INSERT and the
\* UPDATE is used up: no request and no event ever touches its row again.
THEOREM DeadKeysStayHolds == Spec => DeadKeysStay
PROOF
  <1>1. Control /\ Isolation /\ [Next]_vars =>
          [\A k \in Key : Dead(k) => tx'[k] = tx[k] /\ Dead(k)']_vars
    BY DeadStep
  <1> QED BY <1>1, IsolationInvariant, PTL DEF Spec, DeadKeysStay

-----------------------------------------------------------------------------
(* Deposits implement the bank.                                            *)
LEMMA WalletOfOwn ==
  ASSUME NEW w \in Wallet
  PROVE  WalletOf(Owner[w], CurrencyOf[w]) = w
PROOF
  BY WalletAssumption DEF WalletOf

LEMMA PaidBefore == Init => [k \in Key |-> Payment(k)] = Earlier
PROOF
  <1> SUFFICES ASSUME Init PROVE [k \in Key |-> Payment(k)] = Earlier
    OBVIOUS
  <1>1. ASSUME NEW k \in Key
        PROVE  Payment(k) = Earlier[k]
    <2>1. tx[k] = IF Earlier[k] = Null THEN Null ELSE EarlierTransaction(Earlier[k].to)
      BY DEF Init
    <2>2. CASE Earlier[k] = Null
      BY <2>1, <2>2 DEF Payment, HasStatus
    <2>3. ASSUME NEW w \in Wallet, Earlier[k] = [to |-> w, amount |-> Opening[w]],
                 Earlier[k] # Null, Earlier[k].to = w
          PROVE  Payment(k) = Earlier[k]
      <3>1. /\ tx[k] # Null /\ tx[k].status = "COMPLETED" /\ tx[k].amount = Opening[w]
            /\ tx[k].user = Owner[w] /\ tx[k].currency = CurrencyOf[w]
        BY <2>1, <2>3, EarlierRow
      <3> QED BY <2>3, <3>1, WalletOfOwn DEF Payment, HasStatus
    <2> QED BY <2>2, <2>3, EarlierDeposit
  <1>2. Earlier = [k \in Key |-> Earlier[k]]
    BY DEF Earlier
  <1> QED BY <1>1, <1>2

\* A settlement is one payment under a fresh key.
LEMMA SettlePays ==
  ASSUME Control, Isolation, Settled, NEW h \in Handler, Settle(h)
  PROVE  \E k \in Key, w \in Wallet, a \in Amount :
           /\ Payment(k) = Null
           /\ balance' = [balance EXCEPT ![w] = @ + a]
           /\ balance' # balance
           /\ [l \in Key |-> Payment(l)]' =
                [[l \in Key |-> Payment(l)] EXCEPT ![k] = [to |-> w, amount |-> a]]
PROOF
  <1>1. PICK k \in Key, w \in Wallet, a \in Nat, e \in LedgerEntry :
          /\ k = found[h] /\ a = tx[k].amount
          /\ tx[k] # Null /\ tx[k] \in Transaction
          /\ Owner[w] = tx[k].user /\ CurrencyOf[w] = tx[k].currency
          /\ balance' = [balance EXCEPT ![w] = e.balance_after]
          /\ e.balance_after = balance[w] + e.amount /\ e.amount = a
    BY SettleFacts
  <1>2. /\ tx[k].status = "PENDING"
        /\ ~HasStatus(k, "COMPLETED") /\ HasStatus(k, "COMPLETED")'
        /\ tx'[k] = [tx[k] EXCEPT !.status = "COMPLETED"]
        /\ \A l \in Key \ {k} : tx'[l] = tx[l]
    BY <1>1, SettleBooks
  <1>3. a \in Amount /\ a > 0
    BY <1>1, <1>2, ConstantFacts DEF Control, StatusOK
  <1>4. balance' = [balance EXCEPT ![w] = @ + a]
    BY <1>1
  <1>5. balance' # balance
    <2>1. balance \in [Wallet -> Int]
      BY DEF Control, TypeOK, StoreTypeOK
    <2> QED BY <1>3, <1>4, <2>1
  <1>6. Payment(k)' = [to |-> w, amount |-> a]
    <2>1. tx'[k].user = Owner[w] /\ tx'[k].currency = CurrencyOf[w] /\ tx'[k].amount = a
      BY <1>1, <1>2 DEF Transaction
    <2>2. WalletOf(tx'[k].user, tx'[k].currency) = w
      BY <2>1, WalletOfOwn
    <2>3. Payment(k)' = [to |-> WalletOf(tx'[k].user, tx'[k].currency), amount |-> tx'[k].amount]
      BY <1>2 DEF Payment, WalletOf
    <2> QED BY <2>1, <2>2, <2>3
  <1>7. ASSUME NEW l \in Key \ {k}
        PROVE  Payment(l)' = Payment(l)
    <2>1. tx'[l] = tx[l]
      BY <1>2
    <2> QED BY <2>1 DEF Payment, HasStatus, WalletOf
  <1>8. Payment(k) = Null
    BY <1>2 DEF Payment
  <1>9. [l \in Key |-> Payment(l)]' =
          [[l \in Key |-> Payment(l)] EXCEPT ![k] = [to |-> w, amount |-> a]]
    BY <1>6, <1>7
  <1> QED BY <1>3, <1>4, <1>5, <1>8, <1>9

\* A step that completes no row pays nothing.
LEMMA NothingPaid ==
  ASSUME \A k \in Key :
           /\ HasStatus(k, "COMPLETED")' <=> HasStatus(k, "COMPLETED")
           /\ HasStatus(k, "COMPLETED") =>
                /\ tx'[k].amount = tx[k].amount /\ tx'[k].user = tx[k].user
                /\ tx'[k].currency = tx[k].currency
  PROVE  [l \in Key |-> Payment(l)]' = [l \in Key |-> Payment(l)]
PROOF
  <1>1. \A l \in Key : Payment(l)' = Payment(l)
    BY DEF Payment, WalletOf
  <1> QED BY <1>1

LEMMA BankInit == Init => TheBank!Init
PROOF
  BY PaidBefore DEF Init, StoreInit, TheBank!Init

LEMMA BankStep == Control /\ Isolation /\ Books /\ [Next]_vars => [TheBank!Next]_(TheBank!bankVars)
PROOF
  <1> SUFFICES ASSUME Control, Isolation, Books, [Next]_vars
               PROVE  [TheBank!Next]_(TheBank!bankVars)
    OBVIOUS
  <1>1. ASSUME NEW h \in Handler, Settle(h)
        PROVE  TheBank!Next
    <2>1. PICK k \in Key, w \in Wallet, a \in Amount :
            /\ Payment(k) = Null
            /\ balance' = [balance EXCEPT ![w] = @ + a]
            /\ balance' # balance
            /\ [l \in Key |-> Payment(l)]' =
                 [[l \in Key |-> Payment(l)] EXCEPT ![k] = [to |-> w, amount |-> a]]
      BY <1>1, SettlePays DEF Books
    <2>2. TheBank!PayIn(k, w, a)
      BY <2>1 DEF TheBank!PayIn
    <2> QED BY <2>1, <2>2 DEF TheBank!Next
  <1>2. CASE ~ \E h \in Handler : Settle(h)
    BY <1>2, OnlySettle, NothingPaid DEF TheBank!bankVars
  <1> QED BY <1>1, <1>2

\* Every step of any number of requests, webhook deliveries and Stripe is one
\* payment received by the abstract bank, or nothing to it.
THEOREM DepositsImplementBank == Spec => ImplementsBank
PROOF
  BY ControlInit, ControlStep, IsolationInit, IsolationStep, BooksInit, BooksStep,
     BankInit, BankStep, PTL DEF Spec, ImplementsBank, TheBank!Spec

-----------------------------------------------------------------------------
(* Deposits next to another component on the same store: what a step of    *)
(* theirs leaves to the other.  What they need a step of it to leave is    *)
(* StoreOnly, RowsKept and SettledKept.                                    *)
LEMMA OthersKeepRows ==
  ASSUME Control, Isolation, [Next]_vars, NEW p, p \notin Handler, p # Null
  PROVE  LeavesRowsOf(p)
PROOF
  <1> SUFFICES ASSUME NEW w \in Wallet
               PROVE  /\ lock'[w] = p <=> lock[w] = p
                      /\ lock[w] = p => balance'[w] = balance[w]
    BY DEF LeavesRowsOf
  <1>0. StoreTypeOK
    BY DEF Control, TypeOK
  <1>1. ASSUME NEW h \in Handler, ReleaseLocks(h)
        PROVE  lock'[w] = p <=> lock[w] = p
    <2>1. h # Null /\ p # h
      BY ConstantFacts
    <2> QED BY <1>1, <2>1, Released
  <1>2. ASSUME NEW h \in Handler, Settle(h)
        PROVE  /\ lock'[w] = p <=> lock[w] = p
               /\ lock[w] = p => balance'[w] = balance[w]
    <2>1. ReleaseLocks(h)
      BY <1>2 DEF Settle
    <2>2. PICK k \in Key, x \in Wallet, a \in Nat, e \in LedgerEntry :
            lock[x] = h /\ balance' = [balance EXCEPT ![x] = e.balance_after]
      BY <1>2, SettleFacts
    <2>3. \A v \in Wallet \ {x} : balance'[v] = balance[v]
      BY <1>0, <2>2 DEF StoreTypeOK
    <2> QED BY <1>1, <2>1, <2>2, <2>3
  <1>3. CASE ~ \E h \in Handler : Settle(h)
    <2>1. balance' = balance
      BY <1>3, OnlySettle
    <2>2. ASSUME NEW h \in Handler, LockWallet(h)
          PROVE  lock'[w] = p <=> lock[w] = p
      <3>1. wallet[h] \in Wallet
        BY <2>2 DEF LockWallet, FoundWallet, Control, HandlersOK
      <3>2. h \in Holder /\ p # h
        BY ConstantFacts
      <3> QED BY <1>0, <2>2, <3>1, <3>2, Locked DEF LockWallet
    <2>3. ASSUME NEW h \in Handler, HandlerFails(h)
          PROVE  lock'[w] = p <=> lock[w] = p
      BY <1>1, <2>3 DEF HandlerFails
    <2>4. ASSUME NEW h \in Handler, HandlerNext(h), ~LockWallet(h), ~HandlerFails(h)
          PROVE  lock' = lock
      BY <1>3, <2>4 DEF HandlerNext, Deliver, SettleFind, FailFind, FindPending,
                        SettleFindWallet, SettleRefused, InvalidateCache, FailUpdate, storeVars
    <2>5. ASSUME NEW r \in Request, RequestNext(r)
          PROVE  lock' = lock
      BY <2>5 DEF RequestNext, Arrive, FindExisting, FindWallet, CreateTransaction,
                  UnsupportedMethod, CreateSession, UpdateProviderRef, ReturnUrl, Fail, storeVars
    <2>6. ASSUME \/ \E s \in Session : Pay(s) \/ Expire(s)
                 \/ \E u \in User : RemoveUser(u)
                 \/ UNCHANGED vars
          PROVE  lock' = lock
      BY <2>6 DEF Pay, Expire, RemoveUser, DeleteUser, vars, storeVars
    <2> QED BY <2>1, <2>2, <2>3, <2>4, <2>5, <2>6 DEF Next
  <1> QED BY <1>2, <1>3

LEMMA AddsItsEntries ==
  ASSUME Control, Isolation, [Next]_vars
  PROVE  AddsOnly(DepositEntry) /\ EventsStay("TransferCompleted")
PROOF
  <1>0. StoreTypeOK
    BY DEF Control, TypeOK
  <1>1. ASSUME NEW h \in Handler, Settle(h)
        PROVE  AddsOnly(DepositEntry) /\ EventsStay("TransferCompleted")
    <2>1. PICK k \in Key, w \in Wallet, a \in Nat, e \in LedgerEntry :
            /\ ledger' = [ledger EXCEPT ![w] = Append(@, e)]
            /\ e.type = "DEPOSIT" /\ e.idempotency_key = k
            /\ SaveOutbox("DepositSucceeded", k)
      BY <1>1, SettleFacts
    <2>2. e \in DepositEntry
      BY <2>1 DEF DepositEntry
    <2>3. AddsOnly(DepositEntry)
      BY <1>0, <2>1, <2>2, OneEntryBooked DEF AddsOnly, EntriesStay
    <2>4. EventsStay("TransferCompleted")
      BY <1>0, <2>1, SavedEvent DEF EventsStay, StoreTypeOK
    <2> QED BY <2>3, <2>4
  <1>2. CASE ~ \E h \in Handler : Settle(h)
    BY <1>0, <1>2, OnlySettle, NothingAdded DEF EventsStay
  <1> QED BY <1>1, <1>2

LEMMA RowsKept ==
  ASSUME Control, Isolation, UNCHANGED handlerVars, \A h \in Handler : LeavesRowsOf(h)
  PROVE  Isolation'
PROOF
  <1>1. ASSUME NEW h \in Handler
        PROVE  Isolation!(h)'
    BY IsolationKept DEF handlerVars, LeavesRowsOf
  <1> QED BY <1>1 DEF Isolation

LEMMA SettledKept ==
  ASSUME Settled, UNCHANGED tx, AddsOnly(TransferEntry), EventsStay("DepositSucceeded")
  PROVE  Settled'
PROOF
  <1>1. \A k \in Key : /\ HasStatus(k, "COMPLETED")' <=> HasStatus(k, "COMPLETED")
                       /\ HasStatus(k, "COMPLETED") =>
                            /\ tx'[k].amount = tx[k].amount /\ tx'[k].user = tx[k].user
                            /\ tx'[k].currency = tx[k].currency
                       /\ outbox'[Event("DepositSucceeded", k)] = outbox[Event("DepositSucceeded", k)]
    BY DEF HasStatus, EventsStay
  <1>2. \A w \in Wallet : \A i \in 1..Len(ledger[w]) :
          i \in 1..Len(ledger'[w]) /\ ledger'[w][i] = ledger[w][i]
    BY DEF AddsOnly, EntriesStay
  <1>3. \A w \in Wallet : \A i \in 1..Len(ledger'[w]) : ledger'[w][i].type = "DEPOSIT" =>
          i \in 1..Len(ledger[w]) /\ ledger'[w][i] = ledger[w][i]
    BY DEF AddsOnly, TransferEntry
  <1> QED BY <1>1, <1>2, <1>3, NothingSettled
=============================================================================
