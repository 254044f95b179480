------------------------------ MODULE Deposits ------------------------------
(***************************************************************************)
(* Card deposits: WalletService.deposit asks Stripe for a checkout session *)
(* and leaves a PENDING transaction; the user pays on Stripe's pages;      *)
(* Stripe reports to the webhook, which settles or fails the transaction   *)
(* (StripeWebhookController, settleByProviderRef, failByProviderRef).      *)
(*                                                                         *)
(* Deposit requests (Request) and webhook deliveries (Handler) run at the  *)
(* same time, each a slot that moves through the awaits of its method.     *)
(* Stripe is external: a session is paid or expires, never both; an event  *)
(* is delivered any number of times, in any order, and again and again     *)
(* until it is answered 200.                                               *)
(***************************************************************************)
EXTENDS WalletStore

CONSTANTS
  Request,        \* deposit requests handled at the same time
  Handler,        \* webhook deliveries handled at the same time
  Inputs,         \* the deposits clients may ask for
  Session,        \* ids of Stripe checkout sessions
  DelayedMethods  \* whether checkout offers payment methods that clear later

DepositDto ==
  [user: User, amount: Amount, currency: Currency, key: Key,
   paymentMethod: {"stripe", "other"}]

ASSUME SlotsAssumption == Request \cup Handler \subseteq Holder
ASSUME InputsAssumption == Inputs \subseteq DepositDto /\ Null \notin Inputs
ASSUME DelayedMethodsAssumption == DelayedMethods \in BOOLEAN

VARIABLES
  tx,         \* tx[k]: the row of the transaction table with key k, or Null
  pc,         \* pc[r]: the await deposit request r has reached
  input,      \* input[r]: the authenticated user and the DTO, or Null
  response,   \* response[r]: the answer to the last request of slot r
  created,    \* created[r]: the session Stripe created for r, or Null
  session,    \* session[s]: Stripe's checkout session s, or Null
  handedOut,  \* sessions whose URL a client has been given
  sent,       \* events Stripe has emitted: it may deliver each of them
  unacked,    \* those it has no 200 for: it must deliver each of them
  hpc,        \* hpc[h]: the await webhook handler h has reached
  event,      \* event[h]: the event h handles, or Null
  found,      \* found[h]: the key of the transaction row h read, or Null
  wallet,     \* wallet[h]: the id findByUserIdAndCurrency returned, or Null
  row         \* row[h]: the balance in the row h locked, or Null

requestVars == <<pc, input, response, created>>
stripeVars == <<session, handedOut, sent, unacked>>
handlerVars == <<hpc, event, found, wallet, row>>
vars == <<storeVars, tx, requestVars, stripeVars, handlerVars>>

-----------------------------------------------------------------------------
TransactionStatus == {"PENDING", "COMPLETED", "FAILED"}

\* The provider_ref of the deposits that were settled before.
EarlierSession == "earlier"

Transaction ==
  [user: User, amount: Nat, currency: Currency, status: TransactionStatus,
   provider_ref: Session \cup {EarlierSession, Null}]

\* What Stripe keeps of a session: whose transaction, and how far it got.
CheckoutSession ==
  [key: Key, amount: Amount, status: {"open", "processing", "paid", "expired"}]

\* payment_status matters for "completed" only; the last type is the event of
\* a payment that clears after the session was completed.
StripeEvent ==
  [type: {"completed", "expired", "async_payment_succeeded"},
   paid: BOOLEAN, session: Session]

\* A row, a session or an event is not SQL NULL, and no session made now has
\* the id of an earlier one.
ASSUME RowsAssumption ==
  /\ Null \notin Transaction /\ Null \notin CheckoutSession /\ Null \notin StripeEvent
  /\ Null \notin Session /\ EarlierSession \notin Session \cup {Null}

Report(type, paid, s) == [type |-> type, paid |-> paid, session |-> s]

Responses == {"none", "checkoutUrl", "duplicate", "notFound", "badRequest", "error"}
Steps == {"idle", "findByIdempotencyKey", "findByUserIdAndCurrency", "createTransaction",
          "processDeposit", "updateProviderRef", "return"}
HandlerSteps == {"idle", "settleFind", "findWallet", "lockWallet", "settle", "invalidate",
                 "failFind", "failUpdate"}

Goto(r, step) == pc' = [pc EXCEPT ![r] = step]

Answer(r, a) ==
  /\ Goto(r, "idle")
  /\ response' = [response EXCEPT ![r] = a]
  /\ created' = [created EXCEPT ![r] = Null]
  /\ UNCHANGED input

-----------------------------------------------------------------------------
(* WalletService.deposit                                                   *)
Arrive(r, i) ==
  /\ pc[r] = "idle"
  /\ i.user \in users
  /\ Goto(r, "findByIdempotencyKey")
  /\ input' = [input EXCEPT ![r] = i]
  /\ response' = [response EXCEPT ![r] = "none"]
  /\ UNCHANGED <<storeVars, tx, created, stripeVars, handlerVars>>

\* A key that has a transaction is answered with an empty object, no URL.
FindExisting(r) ==
  /\ pc[r] = "findByIdempotencyKey"
  /\ \/ /\ tx[input[r].key] # Null
        /\ Answer(r, "duplicate")
     \/ /\ tx[input[r].key] = Null
        /\ Goto(r, "findByUserIdAndCurrency")
        /\ UNCHANGED <<input, response, created>>
  /\ UNCHANGED <<storeVars, tx, stripeVars, handlerVars>>

FindWallet(r) ==
  /\ pc[r] = "findByUserIdAndCurrency"
  /\ \/ /\ WalletsOf(input[r].user, input[r].currency) = {}
        /\ Answer(r, "notFound")
     \/ /\ WalletsOf(input[r].user, input[r].currency) # {}
        /\ Goto(r, "createTransaction")
        /\ UNCHANGED <<input, response, created>>
  /\ UNCHANGED <<storeVars, tx, stripeVars, handlerVars>>

\* The unique index on transaction.idempotency_key.
TransactionKeyFreeAlways(k) == TRUE
TransactionKeyFree(k) == tx[k] = Null

NewTransactionWithoutStatus(i) ==
  [user |-> i.user, amount |-> i.amount, currency |-> i.currency,
   status |-> Null, provider_ref |-> Null]
NewTransaction(i) ==
  [user |-> i.user, amount |-> i.amount, currency |-> i.currency,
   status |-> "PENDING", provider_ref |-> Null]

CreateTransaction(r) ==
  /\ pc[r] = "createTransaction"
  /\ \/ /\ ~TransactionKeyFree(input[r].key)
        /\ Answer(r, "error")
        /\ UNCHANGED tx
     \/ /\ TransactionKeyFree(input[r].key)
        /\ tx' = [tx EXCEPT ![input[r].key] = NewTransaction(input[r])]
        /\ Goto(r, "processDeposit")
        /\ UNCHANGED <<input, response, created>>
  /\ UNCHANGED <<storeVars, stripeVars, handlerVars>>

\* PaymentGatewayRegistry.resolve: the row is there already.
UnsupportedMethod(r) ==
  /\ pc[r] = "processDeposit"
  /\ input[r].paymentMethod # "stripe"
  /\ Answer(r, "badRequest")
  /\ UNCHANGED <<storeVars, tx, stripeVars, handlerVars>>

\* StripePaymentGateway.processDeposit behind the circuit breaker: Stripe
\* creates a session.  The answer may come after the breaker's ten seconds,
\* when the request has failed already.
CreateSession(r, s) ==
  /\ pc[r] = "processDeposit"
  /\ input[r].paymentMethod = "stripe"
  /\ session[s] = Null
  /\ session' = [session EXCEPT ![s] =
       [key |-> input[r].key, amount |-> input[r].amount, status |-> "open"]]
  /\ \/ /\ created' = [created EXCEPT ![r] = s]
        /\ Goto(r, "updateProviderRef")
        /\ UNCHANGED <<input, response>>
     \/ Answer(r, "error")
  /\ UNCHANGED <<storeVars, tx, handedOut, sent, unacked, handlerVars>>

NoProviderRef(k, s) == tx
WithProviderRef(k, s) == [tx EXCEPT ![k].provider_ref = s]

UpdateProviderRef(r) ==
  /\ pc[r] = "updateProviderRef"
  /\ tx' = WithProviderRef(input[r].key, created[r])
  /\ Goto(r, "return")
  /\ UNCHANGED <<storeVars, input, response, created, stripeVars, handlerVars>>

ReturnUrl(r) ==
  /\ pc[r] = "return"
  /\ handedOut' = handedOut \cup {created[r]}
  /\ Answer(r, "checkoutUrl")
  /\ UNCHANGED <<storeVars, tx, session, sent, unacked, handlerVars>>

\* The database or Stripe fails the call, the breaker is open, or the server
\* stops.  The PENDING row stays.
Fail(r) ==
  /\ pc[r] # "idle"
  /\ Answer(r, "error")
  /\ UNCHANGED <<storeVars, tx, stripeVars, handlerVars>>

-----------------------------------------------------------------------------
(* Stripe                                                                  *)
Becomes(s, before, after) ==
  /\ session[s] # Null
  /\ session[s].status = before
  /\ session' = [session EXCEPT ![s].status = after]

Emit(e) ==
  /\ sent' = sent \cup {e}
  /\ unacked' = unacked \cup {e}

Pay(s) ==
  /\ s \in handedOut
  /\ \/ /\ Becomes(s, "open", "paid")
        /\ Emit(Report("completed", TRUE, s))
     \/ /\ DelayedMethods
        /\ Becomes(s, "open", "processing")
        /\ Emit(Report("completed", FALSE, s))
     \/ /\ Becomes(s, "processing", "paid")
        /\ Emit(Report("async_payment_succeeded", TRUE, s))
  /\ UNCHANGED <<storeVars, tx, requestVars, handedOut, handlerVars>>

\* A session lives for 24 hours, far longer than the request that created it.
Expire(s) ==
  /\ \A r \in Request : created[r] # s
  /\ Becomes(s, "open", "expired")
  /\ Emit(Report("expired", FALSE, s))
  /\ UNCHANGED <<storeVars, tx, requestVars, handedOut, handlerVars>>

-----------------------------------------------------------------------------
(* StripeWebhookController.handleWebhook                                   *)
HGoto(h, step) == hpc' = [hpc EXCEPT ![h] = step]

HandlerEnds(h) ==
  /\ HGoto(h, "idle")
  /\ event' = [event EXCEPT ![h] = Null]
  /\ found' = [found EXCEPT ![h] = Null]
  /\ wallet' = [wallet EXCEPT ![h] = Null]
  /\ row' = [row EXCEPT ![h] = Null]

\* Answered 200: Stripe need not deliver the event again.
Acknowledge(h) ==
  /\ HandlerEnds(h)
  /\ unacked' = unacked \ {event[h]}
  /\ UNCHANGED <<session, handedOut, sent>>

\* The switch on event.type; any other event is acknowledged and dropped.
SettlesWhateverCompletes(e) == e.type = "completed"
Settles(e) == e.type = "completed" /\ e.paid

Deliver(h, e) ==
  /\ hpc[h] = "idle"
  /\ e \in sent
  /\ \/ /\ Settles(e)
        /\ HGoto(h, "settleFind")
        /\ event' = [event EXCEPT ![h] = e]
        /\ UNCHANGED <<unacked, found, wallet, row>>
     \/ /\ e.type = "expired"
        /\ HGoto(h, "failFind")
        /\ event' = [event EXCEPT ![h] = e]
        /\ UNCHANGED <<unacked, found, wallet, row>>
     \/ /\ ~Settles(e) /\ e.type # "expired"
        /\ unacked' = unacked \ {e}
        /\ UNCHANGED handlerVars
  /\ UNCHANGED <<storeVars, tx, requestVars, session, handedOut, sent>>

\* findTransactionByProviderRef, and the check that it is PENDING.
PendingByMetadata(s) ==
  {k \in Key : tx[k] # Null /\ session[s].key = k /\ tx[k].status = "PENDING"}
PendingWith(s) ==
  {k \in Key : tx[k] # Null /\ tx[k].provider_ref = s /\ tx[k].status = "PENDING"}

FindPending(h, step, next) ==
  /\ hpc[h] = step
  /\ \/ /\ PendingWith(event[h].session) = {}
        /\ Acknowledge(h)
     \/ \E k \in PendingWith(event[h].session) :
          /\ found' = [found EXCEPT ![h] = k]
          /\ HGoto(h, next)
          /\ UNCHANGED <<event, wallet, row, stripeVars>>
  /\ UNCHANGED <<storeVars, tx, requestVars>>

SettleFind(h) == FindPending(h, "settleFind", "findWallet")

\* A user without the wallet any more: logged, and acknowledged.
SettleFindWallet(h) ==
  LET W == WalletsOf(tx[found[h]].user, tx[found[h]].currency)
  IN  /\ hpc[h] = "findWallet"
      /\ \/ /\ W = {}
            /\ Acknowledge(h)
         \/ \E w \in W :
              /\ wallet' = [wallet EXCEPT ![h] = w]
              /\ HGoto(h, "lockWallet")
              /\ UNCHANGED <<event, found, row, stripeVars>>
      /\ UNCHANGED <<storeVars, tx, requestVars>>

(* settleTransaction                                                       *)
LockWallet(h) ==
  /\ hpc[h] = "lockWallet"
  /\ LockRow(h, wallet[h])
  /\ row' = [row EXCEPT ![h] = RowRead(wallet[h])]
  /\ HGoto(h, "settle")
  /\ UNCHANGED <<users, live, balance, ledger, outbox, cache, tx, requestVars,
                 stripeVars, event, found, wallet>>

AcknowledgedAnyway(h) ==
  /\ unacked' = unacked \ {event[h]}
  /\ UNCHANGED <<session, handedOut, sent>>
NotAcknowledged(h) == UNCHANGED stripeVars

\* The handler throws, or the server stops: ROLLBACK, no 200.
HandlerFails(h) ==
  /\ hpc[h] # "idle"
  /\ ReleaseLocks(h)
  /\ HandlerEnds(h)
  /\ NotAcknowledged(h)
  /\ UNCHANGED <<users, live, balance, ledger, outbox, cache, tx, requestVars>>

\* The row is gone, or the ledger has an entry with the transaction's key.
SettleRefused(h) ==
  /\ hpc[h] = "settle"
  /\ row[h] = Null \/ LedgerKeyTaken(found[h])
  /\ HandlerFails(h)

NotCompleted(k) == tx
MarkedCompleted(k) == [tx EXCEPT ![k].status = "COMPLETED"]

Settle(h) ==
  LET k == found[h]
      w == wallet[h]
      a == tx[k].amount
  IN  /\ hpc[h] = "settle"
      /\ row[h] # Null
      /\ ~LedgerKeyTaken(k)
      /\ balance' = [balance EXCEPT ![w] = row[h] + a]
      /\ ledger' = [ledger EXCEPT ![w] = Append(@, Entry("DEPOSIT", a, row[h] + a, k))]
      /\ tx' = MarkedCompleted(k)
      /\ SaveOutbox("DepositSucceeded", k)
      /\ ReleaseLocks(h)
      /\ HGoto(h, "invalidate")
      /\ row' = [row EXCEPT ![h] = Null]
      /\ UNCHANGED <<users, live, cache, requestVars, stripeVars, event, found, wallet>>

InvalidateCache(h) ==
  /\ hpc[h] = "invalidate"
  /\ cache' = [cache EXCEPT ![wallet[h]] = Null]
  /\ Acknowledge(h)
  /\ UNCHANGED <<users, live, balance, lock, ledger, outbox, tx, requestVars>>

FailFind(h) == FindPending(h, "failFind", "failUpdate")

\* failTransaction sets the status whatever it is by now.
FailUpdate(h) ==
  /\ hpc[h] = "failUpdate"
  /\ tx' = [tx EXCEPT ![found[h]].status = "FAILED"]
  /\ Acknowledge(h)
  /\ UNCHANGED <<storeVars, requestVars>>

RemoveUser(u) ==
  /\ DeleteUser(u)
  /\ UNCHANGED <<tx, requestVars, stripeVars, handlerVars>>

-----------------------------------------------------------------------------
EarlierTransaction(w) ==
  [user |-> Owner[w], amount |-> Opening[w], currency |-> CurrencyOf[w],
   status |-> "COMPLETED", provider_ref |-> EarlierSession]

Init ==
  /\ StoreInit
  /\ tx = [k \in Key |-> IF Earlier[k] = Null THEN Null ELSE EarlierTransaction(Earlier[k].to)]
  /\ pc = [r \in Request |-> "idle"]
  /\ input = [r \in Request |-> Null]
  /\ response = [r \in Request |-> "none"]
  /\ created = [r \in Request |-> Null]
  /\ session = [s \in Session |-> Null]
  /\ handedOut = {}
  /\ sent = {}
  /\ unacked = {}
  /\ hpc = [h \in Handler |-> "idle"]
  /\ event = [h \in Handler |-> Null]
  /\ found = [h \in Handler |-> Null]
  /\ wallet = [h \in Handler |-> Null]
  /\ row = [h \in Handler |-> Null]

RequestNext(r) ==
  \/ \E i \in Inputs : Arrive(r, i)
  \/ FindExisting(r) \/ FindWallet(r) \/ CreateTransaction(r) \/ UnsupportedMethod(r)
  \/ \E s \in Session : CreateSession(r, s)
  \/ UpdateProviderRef(r) \/ ReturnUrl(r) \/ Fail(r)

HandlerNext(h) ==
  \/ \E e \in sent : Deliver(h, e)
  \/ SettleFind(h) \/ SettleFindWallet(h) \/ LockWallet(h)
  \/ SettleRefused(h) \/ Settle(h) \/ InvalidateCache(h)
  \/ FailFind(h) \/ FailUpdate(h) \/ HandlerFails(h)

Next ==
  \/ \E r \in Request : RequestNext(r)
  \/ \E s \in Session : Pay(s) \/ Expire(s)
  \/ \E h \in Handler : HandlerNext(h)
  \/ \E u \in User : RemoveUser(u)

Spec == Init /\ [][Next]_vars

\* Stripe repeats an event until it is answered 200, and each await of a
\* handler sometimes succeeds: whatever fails the handlers is not for ever.
Fairness ==
  \A s \in Session :
    LET paid == Report("completed", TRUE, s)
        gone == Report("expired", FALSE, s)
        On(e, A(_)) == \E h \in Handler : event[h] = e /\ A(h)
    IN  /\ SF_vars(paid \in unacked /\ \E h \in Handler : Deliver(h, paid))
        /\ SF_vars(On(paid, SettleFind))
        /\ SF_vars(On(paid, SettleFindWallet))
        /\ SF_vars(On(paid, LockWallet))
        /\ SF_vars(On(paid, Settle))
        /\ SF_vars(gone \in unacked /\ \E h \in Handler : Deliver(h, gone))
        /\ SF_vars(On(gone, FailFind))
        /\ SF_vars(On(gone, FailUpdate))

FairSpec == Spec /\ Fairness
-----------------------------------------------------------------------------
TypeOK ==
  /\ StoreTypeOK
  /\ tx \in [Key -> Transaction \cup {Null}]
  /\ pc \in [Request -> Steps]
  /\ input \in [Request -> Inputs \cup {Null}]
  /\ response \in [Request -> Responses]
  /\ created \in [Request -> Session \cup {Null}]
  /\ session \in [Session -> CheckoutSession \cup {Null}]
  /\ handedOut \subseteq Session
  /\ sent \subseteq StripeEvent
  /\ unacked \subseteq sent
  /\ hpc \in [Handler -> HandlerSteps]
  /\ event \in [Handler -> sent \cup {Null}]
  /\ found \in [Handler -> Key \cup {Null}]
  /\ wallet \in [Handler -> Wallet \cup {Null}]
  /\ row \in [Handler -> Int \cup {Null}]

HasStatus(k, status) == tx[k] # Null /\ tx[k].status = status

\* A COMPLETED transaction has one ledger entry, of its amount, in the wallet
\* of its user and currency, and one DepositSucceeded event; a PENDING or
\* FAILED one has neither, however often Stripe reports the payment and
\* however many handlers work on it at once.
SettledOnce ==
  \A k \in Key :
    /\ outbox[Event("DepositSucceeded", k)] = IF HasStatus(k, "COMPLETED") THEN 1 ELSE 0
    /\ \A w \in Wallet : \A i \in 1..Len(ledger[w]) :
         ledger[w][i].idempotency_key = k =>
           /\ HasStatus(k, "COMPLETED")
           /\ ledger[w][i].type = "DEPOSIT"
           /\ ledger[w][i].amount = tx[k].amount
           /\ Owner[w] = tx[k].user /\ CurrencyOf[w] = tx[k].currency
    /\ HasStatus(k, "COMPLETED") =>
         \E w \in Wallet : \E i \in 1..Len(ledger[w]) : ledger[w][i].idempotency_key = k

\* Nothing is credited that was not paid: the session of a COMPLETED
\* transaction is paid, and was for this transaction and this amount.
CreditIsPaid ==
  \A k \in Key : HasStatus(k, "COMPLETED") /\ Earlier[k] = Null =>
    \E s \in Session :
      /\ tx[k].provider_ref = s
      /\ session[s] = [key |-> k, amount |-> tx[k].amount, status |-> "paid"]

\* What a client can pay for, a webhook can find: when a URL is handed out,
\* the transaction row already carries the session's id.
UrlIsTraceable ==
  \A s \in handedOut : \E k \in Key :
    tx[k] # Null /\ tx[k].provider_ref = s /\ session[s].key = k

\* A transaction row keeps its user, amount and currency, its provider_ref
\* once it has one, and its status once that is COMPLETED or FAILED.
TransactionsStay ==
  [][\A k \in Key : tx[k] # Null =>
       /\ tx'[k] = [tx[k] EXCEPT !.status = tx'[k].status, !.provider_ref = tx'[k].provider_ref]
       /\ tx[k].status # "PENDING" => tx'[k].status = tx[k].status
       /\ tx[k].provider_ref # Null => tx'[k].provider_ref = tx[k].provider_ref]_vars

\* A deposit whose request failed after the INSERT, before the session was
\* recorded, is dead: its key is used up, and neither a later request nor an
\* event of the session Stripe may have made for it ever changes the row.
Dead(k) ==
  /\ HasStatus(k, "PENDING")
  /\ tx[k].provider_ref = Null
  /\ \A r \in Request : pc[r] \in {"processDeposit", "updateProviderRef"} => input[r].key # k

DeadKeysStay == [][\A k \in Key : Dead(k) => tx'[k] = tx[k] /\ Dead(k)']_vars

Recorded(k, s) == tx[k] # Null /\ tx[k].provider_ref = s /\ session[s] # Null
UserGone(k) == tx[k] # Null /\ tx[k].user \notin users

\* README, the flow of a deposit: the user completes the payment, Stripe sends
\* checkout.session.completed, the transaction is COMPLETED.  Every payment is
\* credited in the end, as long as the user keeps the wallet, through crashes,
\* concurrent and repeated deliveries.
PaidIsCredited ==
  \A k \in Key, s \in Session :
    (Recorded(k, s) /\ session[s].status = "paid")
      ~> (HasStatus(k, "COMPLETED") \/ UserGone(k))

\* Every session that expires fails its transaction in the end.
ExpiredFails ==
  \A k \in Key, s \in Session :
    (Recorded(k, s) /\ session[s].status = "expired") ~> HasStatus(k, "FAILED")

-----------------------------------------------------------------------------
\* Deposits implement the abstract bank: a COMPLETED row is a payment received.
WalletOf(u, c) == CHOOSE w \in Wallet : Owner[w] = u /\ CurrencyOf[w] = c

Payment(k) ==
  IF HasStatus(k, "COMPLETED")
  THEN [to |-> WalletOf(tx[k].user, tx[k].currency), amount |-> tx[k].amount]
  ELSE Null

TheBank == INSTANCE Bank WITH
  funds <- balance, moved <- [k \in Key |-> Null], paidIn <- [k \in Key |-> Payment(k)]

\* Every commit of settleTransaction is one payment under a fresh key, and no
\* other step changes a balance.
ImplementsBank == TheBank!Spec

=============================================================================
