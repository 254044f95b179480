--------------------------- MODULE Accounts_proofs ---------------------------
(***************************************************************************)
(* Proofs about users and their wallets, for any number of requests that   *)
(* run at the same time.                                                   *)
(***************************************************************************)
EXTENDS Accounts, TLAPS

-----------------------------------------------------------------------------
(* The requests.                                                           *)
\* The DTO of a request is told by its op.
LEMMA InputKind ==
  ASSUME NEW i \in Inputs
  PROVE  /\ i.op \in {"register", "createWallet", "update", "changePassword", "delete", "seed"}
         /\ i.op = "register" => i \in RegisterDto
         /\ i.op = "createWallet" => i \in CreateWalletDto
         /\ i.op = "update" => i \in UpdateUserDto
         /\ i.op = "changePassword" => i \in ChangePasswordDto
         /\ i.op = "delete" => i \in DeleteDto
         /\ i.op = "seed" => i \in SeedEnv
PROOF
  BY InputsAssumption DEF RegisterDto, CreateWalletDto, UpdateUserDto, ChangePasswordDto,
     DeleteDto, SeedEnv

\* A row built column by column is a row.
LEMMA RowOfColumns ==
  ASSUME NEW f, f = [c \in Column |-> f[c]],
         f["email"] \in Email, f["name"] \in Name, f["password"] \in Password, f["role"] \in Role
  PROVE  f \in Users
PROOF
  BY DEF Users, Column

LEMMA ColumnsOfRow ==
  ASSUME NEW f \in Users
  PROVE  /\ f["email"] \in Email /\ f["name"] \in Name
         /\ f["password"] \in Password /\ f["role"] \in Role
PROOF
  BY DEF Users

-----------------------------------------------------------------------------
(* What a request holds at each await.                                     *)
\* The awaits of each method.
AtStepOf(op, step) ==
  \/ op = "register" /\ step \in {"checkDuplicateEmail", "createUser"}
  \/ op = "createWallet" /\ step \in {"findWallet", "ensureFind", "ensureInsert"}
  \/ op = "update" /\ step \in {"findTarget", "findForUpdate"} \cup Saving
  \/ op = "changePassword" /\ step \in {"findSelf", "findForUpdate"} \cup Saving
  \/ op = "delete" /\ step \in {"findForDelete", "delete"}
  \/ op = "seed" /\ step \in {"seedFind", "seedUser", "seedWallet"} \cup Saving

Callers == [id: minted, role: Role]

Local(r) ==
  pc[r] # "idle" =>
    /\ input[r] \in Inputs
    /\ AtStepOf(input[r].op, pc[r])
    /\ NeedsToken(input[r]) \/ pc[r] \in Saving \cup {"seedWallet"} => caller[r] \in Callers
    /\ pc[r] \in Saving => entity[r] \in Users /\ TargetOf(r) \in minted

LocalsOK == \A r \in Request : Local(r)

\* Every row has an id that was given out.
RowsMinted == \A u \in Id : user[u] # Null => u \in minted

\* A request's step leaves the variables of the others alone.
Alone(r) ==
  \A q \in Request : q # r =>
    /\ pc'[q] = pc[q] /\ input'[q] = input[q] /\ caller'[q] = caller[q]
    /\ entity'[q] = entity[q] /\ differs'[q] = differs[q]

LEMMA AnswerAlone ==
  ASSUME TypeOK, NEW r \in Request, Answer(r)
  PROVE  Alone(r) /\ pc'[r] = "idle"
PROOF
  BY DEF TypeOK, Answer, Goto, Alone

LEMMA ContinueAlone ==
  ASSUME TypeOK, NEW r \in Request, NEW step, Continue(r, step)
  PROVE  /\ Alone(r) /\ pc'[r] = step
         /\ UNCHANGED <<dbVars, input, caller, entity, differs, listener, overtaken>>
PROOF
  BY DEF TypeOK, Continue, Goto, Alone

LEMMA RequestAlone ==
  ASSUME TypeOK, NEW r \in Request, RequestStep(r)
  PROVE  Alone(r)
PROOF
  <1>1. CASE Answer(r)
    BY <1>1, AnswerAlone
  <1>2. CASE \E step : Continue(r, step)
    BY <1>2, ContinueAlone
  <1>3. CASE ~Answer(r) /\ ~ \E step : Continue(r, step)
    <2>1. CASE \E i \in Inputs : Arrive(r, i)
      BY <2>1 DEF TypeOK, Arrive, Goto, Alone
    <2>2. CASE FindForUpdate(r)
      BY <1>3, <2>2 DEF TypeOK, FindForUpdate, Refuse, Goto, Alone
    <2>3. CASE SaveSelect(r)
      BY <1>3, <2>3 DEF TypeOK, SaveSelect, Refuse, Goto, Alone
    <2>4. CASE SeedFind(r) \/ SeedUser(r)
      BY <1>3, <2>4 DEF TypeOK, SeedFind, SeedUser, Refuse, Goto, Alone
    <2> QED
      BY <1>3, <2>1, <2>2, <2>3, <2>4 DEF RequestStep, CheckDuplicateEmail, CreateUser, FindWallet,
         EnsureFind, EnsureInsert, FindTarget, FindSelf, SaveUpdate, SaveInsert, FindForDelete,
         Delete, SeedWallet, SeedWalletFails, Fail, Refuse
  <1> QED BY <1>1, <1>2, <1>3

-----------------------------------------------------------------------------
(* Types.                                                                  *)
RequestTypes ==
  /\ pc \in [Request -> Steps]
  /\ input \in [Request -> Inputs \cup {Null}]
  /\ caller \in [Request -> [id: minted, role: Role] \cup {Null}]
  /\ entity \in [Request -> Users \cup {Null}]
  /\ differs \in [Request -> SUBSET Column]

LEMMA CallerFacts ==
  ASSUME TypeOK, NEW r \in Request, caller[r] \in Callers
  PROVE  caller[r].id \in minted /\ caller[r].id \in Id /\ caller[r].role \in Role
PROOF
  BY DEF TypeOK, Callers

LEMMA TargetFacts ==
  ASSUME TypeOK, LocalsOK, NEW r \in Request, pc[r] \in {"findForUpdate", "delete"} \cup Saving
  PROVE  /\ TargetOf(r) \in Id
         /\ input[r] \in Inputs
         /\ input[r].op # "update" => caller[r] \in Callers
PROOF
  <1>1. /\ input[r] \in Inputs /\ AtStepOf(input[r].op, pc[r])
        /\ NeedsToken(input[r]) \/ pc[r] \in Saving \cup {"seedWallet"} => caller[r] \in Callers
    BY DEF LocalsOK, Local, Saving
  <1>2. input[r].op \in {"update", "changePassword", "delete", "seed"}
    BY <1>1 DEF AtStepOf, Saving
  <1>3. CASE input[r].op \in {"update", "delete"}
    BY <1>1, <1>3, InputKind DEF UpdateUserDto, DeleteDto, TargetOf, NeedsToken
  <1>4. CASE input[r].op \in {"changePassword", "seed"}
    <2>1. caller[r] \in Callers
      BY <1>1, <1>4 DEF NeedsToken, AtStepOf, Saving
    <2> QED BY <1>1, <1>4, <2>1, CallerFacts DEF TargetOf
  <1> QED BY <1>2, <1>3, <1>4

LEMMA AnswerTypes ==
  ASSUME TypeOK, NEW r \in Request, Answer(r), minted \subseteq minted'
  PROVE  /\ RequestTypes'
         /\ \A q \in overtaken : q # r => q \in Request /\ pc'[q] \in Saving
PROOF
  BY DEF TypeOK, Answer, Goto, RequestTypes, Steps

LEMMA RefuseTypes ==
  ASSUME TypeOK, NEW r \in Request, Refuse(r)
  PROVE  TypeOK'
PROOF
  <1>1. UNCHANGED <<user, minted, wallets, listener>> /\ overtaken' = overtaken \ {r} /\ Answer(r)
    BY DEF Refuse, dbVars
  <1>2. /\ RequestTypes'
        /\ \A q \in overtaken : q # r => q \in Request /\ pc'[q] \in Saving
    BY <1>1, AnswerTypes
  <1>3. overtaken' \subseteq {q \in Request : pc'[q] \in Saving}
    BY <1>1, <1>2
  <1> QED BY <1>1, <1>2, <1>3 DEF TypeOK, RequestTypes

LEMMA ContinueTypes ==
  ASSUME TypeOK, NEW r \in Request, NEW step \in Steps, Continue(r, step),
         pc[r] \in Saving => step \in Saving
  PROVE  TypeOK'
PROOF
  <1>1. /\ UNCHANGED <<user, minted, wallets, input, caller, entity, differs, listener, overtaken>>
        /\ pc' = [pc EXCEPT ![r] = step]
    BY DEF Continue, dbVars, Goto
  <1>2. overtaken' \subseteq {q \in Request : pc'[q] \in Saving}
    BY <1>1 DEF TypeOK
  <1> QED BY <1>1, <1>2 DEF TypeOK

\* After a write: the writer is done, and whoever saves is still saving.
LEMMA WriteTypes ==
  ASSUME TypeOK, NEW r \in Request, NEW u, Answer(r), Overtakes(r, u),
         UNCHANGED <<minted, listener>>,
         user' \in [Id -> Users \cup {Null}], wallets' \in [Id -> [Currency -> Nat]]
  PROVE  TypeOK'
PROOF
  <1>1. /\ RequestTypes'
        /\ \A q \in overtaken : q # r => q \in Request /\ pc'[q] \in Saving
    BY AnswerTypes
  <1>2. \A q \in Request : q # r => pc'[q] = pc[q]
    BY AnswerAlone DEF Alone
  <1>3. overtaken' \subseteq {q \in Request : pc'[q] \in Saving}
    BY <1>1, <1>2 DEF Overtakes
  <1> QED BY <1>1, <1>3 DEF TypeOK, RequestTypes

LEMMA InsertUserTypes ==
  ASSUME TypeOK, NEW u \in Id, NEW row \in Users, InsertUser(u, row)
  PROVE  /\ user' \in [Id -> Users \cup {Null}]
         /\ minted' \subseteq Id /\ minted \subseteq minted' /\ u \in minted'
         /\ wallets' = wallets /\ overtaken' = overtaken
PROOF
  BY DEF TypeOK, InsertUser

LEMMA InsertWalletTypes ==
  ASSUME TypeOK, NEW u \in Id, NEW c \in Currency, InsertWallet(u, c)
  PROVE  wallets' \in [Id -> [Currency -> Nat]]
PROOF
  BY DEF TypeOK, InsertWallet

\* The columns an update sends, and a client may send for it.
LEMMA DataFacts ==
  ASSUME NEW r \in Request, input[r] \in Inputs, input[r].op \in {"update", "changePassword"}
  PROVE  /\ DOMAIN Data(r) \subseteq DOMAIN input[r].data \ {"email"}
         /\ "name" \in DOMAIN Data(r) => Data(r)["name"] \in Name
         /\ "password" \in DOMAIN Data(r) => Data(r)["password"] \in Password
         /\ "role" \in DOMAIN Data(r) => Data(r)["role"] \in Role
         /\ input[r].op = "update" =>
              /\ "password" \notin DOMAIN Data(r)
              /\ "role" \in DOMAIN Data(r) => caller[r].role = "ADMIN"
         /\ input[r].op = "changePassword" => DOMAIN Data(r) = {"password"}
PROOF
  <1>1. CASE input[r].op = "update"
    <2> DEFINE data == input[r].data
    <2>1. data \in [name: Name] \cup [role: Role] \cup [name: Name, role: Role]
      BY <1>1, InputKind DEF UpdateUserDto
    <2>2. Data(r) = [x \in {y \in DOMAIN data : y = "role" => caller[r].role = "ADMIN"} |-> data[x]]
      BY <1>1 DEF Data, Sanitized
    <2>3. /\ DOMAIN data \subseteq {"name", "role"}
          /\ "name" \in DOMAIN data => data["name"] \in Name
          /\ "role" \in DOMAIN data => data["role"] \in Role
      BY <2>1
    <2> HIDE DEF data
    <2> QED BY <1>1, <2>2, <2>3 DEF data
  <1>2. CASE input[r].op = "changePassword"
    <2>1. input[r].data \in [password: Password] /\ Data(r) = input[r].data
      BY <1>2, InputKind DEF ChangePasswordDto, Data
    <2> QED BY <1>2, <2>1
  <1> QED BY <1>1, <1>2

LEMMA AssignTypes ==
  ASSUME NEW r \in Request, input[r] \in Inputs, input[r].op \in {"update", "changePassword"},
         NEW row \in Users
  PROVE  Assign(row, Data(r)) \in Users
PROOF
  <1> DEFINE f == Assign(row, Data(r))
  <1>1. f = [c \in Column |-> IF c \in DOMAIN Data(r) THEN Data(r)[c] ELSE row[c]]
    BY DEF Assign
  <1>2. /\ row["email"] \in Email /\ row["name"] \in Name
        /\ row["password"] \in Password /\ row["role"] \in Role
    BY ColumnsOfRow
  <1>3. f = [c \in Column |-> f[c]]
    BY <1>1
  <1>4. f["email"] \in Email /\ f["name"] \in Name /\ f["password"] \in Password /\ f["role"] \in Role
    BY <1>1, <1>2, DataFacts DEF Column
  <1> HIDE DEF f
  <1>5. f \in Users
    BY <1>3, <1>4, RowOfColumns
  <1> QED BY <1>5 DEF f

\* save writes the columns that differ, whatever the row holds by now.
LEMMA MergeTypes ==
  ASSUME NEW row \in Users, NEW e \in Users, NEW D
  PROVE  [c \in Column |-> IF c \in D THEN e[c] ELSE row[c]] \in Users
PROOF
  <1> DEFINE f == [c \in Column |-> IF c \in D THEN e[c] ELSE row[c]]
  <1>1. f = [c \in Column |-> f[c]]
    OBVIOUS
  <1>2. f["email"] \in Email /\ f["name"] \in Name /\ f["password"] \in Password /\ f["role"] \in Role
    BY ColumnsOfRow DEF Column
  <1> HIDE DEF f
  <1>3. f \in Users
    BY <1>1, <1>2, RowOfColumns
  <1> QED BY <1>3 DEF f

LEMMA NewUserTypes ==
  ASSUME NEW i \in Inputs, i.op \in {"register", "seed"}, NEW role \in Role
  PROVE  NewUser(i, role) \in Users
PROOF
  BY InputKind DEF RegisterDto, SeedEnv, NewUser, Users

LEMMA RequestTypesStep ==
  ASSUME TypeOK, LocalsOK, RowsMinted, NEW r \in Request, RequestStep(r), ~Refuse(r)
  PROVE  TypeOK'
PROOF
  <1>0. /\ user \in [Id -> Users \cup {Null}] /\ wallets \in [Id -> [Currency -> Nat]]
        /\ pc[r] # "idle" => input[r] \in Inputs /\ AtStepOf(input[r].op, pc[r])
        /\ pc[r] \in Saving => entity[r] \in Users
        /\ overtaken \subseteq {q \in Request : pc[q] \in Saving}
    BY DEF TypeOK, LocalsOK, Local, Saving
  <1>1. ASSUME NEW i \in Inputs, Arrive(r, i)
        PROVE  TypeOK'
    <2>1. pc' \in [Request -> Steps]
      BY <1>1, InputKind DEF Arrive, Goto, First, Steps, TypeOK
    <2>2. overtaken' \subseteq {q \in Request : pc'[q] \in Saving}
      BY <1>0, <1>1 DEF Arrive, Goto, Saving, TypeOK
    <2>3. caller' \in [Request -> [id: minted, role: Role] \cup {Null}]
      <3>1. CASE UNCHANGED caller
        BY <3>1 DEF TypeOK
      <3>2. ASSUME NEW u \in WithEmail(i.email),
                   caller' = [caller EXCEPT ![r] = [id |-> u, role |-> user[u].role]]
            PROVE  caller' \in [Request -> [id: minted, role: Role] \cup {Null}]
        <4>1. user[u] \in Users
          BY <1>0, <3>2 DEF WithEmail
        <4>2. u \in minted
          BY <3>2 DEF WithEmail, RowsMinted
        <4> QED BY <3>2, <4>1, <4>2 DEF TypeOK, Users
      <3> QED BY <1>1, <3>1, <3>2 DEF Arrive
    <2> QED BY <1>1, <2>1, <2>2, <2>3 DEF TypeOK, Arrive, dbVars
  <1>2. CASE CheckDuplicateEmail(r) \/ FindWallet(r) \/ EnsureFind(r) \/ FindTarget(r)
             \/ FindSelf(r) \/ FindForDelete(r)
    <2>1. \E step \in {"createUser", "ensureFind", "ensureInsert", "findForUpdate", "delete"} :
            Continue(r, step) /\ pc[r] \notin Saving
      BY <1>2, Zenon DEF CheckDuplicateEmail, FindWallet, EnsureFind, FindTarget, FindSelf,
         FindForDelete, Saving
    <2> QED BY <2>1, ContinueTypes DEF Steps
  <1>3. CASE CreateUser(r)
    <2>1. PICK u \in Id : /\ InsertUser(u, NewUser(input[r], "USER"))
                          /\ DefaultWallet(u, "findOneBy") \/ DefaultWallet(u, "failed")
                          /\ Answer(r)
      BY <1>3 DEF CreateUser
    <2>2. NewUser(input[r], "USER") \in Users
      BY <1>0, <1>3, NewUserTypes DEF CreateUser, AtStepOf, Saving, Role
    <2>3. /\ user' \in [Id -> Users \cup {Null}]
          /\ minted' \subseteq Id /\ minted \subseteq minted'
          /\ wallets' = wallets /\ overtaken' = overtaken
      BY <2>1, <2>2, InsertUserTypes
    <2>4. RequestTypes' /\ \A q \in overtaken : q # r => q \in Request /\ pc'[q] \in Saving
      BY <2>1, <2>3, AnswerTypes
    <2>5. overtaken' \subseteq {q \in Request : pc'[q] \in Saving}
      BY <1>0, <1>3, <2>3, <2>4 DEF CreateUser, Saving
    <2>6. listener' \in [Id -> {"none", "findOneBy", "save", "script", "done", "failed"}]
      BY <2>1 DEF DefaultWallet, TypeOK
    <2> QED BY <1>0, <2>3, <2>4, <2>5, <2>6 DEF TypeOK, RequestTypes
  <1>4. CASE EnsureInsert(r)
    <2>1. caller[r] \in Callers /\ input[r] \in CreateWalletDto
      BY <1>0, <1>4, InputKind DEF EnsureInsert, LocalsOK, Local, AtStepOf, Saving, NeedsToken
    <2>2. wallets' \in [Id -> [Currency -> Nat]]
      BY <1>4, <2>1, CallerFacts, InsertWalletTypes DEF EnsureInsert, CreateWalletDto
    <2>3. RequestTypes' /\ \A q \in overtaken : q # r => q \in Request /\ pc'[q] \in Saving
      BY <1>4, AnswerTypes DEF EnsureInsert
    <2>4. overtaken' \subseteq {q \in Request : pc'[q] \in Saving}
      BY <1>0, <1>4, <2>3 DEF EnsureInsert, Saving
    <2> QED BY <1>4, <2>2, <2>3, <2>4 DEF EnsureInsert, TypeOK, RequestTypes
  <1>5. CASE FindForUpdate(r)
    <2>1. user[TargetOf(r)] \in Users
      BY <1>0, <1>5, TargetFacts DEF FindForUpdate
    <2>2. input[r] \in Inputs /\ input[r].op \in {"update", "changePassword"}
      BY <1>0, <1>5 DEF FindForUpdate, AtStepOf, Saving
    <2>3. Assign(user[TargetOf(r)], Data(r)) \in Users
      BY <2>1, <2>2, AssignTypes
    <2>4. overtaken' \subseteq {q \in Request : pc'[q] \in Saving}
      BY <1>0, <1>5 DEF FindForUpdate, Goto, Saving, TypeOK
    <2> QED BY <1>5, <2>3, <2>4 DEF FindForUpdate, Goto, Steps, TypeOK, dbVars
  <1>6. CASE SaveSelect(r)
    <2>1. CASE Continue(r, "saveInsert")
      BY <2>1, ContinueTypes DEF Steps, Saving
    <2>2. CASE ~Continue(r, "saveInsert")
      <3> DEFINE D == {c \in Column : entity[r][c] # user[TargetOf(r)][c]}
      <3>1. /\ pc[r] = "saveSelect" /\ pc' = [pc EXCEPT ![r] = "saveUpdate"]
            /\ differs' = [differs EXCEPT ![r] = D]
            /\ UNCHANGED <<user, minted, wallets, input, caller, entity, listener, overtaken>>
        BY <1>6, <2>2 DEF SaveSelect, Goto, dbVars
      <3>2. D \in SUBSET Column
        OBVIOUS
      <3> HIDE DEF D
      <3>3. overtaken' \subseteq {q \in Request : pc'[q] \in Saving}
        BY <1>0, <3>1 DEF Saving, TypeOK
      <3>4. pc' \in [Request -> Steps] /\ differs' \in [Request -> SUBSET Column]
        BY <3>1, <3>2 DEF Steps, TypeOK
      <3> QED BY <3>1, <3>3, <3>4 DEF TypeOK
    <2> QED BY <2>1, <2>2
  <1>7. CASE SaveUpdate(r)
    <2> DEFINE u == TargetOf(r)
    <2>1. u \in Id /\ user[u] \in Users /\ entity[r] \in Users
      BY <1>0, <1>7, TargetFacts DEF SaveUpdate, Saving
    <2>2. [c \in Column |-> IF c \in differs[r] THEN entity[r][c] ELSE user[u][c]] \in Users
      BY <2>1, MergeTypes
    <2>3. user' \in [Id -> Users \cup {Null}]
      BY <1>0, <1>7, <2>2 DEF SaveUpdate
    <2> QED BY <1>0, <1>7, <2>3, WriteTypes DEF SaveUpdate
  <1>8. CASE SaveInsert(r)
    <2>1. user' \in [Id -> Users \cup {Null}]
      BY <1>0, <1>8 DEF SaveInsert, Saving
    <2> QED BY <1>0, <1>8, <2>1, WriteTypes DEF SaveInsert
  <1>9. CASE Delete(r)
    <2>1. user' \in [Id -> Users \cup {Null}]
      BY <1>0, <1>9 DEF Delete
    <2>2. wallets' \in [Id -> [Currency -> Nat]]
      BY <1>0, <1>9 DEF Delete, Cascade
    <2> QED BY <1>9, <2>1, <2>2, WriteTypes DEF Delete
  <1>10. CASE SeedFind(r)
    <2>1. CASE Continue(r, "seedUser")
      BY <1>10, <2>1, ContinueTypes DEF SeedFind, Steps, Saving
    <2>2. ASSUME NEW u \in WithEmail(input[r].email),
                 caller' = [caller EXCEPT ![r] = [id |-> u, role |-> "ADMIN"]],
                 entity' = [entity EXCEPT ![r] = Promoted(user[u], input[r].data)],
                 Goto(r, "saveSelect"),
                 UNCHANGED <<dbVars, input, differs, listener, overtaken>>
          PROVE  TypeOK'
      <3>1. u \in minted /\ user[u] \in Users
        BY <1>0, <2>2 DEF WithEmail, RowsMinted
      <3>2. Promoted(user[u], input[r].data) \in Users
        <4>1. input[r].data.role = "ADMIN"
          BY <1>0, <1>10, InputKind DEF SeedFind, AtStepOf, Saving, SeedEnv
        <4> QED BY <3>1, <4>1 DEF Promoted, Users, Role
      <3>3. overtaken' \subseteq {q \in Request : pc'[q] \in Saving}
        BY <1>0, <2>2 DEF Goto, Saving, TypeOK
      <3> QED BY <2>2, <3>1, <3>2, <3>3 DEF Goto, Steps, TypeOK, dbVars, Role
    <2> QED BY <1>10, <2>1, <2>2 DEF SeedFind
  <1>11. CASE SeedUser(r)
    <2>1. PICK u \in Id : /\ InsertUser(u, NewUser(input[r], "ADMIN"))
                          /\ DefaultWallet(u, "script")
                          /\ caller' = [caller EXCEPT ![r] = [id |-> u, role |-> "ADMIN"]]
                          /\ Goto(r, "seedWallet")
                          /\ UNCHANGED <<input, entity, differs>>
      BY <1>11 DEF SeedUser
    <2>2. NewUser(input[r], "ADMIN") \in Users
      BY <1>0, <1>11, NewUserTypes DEF SeedUser, AtStepOf, Saving, Role
    <2>3. /\ user' \in [Id -> Users \cup {Null}]
          /\ minted' \subseteq Id /\ minted \subseteq minted' /\ u \in minted'
          /\ wallets' = wallets /\ overtaken' = overtaken
      BY <2>1, <2>2, InsertUserTypes
    <2>4. overtaken' \subseteq {q \in Request : pc'[q] \in Saving}
      BY <1>0, <1>11, <2>1, <2>3 DEF SeedUser, Goto, Saving, TypeOK
    <2>5. listener' \in [Id -> {"none", "findOneBy", "save", "script", "done", "failed"}]
      BY <2>1 DEF DefaultWallet, TypeOK
    <2>6. caller' \in [Request -> [id: minted', role: Role] \cup {Null}]
      BY <2>1, <2>3 DEF TypeOK, Role
    <2>7. pc' \in [Request -> Steps]
      BY <2>1 DEF Goto, Steps, TypeOK
    <2> QED BY <2>1, <2>3, <2>4, <2>5, <2>6, <2>7 DEF TypeOK
  <1>12. CASE SeedWallet(r) \/ SeedWalletFails(r)
    <2>1. caller[r] \in Callers
      BY <1>12 DEF SeedWallet, SeedWalletFails, LocalsOK, Local, Saving
    <2>2. wallets' \in [Id -> [Currency -> Nat]] /\ minted' = minted
      BY <1>0, <1>12, <2>1, CallerFacts, InsertWalletTypes, CurrencyAssumption
      DEF SeedWallet, SeedWalletFails, dbVars
    <2>3. RequestTypes' /\ \A q \in overtaken : q # r => q \in Request /\ pc'[q] \in Saving
      BY <1>12, <2>2, AnswerTypes DEF SeedWallet, SeedWalletFails
    <2>4. overtaken' \subseteq {q \in Request : pc'[q] \in Saving}
      BY <1>0, <1>12, <2>3 DEF SeedWallet, SeedWalletFails, Saving
    <2>5. listener' \in [Id -> {"none", "findOneBy", "save", "script", "done", "failed"}]
      BY <1>12 DEF SeedWallet, SeedWalletFails, DefaultWallet, TypeOK
    <2>6. UNCHANGED <<user, minted>>
      BY <1>12 DEF SeedWallet, SeedWalletFails, dbVars
    <2> QED BY <2>2, <2>3, <2>4, <2>5, <2>6 DEF TypeOK, RequestTypes
  <1> QED BY <1>1, <1>2, <1>3, <1>4, <1>5, <1>6, <1>7, <1>8, <1>9, <1>10, <1>11, <1>12
          DEF RequestStep, Fail

LEMMA TypesStep == TypeOK /\ LocalsOK /\ RowsMinted /\ [Next]_vars => TypeOK'
PROOF
  <1> SUFFICES ASSUME TypeOK, LocalsOK, RowsMinted, [Next]_vars PROVE TypeOK'
    OBVIOUS
  <1>1. ASSUME NEW u \in Id, Listens(u) \/ ListenerFails(u)
        PROVE  TypeOK'
    <2>1. listener' \in [Id -> {"none", "findOneBy", "save", "script", "done", "failed"}]
      BY <1>1 DEF Listens, ListenerFind, ListenerInsert, ListenerFails, DefaultWallet, TypeOK
    <2>2. wallets' \in [Id -> [Currency -> Nat]]
      BY <1>1, InsertWalletTypes, CurrencyAssumption
      DEF Listens, ListenerFind, ListenerInsert, ListenerFails, dbVars, TypeOK
    <2> QED BY <1>1, <2>1, <2>2
        DEF Listens, ListenerFind, ListenerInsert, ListenerFails, dbVars, requestVars, TypeOK
  <1>2. CASE UNCHANGED vars
    BY <1>2 DEF vars, dbVars, requestVars, TypeOK
  <1> QED BY <1>1, <1>2, RequestTypesStep, RefuseTypes DEF Next

-----------------------------------------------------------------------------
(* The locals of the requests.                                             *)
\* No id is taken back.
LEMMA MintedGrows == [Next]_vars => minted \subseteq minted'
PROOF
  <1> DEFINE Goal == minted \subseteq minted'
  <1>1. ASSUME NEW r \in Request, RequestStep(r)
        PROVE  Goal
    <2>1. CASE \/ \E i \in Inputs : Arrive(r, i)
               \/ CheckDuplicateEmail(r) \/ CreateUser(r)
               \/ FindWallet(r) \/ EnsureFind(r) \/ EnsureInsert(r)
      BY <2>1 DEF Arrive, CheckDuplicateEmail, CreateUser, InsertUser, FindWallet, EnsureFind,
         EnsureInsert, Refuse, Continue, dbVars
    <2>2. CASE FindTarget(r) \/ FindSelf(r) \/ FindForUpdate(r)
      BY <2>2 DEF FindTarget, FindSelf, FindForUpdate, Refuse, Continue, dbVars
    <2>3. CASE SaveSelect(r) \/ SaveUpdate(r) \/ SaveInsert(r)
      BY <2>3 DEF SaveSelect, SaveUpdate, SaveInsert, Refuse, Continue, dbVars
    <2>4. CASE FindForDelete(r) \/ Delete(r)
      BY <2>4 DEF FindForDelete, Delete, Refuse, Continue, dbVars
    <2>5. CASE SeedFind(r) \/ SeedUser(r) \/ SeedWallet(r) \/ SeedWalletFails(r) \/ Fail(r)
      BY <2>5 DEF SeedFind, SeedUser, InsertUser, SeedWallet, SeedWalletFails, Fail, Refuse, Continue,
         dbVars
    <2> QED BY <1>1, <2>1, <2>2, <2>3, <2>4, <2>5 DEF RequestStep
  <1>2. ASSUME NEW u \in Id, Listens(u) \/ ListenerFails(u)
        PROVE  Goal
    BY <1>2 DEF Listens, ListenerFind, ListenerInsert, ListenerFails, dbVars
  <1>3. CASE UNCHANGED vars
    BY <1>3 DEF vars, dbVars
  <1>4. [Next]_vars => Goal
    BY <1>1, <1>2, <1>3 DEF Next
  <1> QED BY <1>4

\* A request that does nothing in a step keeps what it holds.
LEMMA LocalKept ==
  ASSUME NEW q \in Request, Local(q), minted \subseteq minted',
         pc'[q] = pc[q], input'[q] = input[q], caller'[q] = caller[q], entity'[q] = entity[q]
  PROVE  Local(q)'
PROOF
  BY DEF Local, TargetOf, Callers

LEMMA LocalStep ==
  ASSUME TypeOK, LocalsOK, RowsMinted, [Next]_vars, NEW r \in Request, RequestStep(r)
  PROVE  Local(r)'
PROOF
  <1>0. Local(r) /\ minted \subseteq minted'
    BY MintedGrows DEF LocalsOK
  <1>1. CASE Answer(r)
    BY <1>1, AnswerAlone DEF Local
  <1>2. ASSUME NEW i \in Inputs, Arrive(r, i)
        PROVE  Local(r)'
    <2>1. input'[r] = i /\ pc'[r] = First(i.op) /\ minted' = minted
      BY <1>2 DEF Arrive, Goto, TypeOK, dbVars
    <2>2. AtStepOf(i.op, First(i.op)) /\ First(i.op) \notin Saving \cup {"seedWallet"}
      BY InputKind DEF AtStepOf, First, Saving
    <2>3. NeedsToken(i) => caller'[r] \in Callers'
      <3>1. ASSUME NEW u \in WithEmail(i.email),
                   caller' = [caller EXCEPT ![r] = [id |-> u, role |-> user[u].role]]
            PROVE  caller'[r] \in Callers'
        <4>1. u \in minted /\ user[u].role \in Role
          BY <3>1 DEF WithEmail, RowsMinted, TypeOK, Users
        <4> QED BY <2>1, <3>1, <4>1 DEF TypeOK, Callers
      <3> QED BY <1>2, <3>1 DEF Arrive
    <2> QED BY <2>1, <2>2, <2>3 DEF Local
  <1>3. ASSUME NEW step, Continue(r, step), AtStepOf(input[r].op, step), pc[r] # "idle",
               step \in Saving => pc[r] \in Saving, step # "seedWallet"
        PROVE  Local(r)'
    <2>1. /\ pc'[r] = step /\ input' = input /\ caller' = caller /\ entity' = entity
          /\ TargetOf(r)' = TargetOf(r)
      BY <1>3, ContinueAlone DEF TargetOf
    <2> QED BY <1>0, <1>3, <2>1 DEF Local, Callers
  <1>4. CASE CheckDuplicateEmail(r) \/ FindWallet(r) \/ EnsureFind(r) \/ FindTarget(r)
             \/ FindSelf(r) \/ FindForDelete(r)
    <2>1. \/ Answer(r)
          \/ pc[r] = "checkDuplicateEmail" /\ Continue(r, "createUser")
          \/ pc[r] = "findWallet" /\ Continue(r, "ensureFind")
          \/ pc[r] = "ensureFind" /\ Continue(r, "ensureInsert")
          \/ pc[r] \in {"findTarget", "findSelf"} /\ Continue(r, "findForUpdate")
          \/ pc[r] = "findForDelete" /\ Continue(r, "delete")
      BY <1>4 DEF CheckDuplicateEmail, FindWallet, EnsureFind, FindTarget, FindSelf,
         FindForDelete, Refuse
    <2>2. pc[r] # "idle" => AtStepOf(input[r].op, pc[r])
      BY <1>0 DEF Local
    <2> QED BY <1>1, <1>3, <2>1, <2>2 DEF AtStepOf, Saving
  <1>5. CASE FindForUpdate(r)
    <2>1. CASE user[TargetOf(r)] = Null
      BY <1>1, <1>5, <2>1 DEF FindForUpdate, Refuse
    <2>2. CASE user[TargetOf(r)] # Null
      <3>1. pc'[r] = "saveSelect" /\ UNCHANGED <<input, caller, minted>>
        BY <1>5, <2>2 DEF FindForUpdate, Goto, TypeOK, dbVars
      <3>2. entity'[r] \in Users
        <4>1. user[TargetOf(r)] \in Users
          BY <1>5, <2>2, TargetFacts DEF FindForUpdate, TypeOK
        <4>2. input[r] \in Inputs /\ input[r].op \in {"update", "changePassword"}
          BY <1>0, <1>5 DEF Local, FindForUpdate, AtStepOf, Saving
        <4> QED BY <1>5, <2>2, <4>1, <4>2, AssignTypes DEF FindForUpdate, TypeOK
      <3>3. TargetOf(r)' \in minted
        BY <1>5, <2>2, <3>1, TargetFacts DEF FindForUpdate, RowsMinted, TargetOf
      <3>4. input[r] \in Inputs /\ AtStepOf(input[r].op, "saveSelect")
        BY <1>0, <1>5 DEF Local, FindForUpdate, AtStepOf, Saving
      <3>5. NeedsToken(input[r]) /\ caller[r] \in Callers
        BY <1>0, <1>5 DEF Local, FindForUpdate, AtStepOf, Saving, NeedsToken
      <3> QED BY <3>1, <3>2, <3>3, <3>4, <3>5 DEF Local, Callers
    <2> QED BY <2>1, <2>2
  <1>6. CASE SaveSelect(r) /\ ~Answer(r)
    <2>1. pc'[r] \in {"saveUpdate", "saveInsert"} /\ UNCHANGED <<input, caller, entity, minted>>
      BY <1>6 DEF SaveSelect, Refuse, Continue, Goto, TypeOK, dbVars
    <2>2. pc[r] = "saveSelect" /\ TargetOf(r)' = TargetOf(r)
      BY <1>6, <2>1 DEF SaveSelect, TargetOf
    <2> QED BY <1>0, <2>1, <2>2 DEF Local, AtStepOf, Saving, Callers
  <1>7. CASE SeedFind(r)
    <2>1. input[r] \in Inputs /\ input[r].op = "seed" /\ pc[r] = "seedFind"
      BY <1>0, <1>7 DEF SeedFind, Local, AtStepOf, Saving
    <2>2. CASE Continue(r, "seedUser")
      BY <1>3, <2>1, <2>2 DEF AtStepOf, Saving
    <2>3. ASSUME NEW u \in WithEmail(input[r].email),
                 caller' = [caller EXCEPT ![r] = [id |-> u, role |-> "ADMIN"]],
                 entity' = [entity EXCEPT ![r] = Promoted(user[u], input[r].data)],
                 Goto(r, "saveSelect"),
                 UNCHANGED <<dbVars, input, differs, listener, overtaken>>
          PROVE  Local(r)'
      <3>1. u \in minted /\ user[u] \in Users
        BY <2>3 DEF WithEmail, RowsMinted, TypeOK
      <3>2. Promoted(user[u], input[r].data) \in Users
        <4>1. input[r].data.role = "ADMIN"
          BY <2>1, InputKind DEF SeedEnv
        <4> QED BY <3>1, <4>1 DEF Promoted, Users, Role
      <3>3. /\ pc'[r] = "saveSelect" /\ input' = input /\ minted' = minted
            /\ caller'[r] = [id |-> u, role |-> "ADMIN"]
            /\ entity'[r] \in Users
        BY <2>3, <3>2 DEF Goto, TypeOK, dbVars
      <3>4. TargetOf(r)' = u
        BY <2>1, <3>3 DEF TargetOf
      <3> QED BY <2>1, <3>1, <3>3, <3>4 DEF Local, AtStepOf, Saving, Callers, Role
    <2> QED BY <1>1, <1>7, <2>2, <2>3 DEF SeedFind, Refuse
  <1>8. CASE SeedUser(r) /\ ~Answer(r)
    <2>1. PICK u \in Id : /\ InsertUser(u, NewUser(input[r], "ADMIN"))
                          /\ caller' = [caller EXCEPT ![r] = [id |-> u, role |-> "ADMIN"]]
                          /\ Goto(r, "seedWallet")
                          /\ UNCHANGED <<input, entity, differs>>
      BY <1>8 DEF SeedUser, Refuse
    <2>2. /\ pc'[r] = "seedWallet" /\ input' = input /\ u \in minted'
          /\ caller'[r] = [id |-> u, role |-> "ADMIN"]
      BY <2>1 DEF Goto, TypeOK, InsertUser
    <2>3. input[r] \in Inputs /\ input[r].op = "seed"
      BY <1>0, <1>8 DEF SeedUser, Local, AtStepOf, Saving
    <2> QED BY <2>2, <2>3 DEF Local, AtStepOf, Saving, Callers, Role
  <1>9. CreateUser(r) \/ EnsureInsert(r) \/ SaveUpdate(r) \/ SaveInsert(r) \/ Delete(r)
          \/ SeedWallet(r) \/ SeedWalletFails(r) \/ Fail(r) => Answer(r)
    BY DEF CreateUser, EnsureInsert, SaveUpdate, SaveInsert, Delete, SeedWallet,
       SeedWalletFails, Fail, Refuse
  <1> QED BY <1>1, <1>2, <1>4, <1>5, <1>6, <1>7, <1>8, <1>9 DEF RequestStep

LEMMA LocalsStep == TypeOK /\ LocalsOK /\ RowsMinted /\ [Next]_vars => LocalsOK'
PROOF
  <1> SUFFICES ASSUME TypeOK, LocalsOK, RowsMinted, [Next]_vars, NEW q \in Request
               PROVE  Local(q)'
    BY DEF LocalsOK
  <1>0. Local(q) /\ minted \subseteq minted'
    BY MintedGrows DEF LocalsOK
  <1>1. CASE RequestStep(q)
    BY <1>1, LocalStep
  <1>2. ASSUME NEW r \in Request, RequestStep(r), r # q
        PROVE  Local(q)'
    BY <1>0, <1>2, RequestAlone, LocalKept DEF Alone
  <1>3. CASE UNCHANGED requestVars
    BY <1>0, <1>3, LocalKept DEF requestVars
  <1> QED BY <1>1, <1>2, <1>3 DEF Next, Listens, ListenerFind, ListenerInsert, ListenerFails, vars

\* Who writes the user table.
LEMMA Writers ==
  [Next]_vars =>
    \/ user' = user
    \/ \E u \in Id : \E row : InsertUser(u, row)
    \/ \E r \in Request : SaveUpdate(r) \/ SaveInsert(r) \/ Delete(r)
PROOF
  BY DEF Next, Listens, ListenerFind, ListenerInsert, ListenerFails, RequestStep, Arrive,
     CheckDuplicateEmail, CreateUser, FindWallet, EnsureFind, EnsureInsert, FindTarget, FindSelf,
     FindForUpdate, SaveSelect, FindForDelete, SeedFind, SeedUser, SeedWallet, SeedWalletFails,
     Fail, Refuse, Continue, dbVars, vars

LEMMA RowsMintedStep == TypeOK /\ LocalsOK /\ RowsMinted /\ [Next]_vars => RowsMinted'
PROOF
  <1> SUFFICES ASSUME TypeOK, LocalsOK, RowsMinted, [Next]_vars PROVE RowsMinted'
    OBVIOUS
  <1>0. minted \subseteq minted' /\ user \in [Id -> Users \cup {Null}]
    BY MintedGrows DEF TypeOK
  <1>1. ASSUME NEW u \in Id, NEW row, InsertUser(u, row)
        PROVE  RowsMinted'
    BY <1>0, <1>1 DEF InsertUser, RowsMinted
  <1>2. ASSUME NEW r \in Request, SaveUpdate(r) \/ SaveInsert(r)
        PROVE  RowsMinted'
    <2>1. TargetOf(r) \in minted
      BY <1>2 DEF SaveUpdate, SaveInsert, LocalsOK, Local, Saving
    <2> QED BY <1>0, <1>2, <2>1 DEF SaveUpdate, SaveInsert, RowsMinted, Refuse, dbVars
  <1>3. ASSUME NEW r \in Request, Delete(r)
        PROVE  RowsMinted'
    BY <1>0, <1>3 DEF Delete, RowsMinted
  <1>4. CASE user' = user
    BY <1>0, <1>4 DEF RowsMinted
  <1> QED BY <1>1, <1>2, <1>3, <1>4, Writers

Control == TypeOK /\ LocalsOK /\ RowsMinted

LEMMA ControlInit == Init => Control
PROOF
  <1> SUFFICES ASSUME Init PROVE Control
    OBVIOUS
  <1>1. TypeOK
    BY SeedAssumption DEF Init, TypeOK, Steps
  <1>2. LocalsOK /\ RowsMinted
    BY DEF Init, LocalsOK, Local, RowsMinted
  <1> QED BY <1>1, <1>2 DEF Control

LEMMA ControlStep == Control /\ [Next]_vars => Control'
PROOF
  BY TypesStep, LocalsStep, RowsMintedStep DEF Control

\* The tables and the requests keep their types: a row has every column, and
\* an id that was given out.
THEOREM Types == Spec => []TypeOK
PROOF
  BY ControlInit, ControlStep, PTL DEF Spec, Control

-----------------------------------------------------------------------------
(* Emails.                                                                 *)
\* A request that saves was saving before, with the same entity, or has just
\* read the row.
LEMMA SavingBefore ==
  ASSUME Control, [Next]_vars, NEW q \in Request, pc'[q] \in Saving
  PROVE  \/ /\ pc[q] \in Saving
            /\ entity'[q] = entity[q] /\ TargetOf(q)' = TargetOf(q)
            /\ input'[q] = input[q] /\ caller'[q] = caller[q]
            /\ \/ pc'[q] = pc[q] /\ differs'[q] = differs[q]
               \/ SaveSelect(q)
         \/ /\ FindForUpdate(q) \/ SeedFind(q)
            /\ pc[q] \notin Saving /\ pc'[q] = "saveSelect"
PROOF
  <1>0. TypeOK /\ Local(q)
    BY DEF Control, LocalsOK
  <1>1. CASE \/ UNCHANGED requestVars
             \/ \E r \in Request : RequestStep(r) /\ r # q
    <2>1. /\ pc'[q] = pc[q] /\ differs'[q] = differs[q] /\ entity'[q] = entity[q]
          /\ input'[q] = input[q] /\ caller'[q] = caller[q]
      BY <1>0, <1>1, RequestAlone DEF Alone, requestVars
    <2> QED BY <2>1 DEF TargetOf
  <1>2. CASE RequestStep(q)
    <2>1. ~Answer(q)
      BY <1>0, AnswerAlone DEF Saving
    <2>2. CASE \E i \in Inputs : Arrive(q, i)
      BY <1>0, <2>2, InputKind DEF Arrive, Goto, First, Saving, TypeOK
    <2>3. CASE FindForUpdate(q) \/ SeedFind(q)
      <3>1. pc'[q] \in {"saveSelect", "seedUser"}
        BY <1>0, <2>1, <2>3 DEF FindForUpdate, SeedFind, Refuse, Continue, Goto, TypeOK
      <3> QED BY <2>3, <3>1 DEF FindForUpdate, SeedFind, Saving
    <2>4. CASE SaveSelect(q)
      <3>1. UNCHANGED <<input, caller, entity>>
        BY <2>1, <2>4 DEF SaveSelect, Refuse, Continue
      <3> QED BY <2>4, <3>1 DEF SaveSelect, Saving, TargetOf
    <2>5. CASE SeedUser(q)
      BY <1>0, <2>1, <2>5 DEF SeedUser, Refuse, Goto, Saving, TypeOK
    <2> QED
      BY <1>0, <1>2, <2>1, <2>2, <2>3, <2>4, <2>5 DEF RequestStep, CheckDuplicateEmail, CreateUser,
         FindWallet, EnsureFind, EnsureInsert, FindTarget, FindSelf, SaveUpdate, SaveInsert,
         FindForDelete, Delete, SeedWallet, SeedWalletFails, Fail, Refuse, Continue, Goto, Saving, TypeOK
  <1> QED BY <1>1, <1>2 DEF Next, Listens, ListenerFind, ListenerInsert, ListenerFails, vars

\* What the entity read holds: the row, but for the columns the client sends.
LEMMA ReadsRow ==
  ASSUME Control, NEW q \in Request, FindForUpdate(q) \/ SeedFind(q), pc'[q] = "saveSelect"
  PROVE  /\ UNCHANGED <<user, minted, wallets, input, differs, overtaken>>
         /\ TargetOf(q)' \in Id /\ user[TargetOf(q)'] \in Users
         /\ input[q] \in Inputs
         /\ \/ /\ FindForUpdate(q) /\ UNCHANGED caller /\ TargetOf(q)' = TargetOf(q)
               /\ input[q].op \in {"update", "changePassword"}
               /\ entity'[q] = Assign(user[TargetOf(q)'], Data(q))
            \/ /\ input[q].op = "seed" /\ caller'[q].role = "ADMIN"
               /\ entity'[q] = Promoted(user[TargetOf(q)'], input[q].data)
PROOF
  <1>0. TypeOK /\ Local(q) /\ LocalsOK
    BY DEF Control, LocalsOK
  <1>1. ~Answer(q)
    BY <1>0, AnswerAlone
  <1>2. CASE FindForUpdate(q)
    <2>1. /\ user[TargetOf(q)] # Null /\ pc[q] = "findForUpdate"
          /\ entity' = [entity EXCEPT ![q] = Assign(user[TargetOf(q)], Data(q))]
          /\ UNCHANGED <<user, minted, wallets, input, caller, differs, listener, overtaken>>
      BY <1>1, <1>2 DEF FindForUpdate, Refuse, dbVars
    <2>2. TargetOf(q)' = TargetOf(q)
      BY <2>1 DEF TargetOf
    <2>3. TargetOf(q) \in Id /\ user[TargetOf(q)] \in Users
      BY <1>0, <2>1, TargetFacts DEF TypeOK
    <2>4. input[q] \in Inputs /\ input[q].op \in {"update", "changePassword"}
      BY <1>0, <2>1 DEF Local, AtStepOf, Saving
    <2>5. entity'[q] = Assign(user[TargetOf(q)], Data(q))
      BY <1>0, <2>1 DEF TypeOK
    <2> QED BY <1>2, <2>1, <2>2, <2>3, <2>4, <2>5
  <1>3. CASE SeedFind(q)
    <2>1. input[q] \in Inputs /\ input[q].op = "seed"
      BY <1>0, <1>3 DEF SeedFind, Local, AtStepOf, Saving
    <2>2. ~Continue(q, "seedUser")
      BY <1>0, ContinueAlone
    <2>3. PICK u \in WithEmail(input[q].email) :
            /\ caller' = [caller EXCEPT ![q] = [id |-> u, role |-> "ADMIN"]]
            /\ entity' = [entity EXCEPT ![q] = Promoted(user[u], input[q].data)]
            /\ UNCHANGED <<dbVars, input, differs, listener, overtaken>>
      BY <1>1, <1>3, <2>2 DEF SeedFind, Refuse
    <2>4. u \in Id /\ user[u] \in Users
      BY <1>0 DEF WithEmail, TypeOK
    <2>5. caller'[q] = [id |-> u, role |-> "ADMIN"] /\ entity'[q] = Promoted(user[u], input[q].data)
      BY <1>0, <2>3 DEF TypeOK
    <2>6. TargetOf(q)' = u
      BY <2>1, <2>3, <2>5 DEF TargetOf
    <2> QED BY <2>1, <2>3, <2>4, <2>5, <2>6 DEF dbVars
  <1> QED BY <1>2, <1>3

\* A save keeps the email of the row it was read from: no client sends another
\* one, and whoever saves the same user has the same.
EmailsOK ==
  /\ \A r \in Request : pc[r] = "saveUpdate" => "email" \notin differs[r]
  /\ \A r \in Request : pc[r] \in Saving /\ user[TargetOf(r)] # Null =>
       entity[r].email = user[TargetOf(r)].email
  /\ \A q, r \in Request : pc[q] \in Saving /\ pc[r] \in Saving /\ TargetOf(q) = TargetOf(r) =>
       entity[q].email = entity[r].email

LEMMA ReadsEmail ==
  ASSUME Control, NEW q \in Request, FindForUpdate(q) \/ SeedFind(q), pc'[q] = "saveSelect"
  PROVE  /\ user' = user /\ user[TargetOf(q)'] # Null
         /\ entity'[q].email = user[TargetOf(q)'].email
PROOF
  <1>1. user' = user /\ user[TargetOf(q)'] \in Users /\ input[q] \in Inputs
    BY ReadsRow
  <1>2. CASE /\ input[q].op \in {"update", "changePassword"}
             /\ entity'[q] = Assign(user[TargetOf(q)'], Data(q))
    <2>1. "email" \notin DOMAIN Data(q)
      BY <1>1, <1>2, DataFacts
    <2> QED BY <1>1, <1>2, <2>1, SeedAssumption DEF Assign, Column
  <1>3. CASE entity'[q] = Promoted(user[TargetOf(q)'], input[q].data)
    BY <1>1, <1>3, SeedAssumption DEF Promoted, Users
  <1> QED BY <1>2, <1>3, ReadsRow

\* Whatever a step writes, the row of a request that saves keeps the email of
\* its entity.
LEMMA EmailStays ==
  ASSUME Control, EmailsOK, [Next]_vars, NEW q \in Request, pc[q] \in Saving,
         user'[TargetOf(q)] # Null
  PROVE  entity[q].email = user'[TargetOf(q)].email
PROOF
  <1> DEFINE t == TargetOf(q)
  <1>0. /\ user \in [Id -> Users \cup {Null}] /\ t \in minted /\ t \in Id
        /\ user[t] # Null => entity[q].email = user[t].email
    BY DEF Control, TypeOK, LocalsOK, Local, Saving, EmailsOK
  <1>1. ASSUME NEW u \in Id, NEW row, InsertUser(u, row)
        PROVE  user'[t] = user[t]
    BY <1>0, <1>1 DEF InsertUser
  <1>2. ASSUME NEW r \in Request, SaveUpdate(r)
        PROVE  entity[q].email = user'[t].email
    <2>1. CASE user' = user \/ t # TargetOf(r)
      BY <1>0, <1>2, <2>1 DEF SaveUpdate, Refuse, dbVars
    <2>2. CASE user' # user /\ t = TargetOf(r)
      <3>1. /\ user[t] # Null /\ "email" \notin differs[r]
            /\ user' = [user EXCEPT ![t] =
                 [c \in Column |-> IF c \in differs[r] THEN entity[r][c] ELSE user[t][c]]]
        BY <1>2, <2>2 DEF SaveUpdate, Refuse, dbVars, EmailsOK
      <3>2. user'[t] = [c \in Column |-> IF c \in differs[r] THEN entity[r][c] ELSE user[t][c]]
        BY <1>0, <3>1
      <3>3. user'[t].email = user[t].email
        BY <3>1, <3>2 DEF Column
      <3> QED BY <1>0, <3>1, <3>3
    <2> QED BY <2>1, <2>2
  <1>3. ASSUME NEW r \in Request, SaveInsert(r)
        PROVE  entity[q].email = user'[t].email
    <2>1. CASE user' = user \/ t # TargetOf(r)
      BY <1>0, <1>3, <2>1 DEF SaveInsert, Refuse, dbVars
    <2>2. CASE user' # user /\ t = TargetOf(r)
      <3>1. user'[t] = entity[r] /\ pc[r] \in Saving
        BY <1>0, <1>3, <2>2 DEF SaveInsert, Refuse, dbVars, Saving
      <3> QED BY <2>2, <3>1 DEF EmailsOK
    <2> QED BY <2>1, <2>2
  <1>4. ASSUME NEW r \in Request, Delete(r)
        PROVE  entity[q].email = user'[t].email
    BY <1>0, <1>4 DEF Delete
  <1> QED BY <1>0, <1>1, <1>2, <1>3, <1>4, Writers

LEMMA EmailsStep == Control /\ EmailsOK /\ [Next]_vars => EmailsOK'
PROOF
  <1> SUFFICES ASSUME Control, EmailsOK, [Next]_vars PROVE EmailsOK'
    OBVIOUS
  <1>1. ASSUME NEW r \in Request, pc'[r] = "saveUpdate"
        PROVE  "email" \notin differs'[r]
    <2>1. \/ pc[r] = "saveUpdate" /\ differs'[r] = differs[r]
          \/ SaveSelect(r)
      BY <1>1, SavingBefore DEF Saving
    <2>2. CASE SaveSelect(r)
      <3>1. ~Answer(r) /\ ~Continue(r, "saveInsert")
        BY <1>1, AnswerAlone, ContinueAlone DEF Control
      <3>2. /\ user[TargetOf(r)] # Null /\ pc[r] \in Saving
            /\ differs'[r] = {c \in Column : entity[r][c] # user[TargetOf(r)][c]}
        BY <2>2, <3>1 DEF SaveSelect, Refuse, Control, TypeOK, Saving
      <3>3. entity[r]["email"] = user[TargetOf(r)]["email"]
        BY <3>2 DEF EmailsOK
      <3> QED BY <3>2, <3>3
    <2> QED BY <2>1, <2>2 DEF EmailsOK
  <1>2. ASSUME NEW r \in Request, pc'[r] \in Saving, user'[TargetOf(r)'] # Null
        PROVE  entity'[r].email = user'[TargetOf(r)'].email
    <2>1. CASE FindForUpdate(r) \/ SeedFind(r)
      <3>1. pc'[r] = "saveSelect"
        BY <1>2, <2>1, SavingBefore DEF FindForUpdate, SeedFind, Saving, SaveSelect
      <3> QED BY <2>1, <3>1, ReadsEmail
    <2>2. CASE pc[r] \in Saving /\ entity'[r] = entity[r] /\ TargetOf(r)' = TargetOf(r)
      BY <1>2, <2>2, EmailStays
    <2> QED BY <1>2, <2>1, <2>2, SavingBefore
  <1>3. ASSUME NEW q \in Request, NEW r \in Request, pc'[q] \in Saving, pc'[r] \in Saving,
               TargetOf(q)' = TargetOf(r)'
        PROVE  entity'[q].email = entity'[r].email
    <2>1. CASE FindForUpdate(q) \/ SeedFind(q) \/ FindForUpdate(r) \/ SeedFind(r)
      <3>1. user'[TargetOf(q)'] # Null
        <4>1. ASSUME NEW p \in Request, FindForUpdate(p) \/ SeedFind(p), pc'[p] \in Saving
              PROVE  user'[TargetOf(p)'] # Null
          <5>1. pc'[p] = "saveSelect"
            BY <4>1, SavingBefore DEF FindForUpdate, SeedFind, Saving, SaveSelect
          <5> QED BY <4>1, <5>1, ReadsEmail
        <4> QED BY <1>3, <2>1, <4>1
      <3> QED BY <1>2, <1>3, <3>1
    <2>2. CASE ~(FindForUpdate(q) \/ SeedFind(q) \/ FindForUpdate(r) \/ SeedFind(r))
      BY <1>3, <2>2, SavingBefore DEF EmailsOK
    <2> QED BY <2>1, <2>2
  <1> QED BY <1>1, <1>2, <1>3 DEF EmailsOK

-----------------------------------------------------------------------------
(* Rows are unique.                                                        *)
EmailsUnique ==
  \A u, v \in Id : user[u] # Null /\ user[v] # Null /\ user[u].email = user[v].email => u = v

WalletsUnique ==
  \A u \in Id, c \in Currency : wallets[u][c] <= IF user[u] = Null THEN 0 ELSE 1

LEMMA EmailsUniqueStep ==
  Control /\ EmailsOK /\ EmailsUnique /\ [Next]_vars => EmailsUnique'
PROOF
  <1> SUFFICES ASSUME Control, EmailsOK, EmailsUnique, [Next]_vars PROVE EmailsUnique'
    OBVIOUS
  <1>0. user \in [Id -> Users \cup {Null}]
    BY DEF Control, TypeOK
  <1>1. ASSUME NEW t \in Id, NEW row, user' = [user EXCEPT ![t] = row], EmailFree(row.email)
        PROVE  EmailsUnique'
    <2>1. \A u \in Id : user'[u] = IF u = t THEN row ELSE user[u]
      BY <1>0, <1>1
    <2>2. \A u \in Id : user[u] # Null => user[u].email # row.email
      BY <1>1 DEF EmailFree, WithEmail
    <2> QED BY <2>1, <2>2 DEF EmailsUnique
  <1>2. ASSUME NEW r \in Request, SaveUpdate(r)
        PROVE  EmailsUnique'
    <2> DEFINE t == TargetOf(r)
    <2>1. CASE user' = user
      BY <2>1 DEF EmailsUnique
    <2>2. CASE user' # user
      <3>1. /\ user[t] # Null /\ "email" \notin differs[r]
            /\ user' = [user EXCEPT ![t] =
                 [c \in Column |-> IF c \in differs[r] THEN entity[r][c] ELSE user[t][c]]]
        BY <1>2, <2>2 DEF SaveUpdate, Refuse, dbVars, EmailsOK
      <3>2. \A u \in Id : u # t => user'[u] = user[u]
        BY <1>0, <3>1
      <3>3. t \in Id => user'[t].email = user[t].email
        BY <1>0, <3>1 DEF Column
      <3> QED BY <3>1, <3>2, <3>3 DEF EmailsUnique
    <2> QED BY <2>1, <2>2
  <1>3. ASSUME NEW r \in Request, SaveInsert(r)
        PROVE  EmailsUnique'
    <2>1. TargetOf(r) \in Id
      BY <1>3 DEF SaveInsert, Control, TypeOK, LocalsOK, Local, Saving
    <2> QED BY <1>1, <1>3, <2>1 DEF SaveInsert, Refuse, dbVars, EmailsUnique
  <1>4. ASSUME NEW r \in Request, Delete(r)
        PROVE  EmailsUnique'
    BY <1>0, <1>4 DEF Delete, EmailsUnique
  <1>5. CASE user' = user
    BY <1>5 DEF EmailsUnique
  <1> QED BY <1>1, <1>2, <1>3, <1>4, <1>5, Writers DEF InsertUser

\* Who writes the wallet table.
LEMMA WalletWriters ==
  [Next]_vars =>
    \/ wallets' = wallets
    \/ \E u, c : InsertWallet(u, c) /\ user' = user
    \/ \E r \in Request : Delete(r)
PROOF
  <1> DEFINE Goal == \/ wallets' = wallets
                     \/ \E u, c : InsertWallet(u, c) /\ user' = user
                     \/ \E q \in Request : Delete(q)
  <1>1. ASSUME NEW r \in Request, RequestStep(r)
        PROVE  Goal
    <2>1. CASE \/ \E i \in Inputs : Arrive(r, i)
               \/ CheckDuplicateEmail(r) \/ CreateUser(r)
               \/ FindWallet(r) \/ EnsureFind(r) \/ EnsureInsert(r)
      BY <2>1 DEF Arrive, CheckDuplicateEmail, CreateUser, InsertUser, FindWallet, EnsureFind,
         EnsureInsert, Refuse, Continue, dbVars
    <2>2. CASE FindTarget(r) \/ FindSelf(r) \/ FindForUpdate(r)
      BY <2>2 DEF FindTarget, FindSelf, FindForUpdate, Refuse, Continue, dbVars
    <2>3. CASE SaveSelect(r) \/ SaveUpdate(r) \/ SaveInsert(r)
      BY <2>3 DEF SaveSelect, SaveUpdate, SaveInsert, Refuse, Continue, dbVars
    <2>4. CASE FindForDelete(r) \/ Delete(r)
      BY <2>4 DEF FindForDelete, Refuse, Continue, dbVars
    <2>5. CASE SeedFind(r) \/ SeedUser(r) \/ SeedWallet(r) \/ SeedWalletFails(r) \/ Fail(r)
      BY <2>5 DEF SeedFind, SeedUser, InsertUser, SeedWallet, SeedWalletFails, Fail, Refuse, Continue,
         dbVars
    <2> QED BY <1>1, <2>1, <2>2, <2>3, <2>4, <2>5 DEF RequestStep
  <1>2. ASSUME NEW u \in Id, Listens(u) \/ ListenerFails(u)
        PROVE  Goal
    BY <1>2 DEF Listens, ListenerFind, ListenerInsert, ListenerFails, dbVars
  <1>3. CASE UNCHANGED vars
    BY <1>3 DEF vars, dbVars
  <1>4. [Next]_vars => Goal
    BY <1>1, <1>2, <1>3 DEF Next
  <1> QED BY <1>4

LEMMA WalletsUniqueStep == Control /\ WalletsUnique /\ [Next]_vars => WalletsUnique'
PROOF
  <1> SUFFICES ASSUME Control, WalletsUnique, [Next]_vars, NEW v \in Id, NEW d \in Currency
               PROVE  wallets'[v][d] <= IF user'[v] = Null THEN 0 ELSE 1
    BY DEF WalletsUnique
  <1>0. /\ user \in [Id -> Users \cup {Null}] /\ wallets \in [Id -> [Currency -> Nat]]
        /\ wallets[v][d] \in Nat /\ wallets[v][d] <= IF user[v] = Null THEN 0 ELSE 1
    BY DEF Control, TypeOK, WalletsUnique
  <1>1. ASSUME NEW u, NEW c, InsertWallet(u, c), user' = user
        PROVE  wallets'[v][d] <= IF user'[v] = Null THEN 0 ELSE 1
    <2>1. wallets[u][c] = 0 /\ user[u] # Null /\ wallets' = [wallets EXCEPT ![u][c] = @ + 1]
      BY <1>1 DEF InsertWallet, WalletKeyFree, OwnerExists
    <2>2. CASE u = v /\ c = d
      BY <1>0, <1>1, <2>1, <2>2
    <2>3. CASE ~(u = v /\ c = d)
      BY <1>0, <1>1, <2>1, <2>3
    <2> QED BY <2>2, <2>3
  <1>2. ASSUME NEW r \in Request, Delete(r)
        PROVE  wallets'[v][d] <= IF user'[v] = Null THEN 0 ELSE 1
    <2> DEFINE t == input[r].target
    <2>1. user' = [user EXCEPT ![t] = Null] /\ wallets' = [wallets EXCEPT ![t] = [c \in Currency |-> 0]]
      BY <1>2 DEF Delete, Cascade
    <2>2. CASE v = t
      BY <1>0, <2>1, <2>2
    <2>3. CASE v # t
      BY <1>0, <2>1, <2>3
    <2> QED BY <2>2, <2>3
  <1>3. CASE wallets' = wallets /\ ~ \E r \in Request : Delete(r)
    <2>1. user[v] # Null => user'[v] # Null
      <3>1. ASSUME NEW u \in Id, NEW row, InsertUser(u, row), user[v] # Null
            PROVE  user'[v] = user[v]
        <4>1. u # v
          BY <3>1 DEF InsertUser, Control, RowsMinted
        <4> QED BY <1>0, <3>1, <4>1 DEF InsertUser
      <3>2. ASSUME NEW r \in Request, SaveUpdate(r), user[v] # Null
            PROVE  user'[v] # Null
        <4>1. user' \in [Id -> Users \cup {Null}]
          BY ControlStep DEF Control, TypeOK
        <4>2. CASE user' = user \/ v # TargetOf(r)
          BY <1>0, <3>2, <4>2 DEF SaveUpdate, Refuse, dbVars
        <4>3. CASE user' # user /\ v = TargetOf(r)
          <5>1. user'[v] = [c \in Column |-> IF c \in differs[r] THEN entity[r][c] ELSE user[v][c]]
            BY <1>0, <3>2, <4>3 DEF SaveUpdate, Refuse, dbVars
          <5>2. user[v] \in Users /\ entity[r] \in Users
            BY <1>0, <3>2 DEF SaveUpdate, Control, LocalsOK, Local, Saving
          <5>3. [c \in Column |-> IF c \in differs[r] THEN entity[r][c] ELSE user[v][c]] \in Users
            BY <5>2, MergeTypes
          <5> QED BY <5>1, <5>3, SeedAssumption
        <4> QED BY <4>2, <4>3
      <3>3. ASSUME NEW r \in Request, SaveInsert(r), user[v] # Null
            PROVE  user'[v] = user[v]
        BY <1>0, <3>3 DEF SaveInsert, Refuse, dbVars
      <3> QED BY <1>3, <3>1, <3>2, <3>3, Writers
    <2> QED BY <1>0, <1>3, <2>1
  <1> QED BY <1>1, <1>2, <1>3, WalletWriters

\* No two users share an email and no user has two wallets of one currency, or
\* any after being deleted, though every insert looks first and writes later.
THEOREM RowsAreUniqueHolds == Spec => []RowsAreUnique
PROOF
  <1>1. Init => EmailsOK /\ EmailsUnique /\ WalletsUnique
    <2> SUFFICES ASSUME Init PROVE EmailsOK /\ EmailsUnique /\ WalletsUnique
      OBVIOUS
    <2>1. EmailsOK
      BY DEF Init, EmailsOK, Saving
    <2>2. EmailsUnique
      BY SeedAssumption DEF Init, EmailsUnique
    <2>3. WalletsUnique
      BY DEF Init, WalletsUnique
    <2> QED BY <2>1, <2>2, <2>3
  <1>2. EmailsUnique /\ WalletsUnique => RowsAreUnique
    BY DEF EmailsUnique, WalletsUnique, RowsAreUnique
  <1> QED BY <1>1, <1>2, ControlInit, ControlStep, EmailsStep, EmailsUniqueStep, WalletsUniqueStep, PTL
          DEF Spec

-----------------------------------------------------------------------------
(* Changes are authorised.                                                 *)
\* What the policy let through stays allowed until the write: the caller and
\* the input are the request's own.
Allowed(r) ==
  /\ pc[r] \in {"findForUpdate"} \cup Saving /\ input[r].op = "update" =>
       CanUpdateUser(caller[r], input[r].target)
  /\ pc[r] = "delete" => CanDeleteUser(caller[r], input[r].target)

PolicyOK == \A r \in Request : Allowed(r)

\* The entity of a save nobody overtook differs from the row in the columns
\* its client sent, and may.
Current(r) ==
  pc[r] \in Saving /\ r \notin overtaken =>
    /\ pc[r] # "saveInsert"
    /\ user[TargetOf(r)] # Null
    /\ \A column \in Column : entity[r][column] # user[TargetOf(r)][column] =>
         column \in DOMAIN input[r].data /\ MayChange(caller[r], TargetOf(r), column)

NotOvertaken == \A r \in Request : Current(r)

LEMMA PolicyStep == Control /\ PolicyOK /\ [Next]_vars => PolicyOK'
PROOF
  <1> SUFFICES ASSUME Control, PolicyOK, [Next]_vars, NEW q \in Request
               PROVE  Allowed(q)'
    BY DEF PolicyOK
  <1>0. TypeOK /\ Local(q) /\ Allowed(q)
    BY DEF Control, LocalsOK, PolicyOK
  <1>1. CASE UNCHANGED requestVars \/ \E r \in Request : RequestStep(r) /\ r # q
    <2>1. pc'[q] = pc[q] /\ input'[q] = input[q] /\ caller'[q] = caller[q]
      BY <1>0, <1>1, RequestAlone DEF Alone, requestVars
    <2> QED BY <1>0, <2>1 DEF Allowed
  <1>2. CASE RequestStep(q)
    <2>1. CASE pc'[q] \in Saving
      <3>1. CASE input'[q] = input[q] /\ caller'[q] = caller[q] /\ pc[q] \in Saving
        BY <1>0, <2>1, <3>1 DEF Allowed, Saving
      <3>2. CASE pc'[q] = "saveSelect" /\ (FindForUpdate(q) \/ SeedFind(q))
        <4>1. input'[q] = input[q]
          BY <3>2, ReadsRow
        <4>2. CASE FindForUpdate(q) /\ UNCHANGED caller
          BY <1>0, <2>1, <4>1, <4>2 DEF Allowed, FindForUpdate, Saving
        <4>3. CASE input[q].op = "seed"
          BY <2>1, <4>1, <4>3 DEF Allowed, Saving
        <4> QED BY <3>2, <4>2, <4>3, ReadsRow
      <3> QED BY <2>1, <3>1, <3>2, SavingBefore
    <2>2. ASSUME pc'[q] = "findForUpdate", input'[q].op = "update"
          PROVE  CanUpdateUser(caller'[q], input'[q].target)
      <3>1. ~Answer(q)
        BY <1>0, <2>2, AnswerAlone
      <3>2. FindTarget(q) \/ FindSelf(q)
        BY <1>0, <1>2, <2>2, <3>1, InputKind
        DEF RequestStep, Arrive, First, CheckDuplicateEmail, CreateUser, FindWallet, EnsureFind,
            EnsureInsert, FindForUpdate, SaveSelect, SaveUpdate, SaveInsert, FindForDelete, Delete,
            SeedFind, SeedUser, SeedWallet, SeedWalletFails, Fail, Refuse, Continue, Goto, TypeOK
      <3>3. CASE FindTarget(q)
        BY <3>1, <3>3 DEF FindTarget, Refuse, Continue, CanUpdateUser
      <3>4. CASE FindSelf(q)
        BY <1>0, <2>2, <3>1, <3>4 DEF FindSelf, Refuse, Continue, Local, AtStepOf, Saving
      <3> QED BY <3>2, <3>3, <3>4
    <2>3. ASSUME pc'[q] = "delete"
          PROVE  CanDeleteUser(caller'[q], input'[q].target)
      <3>1. ~Answer(q)
        BY <1>0, <2>3, AnswerAlone
      <3>2. FindForDelete(q)
        BY <1>0, <1>2, <2>3, <3>1, InputKind
        DEF RequestStep, Arrive, First, CheckDuplicateEmail, CreateUser, FindWallet, EnsureFind,
            EnsureInsert, FindTarget, FindSelf, FindForUpdate, SaveSelect, SaveUpdate, SaveInsert,
            Delete, SeedFind, SeedUser, SeedWallet, SeedWalletFails, Fail, Refuse, Continue, Goto,
            TypeOK
      <3> QED BY <3>1, <3>2 DEF FindForDelete, Refuse, Continue, CanDeleteUser
    <2> QED BY <2>1, <2>2, <2>3 DEF Allowed, Saving
  <1> QED BY <1>1, <1>2 DEF Next, Listens, ListenerFind, ListenerInsert, ListenerFails, vars

\* Who is overtaken: a writer overtakes, and one who is answered forgets.
LEMMA Overtakers ==
  [Next]_vars =>
    \/ overtaken' = overtaken /\ (user' = user \/ \E u \in Id : \E row : InsertUser(u, row))
    \/ \E r \in Request : overtaken' = overtaken \ {r} /\ Answer(r) /\ user' = user
    \/ \E r \in Request : \E u :
         Overtakes(r, u) /\ Answer(r) /\ \E row : user' = [user EXCEPT ![u] = row]
PROOF
  <1> DEFINE Goal == \/ overtaken' = overtaken /\ (user' = user \/ \E u \in Id : \E row : InsertUser(u, row))
                     \/ \E q \in Request : overtaken' = overtaken \ {q} /\ Answer(q) /\ user' = user
                     \/ \E q \in Request : \E u :
                          Overtakes(q, u) /\ Answer(q) /\ \E row : user' = [user EXCEPT ![u] = row]
  <1>1. ASSUME NEW r \in Request, RequestStep(r)
        PROVE  Goal
    <2>1. CASE \/ \E i \in Inputs : Arrive(r, i)
               \/ CheckDuplicateEmail(r) \/ CreateUser(r)
               \/ FindWallet(r) \/ EnsureFind(r) \/ EnsureInsert(r)
      BY <2>1 DEF Arrive, CheckDuplicateEmail, CreateUser, InsertUser, FindWallet, EnsureFind,
         EnsureInsert, Refuse, Continue, dbVars
    <2>2. CASE FindTarget(r) \/ FindSelf(r) \/ FindForUpdate(r)
      BY <2>2 DEF FindTarget, FindSelf, FindForUpdate, Refuse, Continue, dbVars
    <2>3. CASE SaveSelect(r) \/ SaveUpdate(r) \/ SaveInsert(r)
      BY <2>3 DEF SaveSelect, SaveUpdate, SaveInsert, Refuse, Continue, dbVars
    <2>4. CASE FindForDelete(r) \/ Delete(r)
      BY <2>4 DEF FindForDelete, Delete, Refuse, Continue, dbVars
    <2>5. CASE SeedFind(r) \/ SeedUser(r) \/ SeedWallet(r) \/ SeedWalletFails(r) \/ Fail(r)
      BY <2>5 DEF SeedFind, SeedUser, InsertUser, SeedWallet, SeedWalletFails, Fail, Refuse, Continue,
         dbVars
    <2> QED BY <1>1, <2>1, <2>2, <2>3, <2>4, <2>5 DEF RequestStep
  <1>2. ASSUME NEW u \in Id, Listens(u) \/ ListenerFails(u)
        PROVE  Goal
    BY <1>2 DEF Listens, ListenerFind, ListenerInsert, ListenerFails, dbVars
  <1>3. CASE UNCHANGED vars
    BY <1>3 DEF vars, dbVars
  <1>4. [Next]_vars => Goal
    BY <1>1, <1>2, <1>3 DEF Next
  <1> QED BY <1>4

\* While a request saves it stays overtaken, and is overtaken by any write of
\* its user.
LEMMA StaysOvertaken ==
  ASSUME Control, [Next]_vars, NEW q \in Request, pc[q] \in Saving, pc'[q] \in Saving,
         q \notin overtaken'
  PROVE  q \notin overtaken /\ user'[TargetOf(q)] = user[TargetOf(q)]
PROOF
  <1> DEFINE t == TargetOf(q)
  <1>0. TypeOK /\ t \in minted /\ user \in [Id -> Users \cup {Null}] /\ t \in Id
    BY DEF Control, TypeOK, LocalsOK, Local, Saving
  <1>1. ASSUME NEW u \in Id, NEW row, InsertUser(u, row)
        PROVE  user'[t] = user[t]
    BY <1>0, <1>1 DEF InsertUser
  <1>2. ASSUME NEW r \in Request, Answer(r)
        PROVE  r # q
    BY <1>0, <1>2, AnswerAlone DEF Saving
  <1>3. ASSUME NEW r \in Request, NEW u, NEW row, Overtakes(r, u), Answer(r),
               user' = [user EXCEPT ![u] = row]
        PROVE  q \notin overtaken /\ user'[t] = user[t]
    <2>1. q \notin overtaken /\ t # u
      BY <1>2, <1>3 DEF Overtakes
    <2> QED BY <1>0, <1>3, <2>1
  <1> QED BY <1>1, <1>2, <1>3, Overtakers

\* An entity just read differs from the row only as its client asked and may.
LEMMA ReadsOwn ==
  ASSUME Control, PolicyOK, NEW q \in Request, FindForUpdate(q) \/ SeedFind(q),
         pc'[q] = "saveSelect", NEW column \in Column,
         entity'[q][column] # user[TargetOf(q)'][column]
  PROVE  column \in DOMAIN input[q].data /\ MayChange(caller'[q], TargetOf(q)', column)
PROOF
  <1> DEFINE t == TargetOf(q)'
  <1>1. /\ UNCHANGED <<user, input>> /\ user[t] \in Users /\ input[q] \in Inputs
        /\ \/ /\ FindForUpdate(q) /\ UNCHANGED caller /\ t = TargetOf(q)
              /\ input[q].op \in {"update", "changePassword"}
              /\ entity'[q] = Assign(user[t], Data(q))
           \/ /\ input[q].op = "seed" /\ caller'[q].role = "ADMIN"
              /\ entity'[q] = Promoted(user[t], input[q].data)
    BY ReadsRow
  <1>2. ASSUME FindForUpdate(q), UNCHANGED caller, t = TargetOf(q),
               input[q].op \in {"update", "changePassword"},
               entity'[q] = Assign(user[t], Data(q))
        PROVE  column \in DOMAIN input[q].data /\ MayChange(caller'[q], t, column)
    <2>1. column \in DOMAIN Data(q)
      BY <1>2 DEF Assign
    <2>2. column \in DOMAIN input[q].data /\ column # "email"
      BY <1>1, <1>2, <2>1, DataFacts
    <2>3. CASE input[q].op = "update"
      <3>1. column = "name" \/ (column = "role" /\ caller[q].role = "ADMIN")
        BY <1>1, <2>1, <2>2, <2>3, DataFacts DEF Column
      <3>2. t = input[q].target /\ CanUpdateUser(caller[q], input[q].target)
        BY <1>2, <2>3 DEF TargetOf, FindForUpdate, PolicyOK, Allowed
      <3> QED BY <1>2, <2>2, <3>1, <3>2 DEF MayChange, CanUpdateUser
    <2>4. CASE input[q].op = "changePassword"
      <3>1. column = "password" /\ t = caller[q].id
        BY <1>1, <1>2, <2>1, <2>4, DataFacts DEF TargetOf
      <3> QED BY <1>2, <2>2, <3>1 DEF MayChange
    <2> QED BY <1>2, <2>3, <2>4
  <1>3. ASSUME input[q].op = "seed", caller'[q].role = "ADMIN",
               entity'[q] = Promoted(user[t], input[q].data)
        PROVE  column \in DOMAIN input[q].data /\ MayChange(caller'[q], t, column)
    <2>1. column = "role"
      BY <1>1, <1>3 DEF Promoted, Users, Column
    <2>2. "role" \in DOMAIN input[q].data
      BY <1>1, <1>3, InputKind DEF SeedEnv
    <2> QED BY <1>3, <2>1, <2>2 DEF MayChange
  <1> QED BY <1>1, <1>2, <1>3

LEMMA NotOvertakenStep == Control /\ PolicyOK /\ NotOvertaken /\ [Next]_vars => NotOvertaken'
PROOF
  <1> SUFFICES ASSUME Control, PolicyOK, NotOvertaken, [Next]_vars, NEW q \in Request,
                      pc'[q] \in Saving, q \notin overtaken'
               PROVE  /\ pc'[q] # "saveInsert"
                      /\ user'[TargetOf(q)'] # Null
                      /\ \A column \in Column : entity'[q][column] # user'[TargetOf(q)'][column] =>
                           column \in DOMAIN input'[q].data
                             /\ MayChange(caller'[q], TargetOf(q)', column)
    BY DEF NotOvertaken, Current
  <1>1. CASE (FindForUpdate(q) \/ SeedFind(q)) /\ pc'[q] = "saveSelect"
    <2>1. user' = user /\ input' = input /\ user[TargetOf(q)'] \in Users
      BY <1>1, ReadsRow
    <2> QED BY <1>1, <2>1, ReadsOwn, SeedAssumption
  <1>2. ASSUME pc[q] \in Saving, entity'[q] = entity[q], TargetOf(q)' = TargetOf(q),
               input'[q] = input[q], caller'[q] = caller[q], pc'[q] = pc[q] \/ SaveSelect(q)
        PROVE  /\ pc'[q] # "saveInsert"
               /\ user'[TargetOf(q)'] # Null
               /\ \A column \in Column : entity'[q][column] # user'[TargetOf(q)'][column] =>
                    column \in DOMAIN input'[q].data /\ MayChange(caller'[q], TargetOf(q)', column)
    <2>1. user'[TargetOf(q)] = user[TargetOf(q)] /\ Current(q) /\ q \notin overtaken
      BY <1>2, StaysOvertaken DEF NotOvertaken
    <2>2. pc'[q] # "saveInsert"
      <3>1. CASE pc'[q] = pc[q]
        BY <1>2, <2>1, <3>1 DEF Current
      <3>2. CASE SaveSelect(q)
        <4>1. ~Answer(q)
          BY AnswerAlone DEF Control, Saving
        <4>2. user[TargetOf(q)] # Null
          BY <1>2, <2>1 DEF Current
        <4> QED BY <3>2, <4>1, <4>2 DEF SaveSelect, Refuse, Goto, Control, TypeOK
      <3> QED BY <1>2, <3>1, <3>2
    <2> QED BY <1>2, <2>1, <2>2 DEF Current
  <1> QED BY <1>1, <1>2, SavingBefore

\* A row changes by a save, in the columns its client asked for and may change
\* unless it was overtaken.
LEMMA ChangeStep ==
  ASSUME Control, NotOvertaken, [Next]_vars, NEW u \in Id, user[u] # Null, user'[u] # Null,
         NEW column \in Column, user'[u][column] # user[u][column]
  PROVE  \E r \in Request :
           /\ Writes(r, u)
           /\ \/ r \in overtaken
              \/ column \in DOMAIN input[r].data /\ MayChange(caller[r], u, column)
PROOF
  <1>0. TypeOK /\ user \in [Id -> Users \cup {Null}]
    BY DEF Control, TypeOK
  <1>1. ASSUME NEW v \in Id, NEW row, InsertUser(v, row)
        PROVE  FALSE
    BY <1>0, <1>1 DEF InsertUser, Control, RowsMinted
  <1>2. ASSUME NEW r \in Request, Delete(r)
        PROVE  FALSE
    BY <1>0, <1>2 DEF Delete
  <1>3. ASSUME NEW r \in Request, SaveInsert(r)
        PROVE  FALSE
    BY <1>0, <1>3 DEF SaveInsert, Refuse, dbVars
  <1>4. ASSUME NEW r \in Request, SaveUpdate(r)
        PROVE  /\ Writes(r, u)
               /\ \/ r \in overtaken
                  \/ column \in DOMAIN input[r].data /\ MayChange(caller[r], u, column)
    <2> DEFINE t == TargetOf(r)
    <2>1. /\ Answer(r) /\ user[t] # Null /\ pc[r] = "saveUpdate"
          /\ user' = [user EXCEPT ![t] =
               [c \in Column |-> IF c \in differs[r] THEN entity[r][c] ELSE user[t][c]]]
      BY <1>4 DEF SaveUpdate, Refuse, dbVars
    <2>2. t = u
      BY <1>0, <2>1
    <2>3. user'[u] = [c \in Column |-> IF c \in differs[r] THEN entity[r][c] ELSE user[u][c]]
      BY <1>0, <2>1, <2>2
    <2>4. entity[r][column] # user[u][column]
      BY <2>3
    <2>5. Writes(r, u)
      BY <1>0, <2>1, <2>2, AnswerAlone DEF Writes, Saving
    <2> QED BY <2>1, <2>2, <2>4, <2>5 DEF NotOvertaken, Current, Saving
  <1> QED BY <1>1, <1>2, <1>3, <1>4, Writers

\* A row is deleted by another user, an administrator.
LEMMA DeletionStep ==
  ASSUME Control, PolicyOK, [Next]_vars, NEW u \in Id, user[u] # Null, user'[u] = Null
  PROVE  \E r \in Request : pc[r] = "delete" /\ caller[r].id # u /\ caller[r].role = "ADMIN"
PROOF
  <1>0. TypeOK /\ user \in [Id -> Users \cup {Null}]
    BY DEF Control, TypeOK
  <1>1. ASSUME NEW v \in Id, NEW row, InsertUser(v, row)
        PROVE  FALSE
    BY <1>0, <1>1 DEF InsertUser, Control, RowsMinted
  <1>2. ASSUME NEW r \in Request, SaveInsert(r)
        PROVE  FALSE
    BY <1>0, <1>2 DEF SaveInsert, Refuse, dbVars
  <1>3. ASSUME NEW r \in Request, SaveUpdate(r)
        PROVE  FALSE
    <2> DEFINE row == [c \in Column |-> IF c \in differs[r] THEN entity[r][c] ELSE user[u][c]]
    <2>1. TargetOf(r) = u /\ user'[u] = row /\ pc[r] \in Saving
      BY <1>0, <1>3 DEF SaveUpdate, Refuse, dbVars, Saving
    <2>2. user[u] \in Users /\ entity[r] \in Users
      BY <1>0, <2>1 DEF Control, LocalsOK, Local, Saving
    <2>3. row \in Users
      BY <2>2, MergeTypes
    <2> QED BY <2>1, <2>3, SeedAssumption
  <1>4. ASSUME NEW r \in Request, Delete(r)
        PROVE  pc[r] = "delete" /\ caller[r].id # u /\ caller[r].role = "ADMIN"
    <2>1. u = input[r].target /\ pc[r] = "delete"
      BY <1>0, <1>4 DEF Delete
    <2> QED BY <2>1 DEF PolicyOK, Allowed, CanDeleteUser
  <1> QED BY <1>1, <1>2, <1>3, <1>4, Writers

\* A row appears by a registration, by the script, or by an overtaken save that
\* inserts a deleted user again.
LEMMA CreationStep ==
  ASSUME Control, NotOvertaken, [Next]_vars, NEW u \in Id, user[u] = Null, user'[u] # Null
  PROVE  \/ u \in minted /\ \E r \in Request : Writes(r, u) /\ r \in overtaken
         \/ u \notin minted /\ user'[u].role = "USER"
         \/ u \notin minted /\ \E r \in Request : pc[r] = "seedUser"
PROOF
  <1>0. TypeOK /\ user \in [Id -> Users \cup {Null}]
    BY DEF Control, TypeOK
  <1>1. ASSUME NEW r \in Request, CreateUser(r)
        PROVE  u \notin minted /\ user'[u].role = "USER"
    <2>1. PICK v \in Id : InsertUser(v, NewUser(input[r], "USER"))
      BY <1>0, <1>1 DEF CreateUser, Refuse, dbVars
    <2>2. v = u /\ u \notin minted /\ user'[u] = NewUser(input[r], "USER")
      BY <1>0, <2>1 DEF InsertUser
    <2> QED BY <2>2 DEF NewUser
  <1>2. ASSUME NEW r \in Request, SeedUser(r)
        PROVE  u \notin minted /\ pc[r] = "seedUser"
    BY <1>0, <1>2 DEF SeedUser, InsertUser, Refuse, dbVars
  <1>3. ASSUME NEW r \in Request, SaveInsert(r)
        PROVE  u \in minted /\ Writes(r, u) /\ r \in overtaken
    <2>1. TargetOf(r) = u /\ pc[r] = "saveInsert" /\ Answer(r)
      BY <1>0, <1>3 DEF SaveInsert, Refuse, dbVars
    <2>2. u \in minted /\ Writes(r, u)
      BY <1>0, <2>1, AnswerAlone DEF Control, LocalsOK, Local, Writes, Saving
    <2> QED BY <2>1, <2>2 DEF NotOvertaken, Current, Saving
  <1>4. ASSUME NEW r \in Request, SaveUpdate(r) \/ Delete(r)
        PROVE  FALSE
    BY <1>0, <1>4 DEF SaveUpdate, Delete, Refuse, dbVars
  <1>5. \/ user' = user
        \/ \E r \in Request :
             CreateUser(r) \/ SeedUser(r) \/ SaveUpdate(r) \/ SaveInsert(r) \/ Delete(r)
    BY DEF Next, Listens, ListenerFind, ListenerInsert, ListenerFails, RequestStep, Arrive,
       CheckDuplicateEmail, FindWallet, EnsureFind, EnsureInsert, FindTarget, FindSelf,
       FindForUpdate, SaveSelect, FindForDelete, SeedFind, SeedWallet, SeedWalletFails, Fail,
       Refuse, Continue, dbVars, vars
  <1> QED BY <1>1, <1>2, <1>3, <1>4, <1>5

\* A row changes only as its client asked and was allowed to, is deleted only
\* by another user who is an administrator, and never comes back, except
\* through a save that another write of the same user overtook: the policy's
\* answer still holds when the write is made, however many requests run.
THEOREM ChangesAreAuthorisedHolds == Spec => ChangesAreAuthorised
PROOF
  <1>1. Init => PolicyOK /\ NotOvertaken
    BY DEF Init, PolicyOK, Allowed, NotOvertaken, Current, Saving
  <1>2. Control /\ PolicyOK /\ NotOvertaken /\ [Next]_vars =>
          [\A u \in Id :
             /\ user[u] # Null /\ user'[u] # Null =>
                  \A column \in Column : user'[u][column] # user[u][column] =>
                    \E r \in Request :
                      /\ Writes(r, u)
                      /\ \/ r \in overtaken
                         \/ column \in DOMAIN input[r].data /\ MayChange(caller[r], u, column)
             /\ user[u] # Null /\ user'[u] = Null =>
                  \E r \in Request : pc[r] = "delete" /\ caller[r].id # u /\ caller[r].role = "ADMIN"
             /\ user[u] = Null /\ user'[u] # Null =>
                  \/ u \in minted /\ \E r \in Request : Writes(r, u) /\ r \in overtaken
                  \/ u \notin minted /\ user'[u].role = "USER"
                  \/ u \notin minted /\ \E r \in Request : pc[r] = "seedUser"]_vars
    BY ChangeStep, DeletionStep, CreationStep
  <1> QED BY <1>1, <1>2, ControlInit, ControlStep, PolicyStep, NotOvertakenStep, PTL
          DEF Spec, ChangesAreAuthorised
=============================================================================
