------------------------------ MODULE Accounts ------------------------------
(***************************************************************************)
(* Users and their wallets: registration and the listener that makes the   *)
(* default wallet (AuthService, WalletEventListener), POST /wallet         *)
(* (WalletService.createWallet), updates, password changes and deletions   *)
(* (UsersService, UsersRepository, UsersPolicy), and the script that makes *)
(* the first administrator (scripts/seed-admin.ts), which works on the     *)
(* same tables.  Requests run at the same time; each is a slot r that      *)
(* moves through the awaits of its method with the rows it has read; a run *)
(* of the script is one more request.                                      *)
(*                                                                         *)
(* TypeORM's save is external: it selects the row again, and updates the   *)
(* columns in which the entity differs, or inserts the entity if there is  *)
(* no row.  What a request is answered is left out: no property is about   *)
(* it.                                                                     *)
(***************************************************************************)
EXTENDS Naturals, FiniteSets

CONSTANTS
  Id,        \* ids of the user table (UUIDs, never used twice)
  Seeded,    \* Seeded[u]: the row of user u at the start, or Null
  Email, Name, Password, Currency,
  DEFAULT_CURRENCY,
  Request,   \* requests handled at the same time
  Inputs,    \* the requests clients may send
  Null       \* no row, nothing

Role == {"ADMIN", "USER"}
Users == [email: Email, name: Name, password: Password, role: Role]
Column == {"email", "name", "password", "role"}

ASSUME SeedAssumption ==
  /\ Null \notin Users
  /\ Seeded \in [Id -> Users \cup {Null}]
  /\ \A u, v \in Id :
       Seeded[u] # Null /\ Seeded[v] # Null /\ Seeded[u].email = Seeded[v].email => u = v
ASSUME CurrencyAssumption == DEFAULT_CURRENCY \in Currency

\* What the schemas let through.  email is the one registered, or the one in
\* the token; data are the columns the client sends (an update that sends none
\* changes none).
RegisterDto == [op: {"register"}, email: Email, data: [name: Name, password: Password]]
CreateWalletDto == [op: {"createWallet"}, email: Email, currency: Currency]
UpdateUserDto ==
  [op: {"update"}, email: Email, target: Id,
   data: [name: Name] \cup [role: Role] \cup [name: Name, role: Role]]
ChangePasswordDto ==
  [op: {"changePassword"}, email: Email, oldPassword: Password, data: [password: Password]]
DeleteDto == [op: {"delete"}, email: Email, target: Id]

\* The script's environment variables.
SeedEnv == [op: {"seed"}, email: Email, data: [name: Name, password: Password, role: {"ADMIN"}]]

ASSUME InputsAssumption ==
  /\ Inputs \subseteq RegisterDto \cup CreateWalletDto \cup UpdateUserDto
                        \cup ChangePasswordDto \cup DeleteDto \cup SeedEnv
  /\ Null \notin Inputs

VARIABLES
  user,      \* user[u]: the row of the user table with id u, or Null
  minted,    \* the ids that were given to a row so far
  wallets,   \* wallets[u][c]: the number of rows of wallet with user u, currency c
  pc,        \* pc[r]: the await request r has reached
  input,     \* input[r]: what the client sent, or Null
  caller,    \* caller[r]: req.user, as the token's email found it, or Null;
             \* for the script, the administrator it is making
  entity,    \* entity[r]: the entity r read and changed, or Null
  differs,   \* differs[r]: the columns save found different
  listener,  \* listener[u]: who makes the default wallet of user u, and how far
  overtaken  \* history: requests whose user another one wrote since they read it

dbVars == <<user, minted, wallets>>
requestVars == <<pc, input, caller, entity, differs>>
vars == <<dbVars, requestVars, listener, overtaken>>

-----------------------------------------------------------------------------
Steps ==
  {"idle", "checkDuplicateEmail", "createUser", "findWallet", "ensureFind", "ensureInsert",
   "findTarget", "findSelf", "findForUpdate", "saveSelect", "saveUpdate", "saveInsert",
   "findForDelete", "delete", "seedFind", "seedUser", "seedWallet"}

Goto(r, step) == pc' = [pc EXCEPT ![r] = step]

\* The request is answered, whatever the answer; its variables are gone.
Answer(r) ==
  /\ Goto(r, "idle")
  /\ input' = [input EXCEPT ![r] = Null]
  /\ caller' = [caller EXCEPT ![r] = Null]
  /\ entity' = [entity EXCEPT ![r] = Null]
  /\ differs' = [differs EXCEPT ![r] = {}]

\* Answered without having written anything.
Refuse(r) == Answer(r) /\ overtaken' = overtaken \ {r} /\ UNCHANGED <<dbVars, listener>>

Continue(r, step) ==
  /\ Goto(r, step)
  /\ UNCHANGED <<dbVars, input, caller, entity, differs, listener, overtaken>>

WithEmail(e) == {u \in Id : user[u] # Null /\ user[u].email = e}

\* The unique index on user.email.
EmailFree(e) == WithEmail(e) = {}

\* The user a request is about: the one in its path, or the caller.
TargetOf(r) ==
  IF input[r].op \in {"update", "delete"} THEN input[r].target ELSE caller[r].id

Saving == {"saveSelect", "saveUpdate", "saveInsert"}

\* r wrote the row of user u: whoever holds an entity read before is stale.
Overtakes(r, u) ==
  overtaken' = (overtaken \cup {q \in Request : pc[q] \in Saving /\ TargetOf(q) = u}) \ {r}

-----------------------------------------------------------------------------
\* A request arrives; JwtStrategy.validate looks up the user of the token,
\* whose id and role the rest of the request uses.
First(op) ==
  [register |-> "checkDuplicateEmail", createWallet |-> "findWallet", update |-> "findTarget",
   changePassword |-> "findSelf", delete |-> "findForDelete", seed |-> "seedFind"][op]

\* JwtAuthGuard: @Public() needs no token, and the script is no request.
NeedsToken(i) == i.op \notin {"register", "seed"}

Arrive(r, i) ==
  /\ pc[r] = "idle"
  /\ input' = [input EXCEPT ![r] = i]
  /\ Goto(r, First(i.op))
  /\ \/ /\ ~NeedsToken(i)
        /\ UNCHANGED caller
     \/ /\ NeedsToken(i)
        /\ \E u \in WithEmail(i.email) :
             caller' = [caller EXCEPT ![r] = [id |-> u, role |-> user[u].role]]
  /\ UNCHANGED <<dbVars, entity, differs, listener, overtaken>>

(* AuthService.register                                                    *)
CheckDuplicateEmail(r) ==
  /\ pc[r] = "checkDuplicateEmail"
  /\ \/ WithEmail(input[r].email) # {} /\ Refuse(r)
     \/ WithEmail(input[r].email) = {} /\ Continue(r, "createUser")

NewUserWithoutRole(i, role) ==
  [email |-> i.email, name |-> i.data.name, password |-> i.data.password, role |-> Null]
NewUser(i, role) ==
  [email |-> i.email, name |-> i.data.name, password |-> i.data.password, role |-> role]

\* The INSERT of a row under a new id.
InsertUser(u, row) ==
  /\ u \in Id \ minted
  /\ EmailFree(row.email)
  /\ user' = [user EXCEPT ![u] = row]
  /\ minted' = minted \cup {u}
  /\ UNCHANGED <<wallets, overtaken>>

DefaultWallet(u, step) == listener' = [listener EXCEPT ![u] = step]

\* The event is emitted only in the memory of this server: if it stops after
\* the INSERT nobody makes the wallet.
CreateUser(r) ==
  /\ pc[r] = "createUser"
  /\ \/ ~EmailFree(input[r].email) /\ Refuse(r)
     \/ \E u \in Id :
          /\ InsertUser(u, NewUser(input[r], "USER"))
          /\ DefaultWallet(u, "findOneBy") \/ DefaultWallet(u, "failed")
          /\ Answer(r)

-----------------------------------------------------------------------------
(* ensureWallet, for POST /wallet and for the listener of UserRegistered   *)
HasSomeWallet(u, c) == \E v \in Id : wallets[v][c] > 0
HasWallet(u, c) == wallets[u][c] > 0

\* The unique index on (user_id, currency), and the foreign key.
OwnerExists(u) == user[u] # Null

WalletKeyFreeAlways(u, c) == TRUE
WalletKeyFree(u, c) == wallets[u][c] = 0

InsertWallet(u, c) ==
  /\ WalletKeyFree(u, c)
  /\ OwnerExists(u)
  /\ wallets' = [wallets EXCEPT ![u][c] = @ + 1]

\* createWallet looks for the wallet before ensureWallet does.
FindWallet(r) ==
  /\ pc[r] = "findWallet"
  /\ \/ HasWallet(caller[r].id, input[r].currency) /\ Refuse(r)
     \/ ~HasWallet(caller[r].id, input[r].currency) /\ Continue(r, "ensureFind")

EnsureFind(r) ==
  /\ pc[r] = "ensureFind"
  /\ \/ HasWallet(caller[r].id, input[r].currency) /\ Refuse(r)
     \/ ~HasWallet(caller[r].id, input[r].currency) /\ Continue(r, "ensureInsert")

EnsureInsert(r) ==
  /\ pc[r] = "ensureInsert"
  /\ InsertWallet(caller[r].id, input[r].currency)
  /\ Answer(r)
  /\ UNCHANGED <<user, minted, listener, overtaken>>

ListenerFind(u) ==
  /\ listener[u] = "findOneBy"
  /\ DefaultWallet(u, IF HasWallet(u, DEFAULT_CURRENCY) THEN "done" ELSE "save")
  /\ UNCHANGED <<dbVars, requestVars, overtaken>>

ListenerInsert(u) ==
  /\ listener[u] = "save"
  /\ InsertWallet(u, DEFAULT_CURRENCY)
  /\ DefaultWallet(u, "done")
  /\ UNCHANGED <<user, minted, requestVars, overtaken>>

\* The INSERT is refused, by an index (the random tag has one too) or by the
\* foreign key; the database fails; the server stops.  Nothing tries again.
ListenerFails(u) ==
  /\ listener[u] \in {"findOneBy", "save"}
  /\ DefaultWallet(u, "failed")
  /\ UNCHANGED <<dbVars, requestVars, overtaken>>

-----------------------------------------------------------------------------
(* UsersPolicy                                                             *)
CanUpdateAnyone(c, target) == TRUE
CanUpdateUser(c, target) == c.id = target \/ c.role = "ADMIN"
CanUpdateRole(c) == c.role = "ADMIN"
CanDeleteUser(c, target) == c.id # target /\ c.role = "ADMIN"

\* sanitizeUpdateData: the schema lets only name and role through, so what is
\* left to remove is the role, unless an administrator sends it.
Sanitized(c, data) ==
  [x \in {y \in DOMAIN data : y = "role" => c.role = "ADMIN"} |-> data[x]]

(* UsersService.updateUserDetails and AuthService.changePassword           *)
FindTarget(r) ==
  LET allowed == /\ user[input[r].target] # Null
                 /\ CanUpdateUser(caller[r], input[r].target)
                 /\ "role" \in DOMAIN input[r].data => CanUpdateRole(caller[r])
  IN  /\ pc[r] = "findTarget"
      /\ \/ ~allowed /\ Refuse(r)
         \/ allowed /\ Continue(r, "findForUpdate")

\* argon.verify of the old password against the row just read.
FindSelf(r) ==
  LET u == caller[r].id
      verified == user[u] # Null /\ user[u].password = input[r].oldPassword
  IN  /\ pc[r] = "findSelf"
      /\ \/ ~verified /\ Refuse(r)
         \/ verified /\ Continue(r, "findForUpdate")

\* UsersRepository.updateUserDetails: Object.assign(user, updateData).
Data(r) ==
  IF input[r].op = "update" THEN Sanitized(caller[r], input[r].data) ELSE input[r].data

Assign(row, data) ==
  [c \in Column |-> IF c \in DOMAIN data THEN data[c] ELSE row[c]]

FindForUpdate(r) ==
  LET u == TargetOf(r)
  IN  /\ pc[r] = "findForUpdate"
      /\ \/ user[u] = Null /\ Refuse(r)
         \/ /\ user[u] # Null
            /\ entity' = [entity EXCEPT ![r] = Assign(user[u], Data(r))]
            /\ Goto(r, "saveSelect")
            /\ UNCHANGED <<dbVars, input, caller, differs, listener, overtaken>>

(* save                                                                    *)
SaveSelect(r) ==
  LET u == TargetOf(r)
      D == {c \in Column : entity[r][c] # user[u][c]}
  IN  /\ pc[r] = "saveSelect"
      /\ \/ user[u] = Null /\ Continue(r, "saveInsert")
         \/ user[u] # Null /\ D = {} /\ Refuse(r)
         \/ /\ user[u] # Null /\ D # {}
            /\ differs' = [differs EXCEPT ![r] = D]
            /\ Goto(r, "saveUpdate")
            /\ UNCHANGED <<dbVars, input, caller, entity, listener, overtaken>>

SaveUpdate(r) ==
  LET u == TargetOf(r)
  IN  /\ pc[r] = "saveUpdate"
      /\ \/ user[u] = Null /\ Refuse(r)
         \/ /\ user[u] # Null
            /\ user' = [user EXCEPT ![u] =
                 [c \in Column |-> IF c \in differs[r] THEN entity[r][c] ELSE @[c]]]
            /\ Overtakes(r, u)
            /\ Answer(r)
            /\ UNCHANGED <<minted, wallets, listener>>

\* The user was deleted since the entity was read: save inserts it again,
\* unless the id or the email has a row by now.
SaveInsert(r) ==
  LET u == TargetOf(r)
  IN  /\ pc[r] = "saveInsert"
      /\ \/ (user[u] # Null \/ ~EmailFree(entity[r].email)) /\ Refuse(r)
         \/ /\ user[u] = Null /\ EmailFree(entity[r].email)
            /\ user' = [user EXCEPT ![u] = entity[r]]
            /\ Overtakes(r, u)
            /\ Answer(r)
            /\ UNCHANGED <<minted, wallets, listener>>

(* UsersService.deleteUser                                                 *)
FindForDelete(r) ==
  LET allowed == user[input[r].target] # Null /\ CanDeleteUser(caller[r], input[r].target)
  IN  /\ pc[r] = "findForDelete"
      /\ \/ ~allowed /\ Refuse(r)
         \/ allowed /\ Continue(r, "delete")

\* The foreign key of wallet cascades.
Cascade(u) == [wallets EXCEPT ![u] = [c \in Currency |-> 0]]

Delete(r) ==
  LET u == input[r].target
  IN  /\ pc[r] = "delete"
      /\ user' = [user EXCEPT ![u] = Null]
      /\ wallets' = Cascade(u)
      /\ Overtakes(r, u)
      /\ Answer(r)
      /\ UNCHANGED <<minted, listener>>

-----------------------------------------------------------------------------
(* scripts/seed-admin.ts                                                   *)
\* An administrator is left alone, another user becomes one, with the save of
\* the entity just read.
Promoted(row, data) == [row EXCEPT !.role = data.role]

SeedFind(r) ==
  /\ pc[r] = "seedFind"
  /\ \/ /\ WithEmail(input[r].email) = {}
        /\ Continue(r, "seedUser")
     \/ \E u \in WithEmail(input[r].email) :
          \/ user[u].role = "ADMIN" /\ Refuse(r)
          \/ /\ user[u].role # "ADMIN"
             /\ caller' = [caller EXCEPT ![r] = [id |-> u, role |-> "ADMIN"]]
             /\ entity' = [entity EXCEPT ![r] = Promoted(user[u], input[r].data)]
             /\ Goto(r, "saveSelect")
             /\ UNCHANGED <<dbVars, input, differs, listener, overtaken>>

SeedUser(r) ==
  /\ pc[r] = "seedUser"
  /\ \/ ~EmailFree(input[r].email) /\ Refuse(r)
     \/ \E u \in Id :
          /\ InsertUser(u, NewUser(input[r], "ADMIN"))
          /\ DefaultWallet(u, "script")
          /\ caller' = [caller EXCEPT ![r] = [id |-> u, role |-> "ADMIN"]]
          /\ Goto(r, "seedWallet")
          /\ UNCHANGED <<input, entity, differs>>

\* An INSERT, without a look for the wallet first.
SeedWallet(r) ==
  /\ pc[r] = "seedWallet"
  /\ InsertWallet(caller[r].id, DEFAULT_CURRENCY)
  /\ DefaultWallet(caller[r].id, "done")
  /\ Answer(r)
  /\ UNCHANGED <<user, minted, overtaken>>

\* An index or the foreign key refuses the wallet, the database fails, the
\* script is stopped: another run finds the administrator and does nothing.
SeedWalletFails(r) ==
  /\ pc[r] = "seedWallet"
  /\ DefaultWallet(caller[r].id, "failed")
  /\ Answer(r)
  /\ UNCHANGED <<dbVars, overtaken>>

-----------------------------------------------------------------------------
\* The database fails the call, an index refuses a wallet, the server stops.
Fail(r) == pc[r] \notin {"idle", "seedWallet"} /\ Refuse(r)

-----------------------------------------------------------------------------
Init ==
  /\ user = Seeded
  /\ minted = {u \in Id : Seeded[u] # Null}
  /\ wallets = [u \in Id |-> [c \in Currency |->
                  IF Seeded[u] # Null /\ c = DEFAULT_CURRENCY THEN 1 ELSE 0]]
  /\ pc = [r \in Request |-> "idle"]
  /\ input = [r \in Request |-> Null]
  /\ caller = [r \in Request |-> Null]
  /\ entity = [r \in Request |-> Null]
  /\ differs = [r \in Request |-> {}]
  /\ listener = [u \in Id |-> "none"]
  /\ overtaken = {}

RequestStep(r) ==
  \/ \E i \in Inputs : Arrive(r, i)
  \/ CheckDuplicateEmail(r) \/ CreateUser(r)
  \/ FindWallet(r) \/ EnsureFind(r) \/ EnsureInsert(r)
  \/ FindTarget(r) \/ FindSelf(r) \/ FindForUpdate(r)
  \/ SaveSelect(r) \/ SaveUpdate(r) \/ SaveInsert(r)
  \/ FindForDelete(r) \/ Delete(r)
  \/ SeedFind(r) \/ SeedUser(r) \/ SeedWallet(r) \/ SeedWalletFails(r)
  \/ Fail(r)

Listens(u) == ListenerFind(u) \/ ListenerInsert(u)

Next ==
  \/ \E r \in Request : RequestStep(r)
  \/ \E u \in Id : Listens(u) \/ ListenerFails(u)

Spec == Init /\ [][Next]_vars

\* Node.js runs the pending continuations of a listener and of the script, to
\* success or failure.
FairSpec ==
  /\ Spec
  /\ \A u \in Id : WF_vars(Listens(u) \/ ListenerFails(u))
  /\ \A r \in Request : WF_vars(SeedWallet(r) \/ SeedWalletFails(r))

-----------------------------------------------------------------------------
TypeOK ==
  /\ user \in [Id -> Users \cup {Null}]
  /\ minted \subseteq Id
  /\ wallets \in [Id -> [Currency -> Nat]]
  /\ pc \in [Request -> Steps]
  /\ input \in [Request -> Inputs \cup {Null}]
  /\ caller \in [Request -> [id: minted, role: Role] \cup {Null}]
  /\ entity \in [Request -> Users \cup {Null}]
  /\ differs \in [Request -> SUBSET Column]
  /\ listener \in [Id -> {"none", "findOneBy", "save", "script", "done", "failed"}]
  /\ overtaken \subseteq {r \in Request : pc[r] \in Saving}

\* No two users share an email and no user has two wallets of one currency.
\* Registrations, the listener, POST /wallet and the script look first and
\* insert later, and an overtaken save can insert a user again whose email was
\* registered anew; and nobody adds a wallet for a user who was deleted since
\* they looked.
RowsAreUnique ==
  /\ \A u, v \in Id :
       user[u] # Null /\ user[v] # Null /\ user[u].email = user[v].email => u = v
  /\ \A u \in Id, c \in Currency :
       wallets[u][c] <= IF user[u] = Null THEN 0 ELSE 1

\* Who may change a column: everybody their own name and password,
\* administrators every name and role.
MayChange(c, u, column) ==
  \/ column = "password" /\ c.id = u
  \/ column = "name" /\ (c.id = u \/ c.role = "ADMIN")
  \/ column = "role" /\ c.role = "ADMIN"

Writes(r, u) == pc[r] \in Saving /\ pc'[r] = "idle" /\ TargetOf(r) = u

\* A row changes only as its client asked and was allowed to, is deleted only
\* by another user who is an administrator, and comes back never; except
\* through a save that another write of the same user overtook.  Public
\* registration makes a USER; only the script makes an administrator.
ChangesAreAuthorised ==
  [][\A u \in Id :
       /\ user[u] # Null /\ user'[u] # Null =>
            \A column \in Column : user'[u][column] # user[u][column] =>
              \E r \in Request :
                /\ Writes(r, u)
                /\ \/ r \in overtaken
                   \/ column \in DOMAIN input[r].data /\ MayChange(caller[r], u, column)
       /\ user[u] # Null /\ user'[u] = Null =>
            \E r \in Request : pc[r] = "delete" /\ caller[r].id # u /\ caller[r].role = "ADMIN"
       /\ user[u] = Null /\ user'[u] # Null =>
            \/ u \in minted /\ \E r \in Request : Writes(r, u) /\ r \in overtaken
            \/ u \notin minted /\ user'[u].role = "USER"
            \/ u \notin minted /\ \E r \in Request : pc[r] = "seedUser"]_vars

\* README: "`UserRegistered` | User registers | Auto-creates a default EUR
\* wallet".  A user for whom the event was emitted, or whom the script made,
\* has the wallet in the end, unless the listener or the script failed or the
\* user was deleted.
RegisteredHasWallet ==
  \A u \in Id :
    listener[u] \in {"findOneBy", "script"} ~>
      wallets[u][DEFAULT_CURRENCY] > 0 \/ user[u] = Null \/ listener[u] = "failed"

-----------------------------------------------------------------------------
\* README, "Role-based Access Control": a USER may not "Update any user /
\* roles".  A role changes only because an administrator asked for it.
RolesAreAdmins ==
  [][\A u \in Id :
       user[u] # Null /\ user'[u] # Null /\ user'[u].role # user[u].role =>
         \E r \in Request :
           Writes(r, u) /\ caller[r].role = "ADMIN" /\ "role" \in DOMAIN input[r].data]_vars
=============================================================================
