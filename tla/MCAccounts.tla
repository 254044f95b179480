----------------------------- MODULE MCAccounts -----------------------------
(* An administrator, a user, and a registration.                            *)
EXTENDS Accounts, TLC

CONSTANTS admin, customer, newcomer, r1, r2

Row(e, p, role) == [email |-> e, name |-> "n1", password |-> p, role |-> role]
MCSeeded ==
  admin :> Row("a@", "p1", "ADMIN") @@ customer :> Row("c@", "p1", "USER") @@ newcomer :> Null

Register(e) == [op |-> "register", email |-> e, data |-> [name |-> "n1", password |-> "p1"]]
Update(e, u, d) == [op |-> "update", email |-> e, target |-> u, data |-> d]
ChangePassword(e, p, q) ==
  [op |-> "changePassword", email |-> e, oldPassword |-> p, data |-> [password |-> q]]
DeleteUser(e, u) == [op |-> "delete", email |-> e, target |-> u]
CreateWallet(e, c) == [op |-> "createWallet", email |-> e, currency |-> c]
Seed(e) ==
  [op |-> "seed", email |-> e, data |-> [name |-> "n1", password |-> "p1", role |-> "ADMIN"]]

\* The newcomer registers or is made an administrator by the script, asks for
\* the default wallet, and changes the customer, which takes an administrator;
\* the customer is promoted, changes the password and is deleted.
MCInputs ==
  { Register("n@"), Seed("n@"), CreateWallet("n@", "EUR"),
    Update("n@", customer, [name |-> "n2"]), Update("a@", customer, [role |-> "ADMIN"]),
    ChangePassword("c@", "p1", "p2"),
    DeleteUser("a@", customer), DeleteUser("a@", newcomer) }

RoleInputs ==
  { Update("c@", customer, [name |-> "n2"]), Update("a@", customer, [role |-> "ADMIN"]) }
=============================================================================
