------------------------------ MODULE Accounts ------------------------------
(***************************************************************************)
(* Staff and customer accounts: who exists, what each may do, which links  *)
(* were mailed and which sessions were issued (app/routers/auth.py,        *)
(* customer_auth.py, users.py, customers.py, app/core/deps.py, security.py *)
(* and google_auth.py).                                                    *)
(*                                                                         *)
(* Handlers run on a thread pool, each with a database session of its own: *)
(* a request reads the rows it decides on, and commits later.  The ORM     *)
(* writes the columns whose value the request changed, so a request in     *)
(* flight is kept as its target, the columns it will write and what the    *)
(* body named.  Whether the password typed is right is left to chance, and *)
(* so is whether a link has expired; passwords and links are numbers.      *)
(***************************************************************************)
EXTENDS Integers

CONSTANTS
  StaffIds, CustomerIds,  \* the primary keys of the two tables; they overlap
  Addresses,              \* e-mail addresses as they are typed
  Folded,                 \* address |-> its lower case
  Requests,
  StaffEdits,             \* bodies of PUT /users/{id}
  Openings,               \* the rows a behaviour starts from
  MaxLinks,               \* bound: links mailed in one behaviour
  MaxRequests             \* bound: requests that reach their commit

ASSUME AccountsAssumption ==
  /\ StaffIds \subseteq Nat /\ CustomerIds \subseteq Nat /\ 1 \in StaffIds
  /\ Folded \in [Addresses -> Addresses]
  /\ MaxLinks \in Nat /\ MaxRequests \in Nat

VARIABLES
  rows,      \* principal |-> its row, or NoRow
  used,      \* principals that ever had a row: ids are not given out again
  mailed,    \* the links sent so far: number |-> address it was sent to
  retired,   \* history: credentials an account no longer has, as <<account, column, value>>
  sessions,  \* live tokens: the type and sub claims
  req,       \* what each request is about to commit
  begun      \* how many requests began

vars == <<rows, used, mailed, retired, sessions, req, begun>>

User(id) == <<"user", id>>
Customer(id) == <<"customer", id>>
Users == {User(id) : id \in StaffIds}
Customers == {Customer(id) : id \in CustomerIds}
Principals == Users \cup Customers

NoRow == [none |-> "row"]
NoLink == 0
NoPassword == 0
Nobody == [none |-> "session"]
Idle == [none |-> "request"]

Exists(p) == rows[p] # NoRow
Like(p) == IF p \in Users THEN Users ELSE Customers
Taken(table, address) == \E p \in table : Exists(p) /\ rows[p].email = address

\* The permission flags of a user, of which price_listing and
\* product_management gate other components in the same way.
PERMISSION_NAMES == {"user_management", "customer_management", "admin"}
Flags == PERMISSION_NAMES \cup {"is_active", "access_permission"}

StaffRow(address) ==
  [email |-> address, is_active |-> TRUE, is_verified |-> FALSE, link |-> NoLink,
   reset |-> NoLink, password |-> 1, user_management |-> FALSE, customer_management |-> FALSE,
   admin |-> FALSE]
CustomerRow(address) ==
  [email |-> address, is_active |-> TRUE, is_verified |-> FALSE, link |-> NoLink,
   reset |-> NoLink, password |-> NoPassword, access_permission |-> FALSE]

\* Accounts a behaviour may start from: no link to them is open.
SettledStaff ==
  [email : Addresses, is_active : BOOLEAN, is_verified : BOOLEAN, link : {NoLink},
   reset : {NoLink}, password : {1}, user_management : BOOLEAN, customer_management : BOOLEAN,
   admin : BOOLEAN]
SettledCustomers ==
  [email : Addresses, is_active : BOOLEAN, is_verified : BOOLEAN, link : {NoLink},
   reset : {NoLink}, password : {NoPassword, 1}, access_permission : BOOLEAN]

ASSUME OpeningsAssumption ==
  \A opening \in Openings :
    /\ DOMAIN opening = Principals
    /\ \A p \in Users : opening[p] \in {NoRow} \cup SettledStaff
    /\ \A p \in Customers : opening[p] \in {NoRow} \cup SettledCustomers

\* UserUpdateByAdmin has neither the address nor a credential.
ASSUME StaffEditsAssumption ==
  \A edit \in StaffEdits :
    /\ DOMAIN edit \subseteq PERMISSION_NAMES \cup {"is_active"}
    /\ \A c \in DOMAIN edit : edit[c] \in BOOLEAN

-----------------------------------------------------------------------------
(* Sessions and guards                                                     *)

create_access_token(p) == [type |-> p[1], sub |-> p[2]]
SignIn(p) == sessions' = sessions \cup {create_access_token(p)}

\* principal_id_from_token: the row a token names, if it is of that type.
PrincipalOf(s, type) == IF s.type = type THEN {<<type, s.sub>>} ELSE {}

\* get_current_user, get_verified_user and get_current_customer.
Current(s, type) == {p \in PrincipalOf(s, type) : Exists(p) /\ rows[p].is_active}
CurrentUser(s) == Current(s, "user")
CurrentCustomer(s) == Current(s, "customer")
Verified(ps) == {p \in ps : rows[p].is_verified}
VerifiedCustomer(s) == Verified(CurrentCustomer(s))
Holds(s, permission) == {p \in Verified(CurrentUser(s)) : rows[p][permission]}

-----------------------------------------------------------------------------
(* Requests                                                                *)

\* The link a request will mail, to confirm an address or to reset a password.
Mails(body) ==
  IF "link" \in DOMAIN body THEN body.link
  ELSE IF "reset" \in DOMAIN body THEN body.reset ELSE NoLink
PendingLinks == {Mails(req[r].body) : r \in {q \in Requests : req[q] # Idle}} \ {NoLink}
NewLink == CHOOSE n \in 1 .. MaxLinks + 1 : n \notin DOMAIN mailed \cup PendingLinks

\* The request has read its rows and will write the target.
Admit(r, op, by, target, body) ==
  /\ req[r] = Idle
  /\ Mails(body) <= MaxLinks
  /\ begun < MaxRequests
  /\ begun' = begun + 1
  /\ req' = [req EXCEPT ![r] =
       [op |-> op, by |-> by, may |-> {f \in PERMISSION_NAMES : by \in Users /\ rows[by][f]},
        target |-> target, body |-> body, was |-> rows[target]]]
  /\ UNCHANGED <<rows, used, mailed, retired, sessions>>

Changed(q) == {c \in DOMAIN q.body : q.was = NoRow \/ q.was[c] # q.body[c]}

Onto(row, columns, body) ==
  [c \in DOMAIN row \cup columns |-> IF c \in columns THEN body[c] ELSE row[c]]

\* The whole loaded row is written back.
AfterWholeRow(q) == IF q.was = NoRow THEN q.body ELSE Onto(q.was, DOMAIN q.body, q.body)

\* The row after the commit of a request: an INSERT, or an UPDATE of the
\* columns the request changed.
After(q) ==
  IF q.was = NoRow THEN q.body ELSE Onto(rows[q.target], Changed(q), q.body)

\* Refused by the database: the id or the address is taken, the row is gone.
Refused(q) ==
  IF q.was = NoRow
  THEN q.target \in used \/ Taken(Like(q.target), q.body.email)
  ELSE /\ Changed(q) # {}
       /\ \/ ~ Exists(q.target)
          \/ /\ "email" \in Changed(q)
             /\ Taken(Like(q.target) \ {q.target}, q.body.email)

Credentials == {"link", "reset", "password"}

\* What the commit takes away.
Replaced(q) ==
  IF q.was = NoRow THEN {}
  ELSE {<<q.target, c, rows[q.target][c]>> : c \in Credentials \cap Changed(q)}

SignsIn(op) == op = "google"

\* The mail goes to the address that was loaded.
MailedToLoaded(q) == IF q.was = NoRow THEN q.body.email ELSE q.was.email

\* A link goes to the address the row has after the commit.
MailedTo(q) == After(q).email

Commit(r) ==
  LET q == req[r] IN
  /\ q # Idle /\ q.op # "delete"
  /\ ~ Refused(q)
  /\ IF Changed(q) = {}
     THEN UNCHANGED <<rows, used, mailed, retired>>
     ELSE /\ rows' = [rows EXCEPT ![q.target] = After(q)]
          /\ used' = used \cup {q.target}
          /\ retired' = retired \cup Replaced(q)
          /\ mailed' = [n \in DOMAIN mailed \cup ({Mails(q.body)} \ {NoLink}) |->
                          IF n = Mails(q.body) THEN MailedTo(q) ELSE mailed[n]]
  /\ IF SignsIn(q.op) /\ (Exists(q.target) \/ q.was = NoRow)
     THEN SignIn(q.target)
     ELSE UNCHANGED sessions
  /\ req' = [req EXCEPT ![r] = Idle]
  /\ UNCHANGED begun

CommitDelete(r) ==
  /\ req[r] # Idle /\ req[r].op = "delete"
  /\ rows' = [rows EXCEPT ![req[r].target] = NoRow]
  /\ req' = [req EXCEPT ![r] = Idle]
  /\ UNCHANGED <<used, mailed, retired, sessions, begun>>

Fail(r) ==
  /\ req[r] # Idle /\ req[r].op # "delete"
  /\ Refused(req[r])
  /\ req' = [req EXCEPT ![r] = Idle]
  /\ UNCHANGED <<rows, used, mailed, retired, sessions, begun>>

-----------------------------------------------------------------------------
(* Links and sign-in.  The two routers are alike: auth.py looks among the  *)
(* staff, customer_auth.py among the customers.                            *)

\* GET /verify-email, by whoever opens a link that has not expired.
VerifyEmail(r, p) ==
  /\ Exists(p) /\ rows[p].link # NoLink
  /\ Admit(r, "verify", p, p, [is_verified |-> TRUE, link |-> NoLink])
VerifyUserEmail(r, p) == p \in Users /\ VerifyEmail(r, p)
VerifyCustomerEmail(r, p) == p \in Customers /\ VerifyEmail(r, p)

ResendUserVerification(r, p) ==
  /\ p \in Users
  /\ Exists(p) /\ ~ rows[p].is_verified
  /\ Admit(r, "resend", p, p, [link |-> NewLink])
ResendCustomerVerification(r, p) ==
  /\ p \in Customers
  /\ Exists(p) /\ rows[p].password # NoPassword /\ ~ rows[p].is_verified
  /\ Admit(r, "resend", p, p, [link |-> NewLink])

\* POST /auth/login with the right password, for both kinds of account, and
\* POST /auth/customer/login.
Login(p) ==
  /\ Exists(p) /\ rows[p].password # NoPassword
  /\ rows[p].is_active /\ rows[p].is_verified
  /\ SignIn(p)
  /\ UNCHANGED <<rows, used, mailed, retired, req, begun>>
CustomerLogin(p) == p \in Customers /\ Login(p)

Matching(table, address) == {p \in table : Exists(p) /\ Folded[rows[p].email] = address}

\* POST /auth/google, with the lower-case address Google vouches for: the
\* staff account, else the customer, else a new customer.
GoogleLogin(r, address) ==
  LET confirmed == [is_verified |-> TRUE, link |-> NoLink]
      staff == Matching(Users, address)
      known == Matching(Customers, address)
  IN
  \/ \E p \in staff :
       /\ rows[p].is_active
       /\ Admit(r, "google", p, p, IF rows[p].is_verified THEN <<>> ELSE confirmed)
  \/ /\ staff = {}
     /\ \E p \in known :
          /\ rows[p].is_active
          /\ Admit(r, "google", p, p, IF rows[p].is_verified THEN <<>> ELSE confirmed)
  \/ /\ staff = {} /\ known = {}
     /\ \E p \in Customers \ used :
          Admit(r, "google", p, p, [CustomerRow(address) EXCEPT !.is_verified = TRUE])

\* POST /auth/refresh: customers only, and the row is read again.
Refresh(s) ==
  /\ \E p \in VerifiedCustomer(s) :
       sessions' = sessions \cup {create_access_token(p)}
  /\ UNCHANGED <<rows, used, mailed, retired, req, begun>>

-----------------------------------------------------------------------------
(* Profiles                                                                *)

\* PUT /users/me and PUT /customers/me with a new address; the other fields
\* of the profile decide nothing.
ChangeAddress(r, p, address) ==
  /\ address # rows[p].email
  /\ ~ Taken(Like(p) \ {p}, address)
  /\ Admit(r, "profile", p, p, [email |-> address, is_verified |-> FALSE, link |-> NewLink])
UpdateUserProfile(r, s, address) ==
  \E p \in Verified(CurrentUser(s)) : ChangeAddress(r, p, address)
UpdateCustomerProfile(r, s, address) ==
  \E p \in VerifiedCustomer(s) : ChangeAddress(r, p, address)

-----------------------------------------------------------------------------
(* Passwords.  Every password somebody chooses is a new one.               *)

NewPassword == begun + 2

\* POST /forgot-password; a customer without a password has none to reset.
ForgotUserPassword(r, p) ==
  /\ p \in Users /\ Exists(p)
  /\ Admit(r, "forgot", p, p, [reset |-> NewLink])
ForgotCustomerPassword(r, p) ==
  /\ p \in Customers /\ Exists(p) /\ rows[p].password # NoPassword
  /\ Admit(r, "forgot", p, p, [reset |-> NewLink])

\* POST /reset-password, by whoever holds the link; no address is looked at.
ResetPassword(r, p) ==
  /\ Exists(p) /\ rows[p].reset # NoLink
  /\ Admit(r, "reset", p, p, [password |-> NewPassword, reset |-> NoLink])
ResetUserPassword(r, p) == p \in Users /\ ResetPassword(r, p)
ResetCustomerPassword(r, p) == p \in Customers /\ ResetPassword(r, p)

\* POST /me/change-password with the right current password.
ChangePassword(r, p) ==
  /\ rows[p].password # NoPassword
  /\ Admit(r, "password", p, p, [password |-> NewPassword])
ChangeUserPassword(r, s) == \E p \in Verified(CurrentUser(s)) : ChangePassword(r, p)
ChangeCustomerPassword(r, s) == \E p \in VerifiedCustomer(s) : ChangePassword(r, p)

\* PUT /users/{id}/password, by user_management.
AdminSetUserPassword(r, s, p) ==
  \E by \in Holds(s, "user_management") :
    /\ Exists(p)
    /\ Admit(r, "set", by, p, [password |-> NewPassword])

-----------------------------------------------------------------------------
(* Staff accounts, by user_management                                      *)

CreateUser(r, s, address) ==
  \E by \in Holds(s, "user_management"), p \in Users \ used :
    /\ ~ Taken(Users, address)
    /\ \E manager \in BOOLEAN :
         Admit(r, "create", by, p, [StaffRow(address) EXCEPT
           !.link = NewLink, !.user_management = manager, !.customer_management = TRUE])

Revokes(edit, permission) == permission \in DOMAIN edit /\ ~ edit[permission]

OtherAdmins(p) == {u \in Users \ {p} : Exists(u) /\ rows[u].admin /\ rows[u].is_active}

\* The guard on one's own user_management is missing.
UpdateUserUnguarded(r, s, p, edit) ==
  \E by \in Holds(s, "user_management") :
    /\ Exists(p)
    /\ ~ (p = by /\ Revokes(edit, "admin") /\ OtherAdmins(p) = {})
    /\ Admit(r, "update", by, p, edit)

UpdateUser(r, s, p, edit) ==
  \E by \in Holds(s, "user_management") :
    /\ Exists(p)
    /\ ~ (p = by /\ Revokes(edit, "user_management"))
    /\ ~ (p = by /\ Revokes(edit, "admin") /\ OtherAdmins(p) = {})
    /\ Admit(r, "update", by, p, edit)

DeactivateUser(r, s, p) ==
  \E by \in Holds(s, "user_management") :
    /\ p # by
    /\ Exists(p)
    /\ Admit(r, "deactivate", by, p, [is_active |-> FALSE])

-----------------------------------------------------------------------------
(* Customers                                                               *)

\* POST /auth/customer/register.
Register(r, address) ==
  \E p \in Customers \ used :
    /\ ~ Taken(Customers, address)
    /\ Admit(r, "register", p, p,
             [CustomerRow(address) EXCEPT !.password = 1, !.link = NewLink])

\* By customer_management, without a password or a link.
CreateCustomer(r, s, address) ==
  \E by \in Holds(s, "customer_management"), p \in Customers \ used, access \in BOOLEAN :
    /\ ~ Taken(Customers, address)
    /\ Admit(r, "create", by, p, [CustomerRow(address) EXCEPT !.access_permission = access])

\* The address may change here without a new confirmation, and is not
\* checked against the others before the commit.
UpdateCustomer(r, s, p) ==
  \E by \in Holds(s, "customer_management") :
    /\ Exists(p)
    /\ \/ \E access \in BOOLEAN : Admit(r, "update", by, p, [access_permission |-> access])
       \/ \E address \in Addresses : Admit(r, "update", by, p, [email |-> address])

DeleteCustomer(r, s, p) ==
  \E by \in Holds(s, "customer_management") :
    /\ Exists(p)
    /\ Admit(r, "delete", by, p, <<>>)

-----------------------------------------------------------------------------
\* scripts/create_admin.py: every flag but admin, and already verified.
Bootstrap(address) ==
  [StaffRow(address) EXCEPT !.is_verified = TRUE, !.user_management = TRUE,
                            !.customer_management = TRUE]

Init ==
  /\ rows \in Openings
  /\ used = {p \in Principals : Exists(p)}
  /\ mailed = <<>>
  /\ retired = {}
  /\ sessions = {}
  /\ req = [r \in Requests |-> Idle]
  /\ begun = 0

\* The life of a token is over: 24 hours for staff, 14 days for customers.
Expire(s) ==
  /\ sessions' = sessions \ {s}
  /\ UNCHANGED <<rows, used, mailed, retired, req, begun>>

SessionNext ==
  \/ \E p \in Principals : Login(p) \/ CustomerLogin(p)
  \/ \E s \in sessions : Refresh(s) \/ Expire(s)

CommitNext == \E r \in Requests : Commit(r) \/ CommitDelete(r) \/ Fail(r)

MailNext ==
  \E r \in Requests, p \in Principals :
    \/ VerifyUserEmail(r, p) \/ VerifyCustomerEmail(r, p)
    \/ ResendUserVerification(r, p) \/ ResendCustomerVerification(r, p)

ProfileNext ==
  \E r \in Requests, s \in sessions, address \in Addresses :
    UpdateUserProfile(r, s, address) \/ UpdateCustomerProfile(r, s, address)

PasswordNext ==
  \/ \E r \in Requests, p \in Principals :
       \/ ForgotUserPassword(r, p) \/ ForgotCustomerPassword(r, p)
       \/ ResetUserPassword(r, p) \/ ResetCustomerPassword(r, p)
  \/ \E r \in Requests, s \in sessions :
       \/ ChangeUserPassword(r, s) \/ ChangeCustomerPassword(r, s)
       \/ \E p \in Users : AdminSetUserPassword(r, s, p)

AccountNext ==
  \/ \E r \in Requests, address \in Addresses :
       GoogleLogin(r, Folded[address]) \/ Register(r, address)
  \/ \E r \in Requests, s \in sessions, address \in Addresses :
       CreateUser(r, s, address) \/ CreateCustomer(r, s, address)
  \/ \E r \in Requests, s \in sessions, p \in Users :
       DeactivateUser(r, s, p) \/ \E edit \in StaffEdits : UpdateUser(r, s, p, edit)
  \/ \E r \in Requests, s \in sessions, p \in Customers :
       UpdateCustomer(r, s, p) \/ DeleteCustomer(r, s, p)

Next ==
  \/ SessionNext
  \/ CommitNext
  \/ MailNext
  \/ ProfileNext
  \/ PasswordNext
  \/ AccountNext

Spec == Init /\ [][Next]_vars

-----------------------------------------------------------------------------
(* Properties                                                              *)

Keeper(flag) == IF flag = "access_permission" THEN "customer_management" ELSE "user_management"

\* p's flag is written by a request whose body named it and whose sender
\* held the permission when it was let in.
ByItsKeeper(p, flag) ==
  \E r \in Requests :
    /\ req[r] # Idle /\ req'[r] = Idle
    /\ req[r].target = p /\ flag \in DOMAIN req[r].body
    /\ Keeper(flag) \in req[r].may

Raised(row, flag) == flag \in DOMAIN row /\ row[flag]

(* A permission, is_active or a customer's access_permission changes only  *)
(* by a request that named it, sent by staff who held the permission to    *)
(* (models.py: it "only ever changes via a customer_management staff       *)
(* member").  No profile edit, sign-in or confirmation that was in flight  *)
(* while a manager changed the flag writes the old value back.             *)
FlagsFollowTheirKeepers ==
  [][\A p \in Principals, flag \in Flags :
       \/ ~ Exists(p) \/ ~ Exists(p)'
       \/ flag \notin DOMAIN rows[p]
       \/ rows'[p][flag] = rows[p][flag]
       \/ ByItsKeeper(p, flag)]_vars

Managers == {p \in Users : Exists(p) /\ rows[p].is_active /\ rows[p].is_verified
                           /\ rows[p].user_management}

(* The last account able to manage users is lost only through a request it *)
(* sent about itself - switching itself off by PUT, or changing its own    *)
(* address - or one sent by staff who were themselves no longer able to    *)
(* when it committed.  The guards of update_user and deactivate_user hold  *)
(* in every order of several managers' requests.                           *)
LastManagerGoesByItsOwnHand ==
  [][Managers # {} /\ Managers' = {} =>
       \E r \in Requests :
         /\ req[r] # Idle /\ req'[r] = Idle
         /\ \/ req[r].target = req[r].by /\ DOMAIN req[r].body \cap {"is_active", "email"} # {}
            \/ req[r].by \notin Managers]_vars

(* The confirmation link a staff row still accepts was mailed to the       *)
(* address the row has now, in every overlap of resending, confirming and  *)
(* changing the address, so opening it proves that address.                *)
LinkMatchesAddress ==
  \A p \in Users : Exists(p) /\ rows[p].link # NoLink =>
    /\ rows[p].link \in DOMAIN mailed
    /\ mailed[rows[p].link] = rows[p].email

(* What was replaced never opens an account again: a password, a reset     *)
(* link or a confirmation link that some request took away does not come   *)
(* back with another that was in flight and had loaded the row before.     *)
ReplacedStaysReplaced ==
  \A p \in Principals : Exists(p) =>
    \A c \in Credentials : rows[p][c] # 0 => <<p, c, rows[p][c]>> \notin retired

AdminHolders == {p \in Users : Exists(p) /\ rows[p].is_active /\ rows[p].admin}

(* "You are the only account with the 'admin' permission - grant it to      *)
(* someone else before removing your own": nobody who revokes admin from    *)
(* themselves leaves it without a holder, in any order of the requests.     *)
(* The code does not keep it (README, section 6).                           *)
NobodyDropsTheLastAdmin ==
  [][AdminHolders # {} /\ AdminHolders' = {} =>
       ~ \E r \in Requests :
           /\ req[r] # Idle /\ req'[r] = Idle
           /\ req[r].target = req[r].by /\ Revokes(req[r].body, "admin")]_vars
=============================================================================
