--------------------------- MODULE AccountsProofs ---------------------------
(***************************************************************************)
(* Theorems about Accounts, for every set of staff, customers, addresses   *)
(* and overlapping requests, and however many links are mailed.            *)
(*                                                                         *)
(* Each is about a request that commits after others changed the row it    *)
(* had read.  Their invariant therefore says, besides what the rows hold,  *)
(* what every request in flight carries: its links and its password are    *)
(* its own, nobody has or had them, and a flag it sets was let in with the *)
(* permission and the guards of its endpoint.                              *)
(*                                                                         *)
(* At the end, about LoginThrottle: no window holds more guesses than the  *)
(* limit allows, whatever window, lock-out and limit are set.              *)
(***************************************************************************)
EXTENDS Accounts, LoginThrottle, Sums

StaffColumns    == {"email", "is_active", "is_verified"} \cup Credentials \cup PERMISSION_NAMES
CustomerColumns == {"email", "is_active", "is_verified"} \cup Credentials \cup {"access_permission"}
ColumnsOf(p) == IF p \in Users THEN StaffColumns ELSE CustomerColumns

Value(c) == IF c = "email" THEN Addresses ELSE IF c \in Credentials THEN Nat ELSE BOOLEAN
Typed(f) == \A c \in DOMAIN f : f[c] \in Value(c)
IsRow(p, row) == DOMAIN row = ColumnsOf(p) /\ Typed(row)

(* The request q is well formed.  One that deletes is for customers only.   *)
IsRequest(q) ==
  /\ q.target \in Principals
  /\ q.op = "delete" => q.target \in Customers /\ DOMAIN q.body = {}
  /\ q.op # "delete" =>
       /\ Typed(q.body) /\ DOMAIN q.body \subseteq ColumnsOf(q.target)
       /\ q.was = NoRow => DOMAIN q.body = ColumnsOf(q.target)
       /\ q.was # NoRow => IsRow(q.target, q.was)

InFlight(r) == req[r] # Idle /\ req[r].op # "delete"
Updates(r) == InFlight(r) /\ req[r].was # NoRow

TypeOK ==
  /\ DOMAIN rows = Principals
  /\ \A p \in Principals : Exists(p) => IsRow(p, rows[p])
  /\ used \subseteq Principals
  /\ DOMAIN mailed \subseteq 1 .. MaxLinks
  /\ retired \subseteq Principals \X Credentials \X Nat
  /\ \A s \in sessions : <<s.type, s.sub>> \in Principals
  /\ DOMAIN req = Requests /\ \A r \in Requests : req[r] # Idle => IsRequest(req[r])
  /\ begun \in Nat

(* The value v of the credential c was given out: in a mail, or as one of   *)
(* the passwords chosen so far.                                             *)
GivenOut(ml, n, c, v) == IF c = "password" THEN v < n + 2 ELSE v \in {NoLink} \cup DOMAIN ml

AllGiven ==
  /\ \A p \in Principals : Exists(p) => \A c \in Credentials : GivenOut(mailed, begun, c, rows[p][c])
  /\ \A t \in retired : GivenOut(mailed, begun, t[2], t[3])
  /\ \A r \in Requests : Updates(r) => GivenOut(mailed, begun, "link", req[r].was.link)

(* Ids are used up. *)
UsedUp ==
  /\ \A p \in Principals : Exists(p) => p \in used
  /\ \A t \in retired : t[1] \in used

(* The links of the requests in flight are theirs alone.                    *)
OwnLinks ==
  /\ \A r \in Requests : InFlight(r) =>
       /\ Mails(req[r].body) \in 0 .. MaxLinks /\ Mails(req[r].body) \notin DOMAIN mailed
       /\ \A c \in {"link", "reset"} \cap DOMAIN req[r].body :
            req[r].body[c] \in {NoLink, Mails(req[r].body)}
  /\ \A r, s \in Requests :
       InFlight(r) /\ InFlight(s) /\ r # s /\ Mails(req[r].body) # NoLink =>
         Mails(req[r].body) # Mails(req[s].body)

Chooses(r) == Updates(r) /\ "password" \in DOMAIN req[r].body

(* So are the passwords they will write; a new account starts with one the  *)
(* later choices avoid.                                                     *)
OwnPasswords ==
  /\ \A r \in Requests : InFlight(r) /\ ~ Updates(r) => req[r].body.password < 2
  /\ \A r \in Requests : Chooses(r) =>
       /\ req[r].body.password \in 2 .. begun + 1
       /\ \A p \in Principals : Exists(p) => rows[p].password # req[r].body.password
       /\ \A t \in retired : t[2] = "password" => t[3] # req[r].body.password
       /\ \A s \in Requests : Chooses(s) /\ r # s => req[s].body.password # req[r].body.password

(* What the guards of its endpoint let an update through with.              *)
Admitted(by, may, target, body) ==
  /\ \A flag \in Flags \cap DOMAIN body : Keeper(flag) \in may
  /\ "user_management" \in DOMAIN body /\ ~ body.user_management => target # by
  /\ "is_verified" \in DOMAIN body /\ ~ body.is_verified => "email" \in DOMAIN body
  /\ target \in Users /\ "email" \in DOMAIN body =>
       "link" \in DOMAIN body /\ body.link # NoLink

Guarded ==
  \A r \in Requests : Updates(r) =>
    Admitted(req[r].by, req[r].may, req[r].target, req[r].body)

(* The inductive invariant. *)
Kept ==
  /\ TypeOK
  /\ AllGiven
  /\ UsedUp
  /\ OwnLinks
  /\ OwnPasswords
  /\ Guarded
  /\ LinkMatchesAddress
  /\ ReplacedStaysReplaced

-----------------------------------------------------------------------------
(* Principals, rows and links.                                              *)

LEMMA Apart == Users \cap Customers = {} /\ Principals = Users \cup Customers
BY DEF Users, Customers, User, Customer, Principals

LEMMA NewLinkIsNew ==
  ASSUME TypeOK, OwnLinks
  PROVE  /\ NewLink \in 1 .. MaxLinks + 1 /\ NewLink \notin DOMAIN mailed
         /\ \A r \in Requests : InFlight(r) => Mails(req[r].body) # NewLink
<1>1. MaxLinks \in Nat /\ DOMAIN mailed \subseteq 1 .. MaxLinks
  BY AccountsAssumption DEF TypeOK
<1>2. ASSUME NEW r \in Requests, req[r] # Idle PROVE Mails(req[r].body) \in 0 .. MaxLinks
  <2>1. CASE InFlight(r)
    BY <2>1 DEF OwnLinks
  <2>2. CASE req[r].op = "delete"
    <3>1. DOMAIN req[r].body = {}
      BY <1>2, <2>2 DEF TypeOK, IsRequest
    <3> QED BY <1>1, <3>1 DEF Mails, NoLink
  <2> QED BY <1>2, <2>1, <2>2 DEF InFlight
<1>3. MaxLinks + 1 \in 1 .. MaxLinks + 1 /\ MaxLinks + 1 \notin DOMAIN mailed \cup PendingLinks
  BY <1>1, <1>2 DEF PendingLinks
<1>4. NewLink \in 1 .. MaxLinks + 1 /\ NewLink \notin DOMAIN mailed \cup PendingLinks
  BY <1>3 DEF NewLink
<1>5. ASSUME NEW r \in Requests, InFlight(r), Mails(req[r].body) = NewLink PROVE FALSE
  <2>1. NewLink \in PendingLinks
    BY <1>1, <1>4, <1>5 DEF PendingLinks, InFlight, NoLink
  <2> QED BY <1>4, <2>1
<1> QED BY <1>4, <1>5

(* What a commit that changes anything leaves.                              *)
LEMMA AfterIs ==
  ASSUME TypeOK, NEW r \in Requests, InFlight(r), ~ Refused(req[r]), Changed(req[r]) # {},
         NEW q, q = req[r]
  PROVE  /\ IsRow(q.target, After(q))
         /\ q.was = NoRow => After(q) = q.body /\ q.target \notin used
         /\ q.was # NoRow =>
              /\ Exists(q.target)
              /\ \A c \in ColumnsOf(q.target) :
                   After(q)[c] = IF c \in Changed(q) THEN q.body[c] ELSE rows[q.target][c]
<1>1. IsRequest(q) /\ q.op # "delete"
  BY DEF TypeOK, InFlight
<1>2. CASE q.was = NoRow
  BY <1>1, <1>2 DEF After, Refused, IsRequest, IsRow
<1>3. CASE q.was # NoRow
  <2>1. Exists(q.target)
    BY <1>3 DEF Refused
  <2>2. IsRow(q.target, rows[q.target])
    BY <1>1, <2>1 DEF TypeOK, IsRequest
  <2>3. Changed(q) \subseteq DOMAIN q.body
    BY DEF Changed
  <2>4. Typed(q.body) /\ DOMAIN q.body \subseteq ColumnsOf(q.target)
    BY <1>1 DEF IsRequest
  <2>5. /\ IsRow(q.target, Onto(rows[q.target], Changed(q), q.body))
        /\ \A c \in ColumnsOf(q.target) : Onto(rows[q.target], Changed(q), q.body)[c] =
             IF c \in Changed(q) THEN q.body[c] ELSE rows[q.target][c]
    BY <2>2, <2>3, <2>4 DEF IsRow, Typed, Onto
  <2> QED BY <1>3, <2>1, <2>5 DEF After
<1> QED BY <1>2, <1>3

-----------------------------------------------------------------------------
(* A request leaves, and writes nothing.                                    *)

LEMMA LeavesOK ==
  ASSUME Kept, NEW r \in Requests, req' = [req EXCEPT ![r] = Idle],
         UNCHANGED <<rows, used, mailed, retired, begun>>,
         \A s \in sessions' : <<s.type, s.sub>> \in Principals
  PROVE  Kept'
<1>1. /\ DOMAIN req' = Requests /\ req'[r] = Idle
      /\ \A s \in Requests : s # r => req'[s] = req[s]
  BY DEF Kept, TypeOK
<1>2. \A s \in Requests : req'[s] = Idle \/ req'[s] = req[s]
  BY <1>1
<1>3. TypeOK'
  BY <1>1, <1>2 DEF Kept, TypeOK, Exists
<1>4. AllGiven' /\ UsedUp'
  BY <1>1, <1>2 DEF Kept, AllGiven, UsedUp, Exists, Updates, InFlight
<1>5. OwnLinks'
  BY <1>1, <1>2 DEF Kept, OwnLinks, InFlight
<1>6. OwnPasswords'
  BY <1>1, <1>2 DEF Kept, OwnPasswords, Chooses, Updates, InFlight, Exists
<1>7. Guarded'
  BY <1>1, <1>2 DEF Kept, Guarded, Updates, InFlight
<1>8. LinkMatchesAddress' /\ ReplacedStaysReplaced'
  BY DEF Kept, LinkMatchesAddress, ReplacedStaysReplaced, Exists
<1> QED BY <1>3, <1>4, <1>5, <1>6, <1>7, <1>8 DEF Kept

LEMMA SessionsOK ==
  ASSUME Kept, UNCHANGED <<rows, used, mailed, retired, req, begun>>,
         \A s \in sessions' : <<s.type, s.sub>> \in Principals
  PROVE  Kept'
<1>1. TypeOK'
  BY DEF Kept, TypeOK, Exists
<1>2. AllGiven' /\ UsedUp' /\ OwnLinks'
  BY DEF Kept, AllGiven, UsedUp, OwnLinks, Exists, Updates, InFlight
<1>3. OwnPasswords' /\ Guarded'
  BY DEF Kept, OwnPasswords, Guarded, Chooses, Exists, Updates, InFlight
<1>4. LinkMatchesAddress' /\ ReplacedStaysReplaced'
  BY DEF Kept, LinkMatchesAddress, ReplacedStaysReplaced, Exists
<1> QED BY <1>1, <1>2, <1>3, <1>4 DEF Kept

-----------------------------------------------------------------------------
(* A request comes in.                                                      *)

May(by) == {f \in PERMISSION_NAMES : by \in Users /\ rows[by][f]}

(* What an endpoint hands to Admit.                                         *)
Fit(op, by, target, body) ==
  /\ target \in Principals
  /\ op = "delete" => target \in Customers /\ DOMAIN body = {}
  /\ op # "delete" =>
       /\ Typed(body) /\ DOMAIN body \subseteq ColumnsOf(target)
       /\ Mails(body) \in {NoLink, NewLink}
       /\ \A c \in {"link", "reset"} \cap DOMAIN body : body[c] \in {NoLink, Mails(body)}
       /\ rows[target] = NoRow => DOMAIN body = ColumnsOf(target) /\ body.password < 2
       /\ rows[target] # NoRow =>
            /\ "password" \in DOMAIN body => body.password = NewPassword
            /\ Admitted(by, May(by), target, body)

LEMMA AdmitOK ==
  ASSUME Kept, NEW r \in Requests, NEW op, NEW by, NEW target, NEW body,
         Admit(r, op, by, target, body), Fit(op, by, target, body)
  PROVE  Kept'
<1> DEFINE q == [op |-> op, by |-> by, may |-> May(by), target |-> target, body |-> body,
                 was |-> rows[target]]
<1>1. /\ q.op = op /\ q.by = by /\ q.may = May(by) /\ q.target = target /\ q.body = body
      /\ q.was = rows[target] /\ q # Idle
  BY DEF Idle
<1>2. /\ req' = [req EXCEPT ![r] = q] /\ begun' = begun + 1 /\ Mails(body) <= MaxLinks
      /\ UNCHANGED <<rows, used, mailed, retired, sessions>>
  BY DEF Admit, May
<1> HIDE DEF q
<1>3. /\ TypeOK /\ DOMAIN req' = Requests /\ req'[r] = q /\ begun \in Nat
      /\ \A s \in Requests : s # r => req'[s] = req[s]
  BY <1>2 DEF Kept, TypeOK
<1>4. IsRequest(q)
  <2>1. rows[target] # NoRow => IsRow(target, rows[target])
    BY <1>3 DEF Fit, TypeOK, Exists
  <2> QED BY <1>1, <2>1 DEF Fit, IsRequest
<1>5. TypeOK'
  BY <1>2, <1>3, <1>4 DEF TypeOK, Exists
<1>6. \A c : \A v \in Nat : GivenOut(mailed, begun, c, v) => GivenOut(mailed, begun + 1, c, v)
  BY <1>3 DEF GivenOut
<1>7. AllGiven'
  <2>1. ASSUME NEW p \in Principals, Exists(p), NEW c \in Credentials
        PROVE  GivenOut(mailed, begun + 1, c, rows[p][c])
    <3>1. rows[p][c] \in Nat
      BY <1>3, <2>1 DEF TypeOK, IsRow, Typed, ColumnsOf, StaffColumns, CustomerColumns, Value,
            Credentials
    <3> QED BY <1>6, <2>1, <3>1 DEF Kept, AllGiven
  <2>2. ASSUME NEW t \in retired PROVE GivenOut(mailed, begun + 1, t[2], t[3])
    BY <1>3, <1>6, <2>2 DEF Kept, AllGiven, TypeOK
  <2>3. ASSUME NEW s \in Requests, Updates(s)'
        PROVE  GivenOut(mailed, begun + 1, "link", req'[s].was.link)
    <3>1. CASE s # r
      <4>1. Updates(s) /\ req'[s].was = req[s].was
        BY <1>3, <2>3, <3>1 DEF Updates, InFlight
      <4>2. req[s].was.link \in Nat
        BY <1>3, <4>1 DEF TypeOK, IsRequest, Updates, InFlight, IsRow, Typed, ColumnsOf,
              StaffColumns, CustomerColumns, Value, Credentials
      <4> QED BY <1>6, <4>1, <4>2 DEF Kept, AllGiven
    <3>2. CASE s = r
      <4>1. target \in Principals /\ Exists(target) /\ req'[s].was = rows[target]
        BY <1>1, <1>3, <2>3, <3>2 DEF Updates, InFlight, Exists, Fit
      <4> QED BY <2>1, <4>1 DEF Credentials
    <3> QED BY <3>1, <3>2
  <2> QED BY <1>2, <2>1, <2>2, <2>3 DEF AllGiven, Exists
<1>8. UsedUp'
  BY <1>2 DEF Kept, UsedUp, Exists
<1>9. OwnLinks'
  <2>1. /\ NewLink \in 1 .. MaxLinks + 1 /\ NewLink \notin DOMAIN mailed
        /\ \A s \in Requests : InFlight(s) => Mails(req[s].body) # NewLink
    BY NewLinkIsNew DEF Kept
  <2>2. NoLink \notin DOMAIN mailed /\ MaxLinks \in Nat /\ NoLink = 0
    BY <1>3, AccountsAssumption DEF TypeOK, NoLink
  <2>3. \A s \in Requests \ {r} : InFlight(s)' => InFlight(s) /\ req'[s] = req[s]
    BY <1>3 DEF InFlight
  <2>4. InFlight(r)' => /\ req'[r].body = body /\ Mails(body) \in {NoLink, NewLink}
                        /\ \A c \in {"link", "reset"} \cap DOMAIN body :
                             body[c] \in {NoLink, Mails(body)}
    BY <1>1, <1>3 DEF InFlight, Fit
  <2>5. ASSUME NEW s \in Requests, InFlight(s)'
        PROVE  /\ Mails(req'[s].body) \in 0 .. MaxLinks /\ Mails(req'[s].body) \notin DOMAIN mailed
               /\ \A c \in {"link", "reset"} \cap DOMAIN req'[s].body :
                    req'[s].body[c] \in {NoLink, Mails(req'[s].body)}
    <3>1. CASE s # r
      BY <2>3, <2>5, <3>1 DEF Kept, OwnLinks
    <3>2. CASE s = r
      BY <1>2, <2>1, <2>2, <2>4, <2>5, <3>2
    <3> QED BY <3>1, <3>2
  <2>6. ASSUME NEW s \in Requests, NEW t \in Requests, InFlight(s)', InFlight(t)', s # t,
               Mails(req'[s].body) # NoLink
        PROVE  Mails(req'[s].body) # Mails(req'[t].body)
    <3>1. CASE s # r /\ t # r
      BY <2>3, <2>6, <3>1 DEF Kept, OwnLinks
    <3>2. CASE s = r
      BY <2>1, <2>3, <2>4, <2>6, <3>2
    <3>3. CASE t = r
      BY <2>1, <2>3, <2>4, <2>6, <3>3
    <3> QED BY <3>1, <3>2, <3>3
  <2> QED BY <1>2, <2>5, <2>6 DEF OwnLinks
<1>10. OwnPasswords'
  <2>1. \A s \in Requests \ {r} : /\ InFlight(s)' => InFlight(s) /\ req'[s] = req[s]
                                  /\ Updates(s)' <=> Updates(s)
                                  /\ Chooses(s)' => Chooses(s)
    BY <1>3 DEF InFlight, Updates, Chooses
  <2>2. InFlight(r)' /\ ~ Updates(r)' => req'[r].body.password < 2
    BY <1>1, <1>3 DEF InFlight, Updates, Fit
  <2>3. Chooses(r)' => req'[r].body.password = begun + 2
    BY <1>1, <1>3 DEF InFlight, Updates, Chooses, Fit, NewPassword
  <2>4. \A s \in Requests \ {r} : Chooses(s)' =>
          /\ req'[s].body.password \in 2 .. begun + 1
          /\ \A p \in Principals : Exists(p) => rows[p].password # req'[s].body.password
          /\ \A t \in retired : t[2] = "password" => t[3] # req'[s].body.password
          /\ \A t \in Requests \ {r} : Chooses(t)' /\ s # t =>
               req'[t].body.password # req'[s].body.password
    <3> SUFFICES ASSUME NEW s \in Requests \ {r}, Chooses(s)'
        PROVE  /\ req'[s].body.password \in 2 .. begun + 1
               /\ \A p \in Principals : Exists(p) => rows[p].password # req'[s].body.password
               /\ \A t \in retired : t[2] = "password" => t[3] # req'[s].body.password
               /\ \A t \in Requests \ {r} : Chooses(t)' /\ s # t =>
                    req'[t].body.password # req'[s].body.password
      OBVIOUS
    <3>1. Chooses(s) /\ req'[s] = req[s]
      BY <1>3, <2>1
    <3>2. \A t \in Requests \ {r} : Chooses(t)' => Chooses(t) /\ req'[t] = req[t]
      BY <1>3, <2>1
    <3> QED BY <3>1, <3>2 DEF Kept, OwnPasswords
  <2>5. /\ \A p \in Principals : Exists(p) => rows[p].password < begun + 2
        /\ \A t \in retired : t[2] = "password" => t[3] < begun + 2
    BY <1>3 DEF Kept, AllGiven, GivenOut, Credentials
  <2>6. \A p \in Principals : Exists(p) => rows[p].password \in Nat
    BY <1>3 DEF TypeOK, IsRow, Typed, ColumnsOf, StaffColumns, CustomerColumns, Value, Credentials
  <2>7. \A t \in retired : t[3] \in Nat
    BY <1>3 DEF TypeOK
  <2>8. ASSUME NEW s \in Requests, InFlight(s)', ~ Updates(s)'
        PROVE  req'[s].body.password < 2
    <3>1. CASE s = r
      BY <2>2, <2>8, <3>1
    <3>2. CASE s # r
      BY <2>1, <2>8, <3>2 DEF Kept, OwnPasswords
    <3> QED BY <3>1, <3>2
  <2>9. ASSUME NEW s \in Requests, Chooses(s)'
        PROVE  /\ req'[s].body.password \in 2 .. begun + 2
               /\ \A p \in Principals : Exists(p) => rows[p].password # req'[s].body.password
               /\ \A t \in retired : t[2] = "password" => t[3] # req'[s].body.password
               /\ \A t \in Requests : Chooses(t)' /\ s # t =>
                    req'[t].body.password # req'[s].body.password
    <3>1. CASE s = r
      BY <1>3, <2>3, <2>4, <2>5, <2>6, <2>7, <2>9, <3>1
    <3>2. CASE s # r
      BY <1>3, <2>3, <2>4, <2>9, <3>2
    <3> QED BY <3>1, <3>2
  <2> QED BY <1>2, <1>3, <2>8, <2>9 DEF OwnPasswords, Exists
<1>11. Guarded'
  <2>1. \A s \in Requests \ {r} : Updates(s)' => Updates(s) /\ req'[s] = req[s]
    BY <1>3 DEF InFlight, Updates
  <2>2. Updates(r)' => Admitted(by, May(by), target, body)
    BY <1>1, <1>3 DEF InFlight, Updates, Fit
  <2> QED BY <1>1, <1>3, <2>1, <2>2 DEF Kept, Guarded
<1>12. LinkMatchesAddress' /\ ReplacedStaysReplaced'
  BY <1>2 DEF Kept, LinkMatchesAddress, ReplacedStaysReplaced, Exists
<1> QED BY <1>5, <1>7, <1>8, <1>9, <1>10, <1>11, <1>12 DEF Kept

-----------------------------------------------------------------------------
(* A request commits.                                                       *)

(* The credential a commit writes is a new one.                             *)
LEMMA WritesNew ==
  ASSUME Kept, NEW r \in Requests, Updates(r), NEW q, q = req[r],
         NEW c \in Credentials \cap DOMAIN q.body, q.body[c] # 0
  PROVE  /\ \A p \in Principals : Exists(p) => rows[p][c] # q.body[c]
         /\ \A t \in retired : t[2] = c => t[3] # q.body[c]
<1>1. CASE c = "password"
  BY <1>1 DEF Kept, OwnPasswords, Chooses
<1>2. CASE c # "password"
  <2>1. q.body[c] \notin {NoLink} \cup DOMAIN mailed
    BY <1>2 DEF Kept, OwnLinks, Updates, Credentials, NoLink
  <2> QED BY <1>2, <2>1 DEF Kept, AllGiven, GivenOut
<1> QED BY <1>1, <1>2

LEMMA WritesOK ==
  ASSUME Kept, NEW r \in Requests, Commit(r), Changed(req[r]) # {} PROVE Kept'
<1> DEFINE q == req[r]
           new == After(q)
           n == Mails(q.body)
           address == MailedTo(q)
           p == q.target
           gone == Replaced(q)
           columns == Changed(q)
<1>1. /\ TypeOK /\ InFlight(r) /\ ~ Refused(q) /\ IsRequest(q) /\ p \in Principals
      /\ Typed(q.body) /\ DOMAIN q.body \subseteq ColumnsOf(p)
  BY DEF Kept, TypeOK, Commit, InFlight, IsRequest
<1>2. /\ IsRow(p, new)
      /\ q.was = NoRow => new = q.body /\ p \notin used
      /\ q.was # NoRow =>
           /\ Exists(p)
           /\ \A c \in ColumnsOf(p) : new[c] = IF c \in columns THEN q.body[c] ELSE rows[p][c]
  BY <1>1, AfterIs
<1>3. /\ columns \subseteq DOMAIN q.body
      /\ q.was # NoRow => columns = {c \in DOMAIN q.body : q.was[c] # q.body[c]}
      /\ columns # {}
  BY DEF Changed
<1>4. /\ gone = IF q.was = NoRow THEN {} ELSE {<<p, c, rows[p][c]>> : c \in Credentials \cap columns}
      /\ address = new.email
  BY DEF Replaced, MailedTo
<1>5. /\ n \in 0 .. MaxLinks /\ n \notin DOMAIN mailed
      /\ \A c \in {"link", "reset"} \cap DOMAIN q.body : q.body[c] \in {NoLink, n}
  BY <1>1 DEF Kept, OwnLinks
<1>6. /\ rows' = [rows EXCEPT ![p] = new] /\ used' = used \cup {p}
      /\ retired' = retired \cup gone /\ begun' = begun
      /\ mailed' = [k \in DOMAIN mailed \cup ({n} \ {NoLink}) |-> IF k = n THEN address ELSE mailed[k]]
      /\ req' = [req EXCEPT ![r] = Idle]
      /\ sessions' \subseteq sessions \cup {create_access_token(p)}
  BY <1>3 DEF Commit, SignIn
<1>7. /\ <<create_access_token(p).type, create_access_token(p).sub>> = p
  BY <1>1 DEF create_access_token, Principals, Users, Customers, User, Customer
<1>8. q.was # NoRow => Updates(r)
  BY <1>1 DEF Updates
<1> HIDE DEF q, new, n, address, p, gone, columns
<1>9. /\ rows'[p] = new /\ DOMAIN rows' = Principals
      /\ \A u \in Principals : u # p => rows'[u] = rows[u]
      /\ DOMAIN req' = Requests /\ req'[r] = Idle
      /\ \A s \in Requests : s # r => req'[s] = req[s]
      /\ \A s \in Requests : req'[s] # Idle => s # r
      /\ \A s \in Requests : InFlight(s)' => s # r /\ InFlight(s) /\ req'[s] = req[s]
      /\ \A s \in Requests : Updates(s)' => s # r /\ Updates(s) /\ req'[s] = req[s]
      /\ \A s \in Requests : Chooses(s)' => s # r /\ Chooses(s) /\ req'[s] = req[s]
      /\ \A s \in Requests : InFlight(s)' /\ ~ Updates(s)' => ~ Updates(s)
  BY <1>1, <1>6 DEF TypeOK, InFlight, Updates, Chooses
<1>10. /\ DOMAIN mailed' = DOMAIN mailed \cup ({n} \ {NoLink})
       /\ n # NoLink => mailed'[n] = address
       /\ \A k \in DOMAIN mailed : mailed'[k] = mailed[k]
  BY <1>5, <1>6
<1>11. Credentials \subseteq ColumnsOf(p)
  BY DEF ColumnsOf, StaffColumns, CustomerColumns
<1>12. /\ \A c \in Credentials : new[c] \in Nat
       /\ q.was # NoRow => \A c \in Credentials : rows[p][c] \in Nat
  <2>1. \A row : IsRow(p, row) => \A c \in Credentials : row[c] \in Nat
    BY <1>11 DEF IsRow, Typed, Value, Credentials
  <2> QED BY <1>1, <1>2, <2>1 DEF TypeOK
<1>13. TypeOK'
  <2>1. \A u \in Principals : Exists(u)' => IsRow(u, rows'[u])
    BY <1>1, <1>2, <1>9 DEF TypeOK, Exists
  <2>2. DOMAIN mailed' \subseteq 1 .. MaxLinks
    BY <1>1, <1>5, <1>10, AccountsAssumption DEF TypeOK, NoLink
  <2>3. retired' \subseteq Principals \X Credentials \X Nat
    BY <1>1, <1>4, <1>6, <1>12 DEF TypeOK
  <2>4. \A s \in sessions' : <<s.type, s.sub>> \in Principals
    BY <1>1, <1>6, <1>7 DEF TypeOK
  <2>5. \A s \in Requests : req'[s] # Idle => IsRequest(req'[s])
    BY <1>1, <1>9 DEF TypeOK
  <2> QED BY <1>1, <1>6, <1>9, <2>1, <2>2, <2>3, <2>4, <2>5 DEF TypeOK
<1>14. \A c, v : GivenOut(mailed, begun, c, v) => GivenOut(mailed', begun', c, v)
  BY <1>6, <1>10 DEF GivenOut
<1>15. ASSUME NEW c \in Credentials PROVE GivenOut(mailed', begun', c, new[c])
  <2>1. CASE q.was # NoRow /\ c \notin columns
    BY <1>1, <1>2, <1>11, <1>14, <2>1 DEF Kept, AllGiven
  <2>2. CASE q.was = NoRow \/ c \in columns
    <3>1. c \in DOMAIN q.body /\ new[c] = q.body[c]
      BY <1>1, <1>2, <1>3, <1>11, <2>2 DEF IsRow
    <3>2. CASE c = "password"
      <4>1. q.body.password < begun + 2
        <5>1. CASE q.was = NoRow
          <6>1. q.body.password < 2 /\ begun \in Nat /\ q.body.password \in Nat
            BY <1>1, <1>12, <3>1, <3>2, <5>1 DEF Kept, OwnPasswords, Updates, TypeOK, q
          <6> QED BY <6>1
        <5>2. CASE q.was # NoRow
          <6>1. Chooses(r)
            BY <1>8, <3>1, <3>2, <5>2 DEF Chooses, q
          <6>2. q.body.password \in 2 .. begun + 1 /\ begun \in Nat
            BY <1>1, <6>1 DEF Kept, OwnPasswords, TypeOK, q
          <6> QED BY <6>2
        <5> QED BY <5>1, <5>2
      <4> QED BY <1>6, <3>1, <3>2, <4>1 DEF GivenOut
    <3>3. CASE c # "password"
      BY <1>5, <1>10, <3>1, <3>3 DEF GivenOut, Credentials
    <3> QED BY <3>2, <3>3
  <2> QED BY <2>1, <2>2
<1>16. AllGiven'
  <2>1. ASSUME NEW u \in Principals, Exists(u)', NEW c \in Credentials
        PROVE  GivenOut(mailed', begun', c, rows'[u][c])
    BY <1>9, <1>14, <1>15, <2>1 DEF Kept, AllGiven, Exists
  <2>2. ASSUME NEW t \in retired' PROVE GivenOut(mailed', begun', t[2], t[3])
    <3>1. CASE t \in retired
      BY <1>14, <3>1 DEF Kept, AllGiven
    <3>2. CASE t \in gone
      <4>1. PICK c \in Credentials : t = <<p, c, rows[p][c]>>
        BY <1>4, <3>2
      <4>2. Exists(p)
        BY <1>2, <1>4, <3>2
      <4>3. GivenOut(mailed, begun, c, rows[p][c])
        BY <1>1, <4>2 DEF Kept, AllGiven
      <4> QED BY <1>14, <4>1, <4>3
    <3> QED BY <1>6, <2>2, <3>1, <3>2
  <2>3. ASSUME NEW s \in Requests, Updates(s)' PROVE GivenOut(mailed', begun', "link", req'[s].was.link)
    BY <1>9, <1>14, <2>3 DEF Kept, AllGiven
  <2> QED BY <2>1, <2>2, <2>3 DEF AllGiven
<1>17. UsedUp'
  <2>1. \A t \in retired' : t \in retired \/ t[1] = p
    BY <1>4, <1>6
  <2> QED BY <1>6, <1>9, <2>1 DEF Kept, UsedUp, Exists
<1>18. OwnLinks'
  <2>1. ASSUME NEW s \in Requests, InFlight(s)' PROVE Mails(req'[s].body) \notin DOMAIN mailed'
    <3>1. s # r /\ InFlight(s) /\ req'[s] = req[s] /\ Mails(req[s].body) \notin DOMAIN mailed
      BY <1>9, <2>1 DEF Kept, OwnLinks
    <3>2. n # NoLink => n # Mails(req[s].body)
      BY <1>1, <3>1 DEF Kept, OwnLinks, n, q
    <3> QED BY <1>10, <3>1, <3>2
  <2> QED BY <1>9, <2>1 DEF Kept, OwnLinks
<1>19. OwnPasswords'
  <2>1. ASSUME NEW s \in Requests, Chooses(s)'
        PROVE  /\ \A u \in Principals : Exists(u)' => rows'[u].password # req'[s].body.password
               /\ \A t \in retired' : t[2] = "password" => t[3] # req'[s].body.password
    <3>1. s # r /\ Chooses(s) /\ req'[s] = req[s] /\ req[s].body.password \in 2 .. begun + 1
      BY <1>9, <2>1 DEF Kept, OwnPasswords
    <3>2. \A u \in Principals : Exists(u) => rows[u].password # req[s].body.password
      BY <3>1 DEF Kept, OwnPasswords
    <3>3. new.password # req[s].body.password
      <4>1. CASE q.was = NoRow
        <5>1. new.password < 2
          BY <1>1, <1>2, <4>1 DEF Kept, OwnPasswords, Updates, q
        <5> QED BY <1>1, <3>1, <5>1 DEF TypeOK
      <4>2. CASE q.was # NoRow /\ "password" \in columns
        <5>1. Chooses(r) /\ new.password = q.body.password
          BY <1>2, <1>3, <1>8, <1>11, <4>2 DEF Chooses, Credentials, q
        <5> QED BY <3>1, <5>1 DEF Kept, OwnPasswords, q
      <4>3. CASE q.was # NoRow /\ "password" \notin columns
        BY <1>1, <1>2, <1>11, <3>2, <4>3 DEF Credentials
      <4> QED BY <4>1, <4>2, <4>3
    <3>4. \A u \in Principals : Exists(u)' => rows'[u].password # req'[s].body.password
      BY <1>9, <3>1, <3>2, <3>3 DEF Exists
    <3>5. \A t \in retired' : t \in retired \/ (Exists(p) /\ t[3] = rows[p][t[2]])
      BY <1>2, <1>4, <1>6
    <3>6. \A t \in retired' : t[2] = "password" => t[3] # req'[s].body.password
      BY <1>1, <3>1, <3>2, <3>5 DEF Kept, OwnPasswords
    <3> QED BY <3>4, <3>6
  <2> QED BY <1>6, <1>9, <2>1 DEF Kept, OwnPasswords
<1>20. Guarded'
  BY <1>9 DEF Kept, Guarded
<1>21. LinkMatchesAddress'
  <2>1. ASSUME NEW u \in Users, Exists(u)', rows'[u].link # NoLink, u # p
        PROVE  rows'[u].link \in DOMAIN mailed' /\ mailed'[rows'[u].link] = rows'[u].email
    BY <1>9, <1>10, <2>1, Apart DEF Kept, LinkMatchesAddress, Exists
  <2>2. ASSUME p \in Users, new.link # NoLink
        PROVE  new.link \in DOMAIN mailed' /\ mailed'[new.link] = new.email
    <3>1. CASE q.was = NoRow \/ "link" \in columns
      <4>1. "link" \in DOMAIN q.body /\ new.link = q.body.link
        BY <1>1, <1>2, <1>3, <1>11, <3>1 DEF IsRow, Credentials
      <4> QED BY <1>4, <1>5, <1>10, <2>2, <4>1
    <3>2. CASE q.was # NoRow /\ "link" \notin columns
      <4>1. new.link = rows[p].link /\ Exists(p)
        BY <1>2, <1>11, <3>2 DEF Credentials
      <4>2. "email" \notin columns
        <5> SUFFICES ASSUME "email" \in columns PROVE FALSE
          OBVIOUS
        <5>1. "email" \in DOMAIN q.body /\ Updates(r)
          BY <1>3, <1>8, <3>2
        <5>2. Admitted(q.by, q.may, p, q.body)
          BY <5>1 DEF Kept, Guarded, q, p
        <5>3. "link" \in DOMAIN q.body /\ q.body.link # NoLink
          BY <2>2, <5>1, <5>2 DEF Admitted
        <5>4. GivenOut(mailed, begun, "link", q.was.link)
          BY <5>1 DEF Kept, AllGiven, q
        <5>5. q.was.link # q.body.link
          BY <1>5, <5>3, <5>4 DEF GivenOut
        <5> QED BY <1>3, <3>2, <5>3, <5>5
      <4>3. new.email = rows[p].email
        BY <1>2, <3>2, <4>2 DEF ColumnsOf, StaffColumns, CustomerColumns
      <4> QED BY <1>10, <2>2, <4>1, <4>3 DEF Kept, LinkMatchesAddress
    <3> QED BY <3>1, <3>2
  <2> QED BY <1>9, <2>1, <2>2 DEF LinkMatchesAddress
<1>22. ReplacedStaysReplaced'
  <2>1. ASSUME NEW u \in Principals, Exists(u)', u # p, NEW c \in Credentials, rows'[u][c] # 0
        PROVE  <<u, c, rows'[u][c]>> \notin retired'
    <3>1. <<u, c, rows'[u][c]>> \notin gone
      BY <1>4, <2>1
    <3> QED BY <1>6, <1>9, <2>1, <3>1 DEF Kept, ReplacedStaysReplaced, Exists
  <2>2. ASSUME NEW c \in Credentials, new[c] # 0
        PROVE  <<p, c, new[c]>> \notin retired'
    <3>1. CASE q.was = NoRow
      <4>1. <<p, c, new[c]>> \notin retired
        BY <1>2, <3>1 DEF Kept, UsedUp
      <4> QED BY <1>4, <1>6, <3>1, <4>1
    <3>2. CASE q.was # NoRow /\ c \in columns
      <4>1. Updates(r) /\ Exists(p) /\ new[c] = q.body[c] /\ c \in DOMAIN q.body
        BY <1>2, <1>3, <1>8, <1>11, <3>2
      <4>2. /\ \A u \in Principals : Exists(u) => rows[u][c] # q.body[c]
            /\ \A t \in retired : t[2] = c => t[3] # q.body[c]
        BY <2>2, <4>1, WritesNew DEF q
      <4>3. <<p, c, new[c]>> \notin gone
        BY <1>1, <1>4, <4>1, <4>2
      <4> QED BY <1>6, <4>1, <4>2, <4>3
    <3>3. CASE q.was # NoRow /\ c \notin columns
      <4>1. Exists(p) /\ new[c] = rows[p][c]
        BY <1>2, <1>11, <3>3
      <4>2. <<p, c, new[c]>> \notin gone
        BY <1>4, <3>3
      <4> QED BY <1>1, <1>6, <2>2, <4>1, <4>2 DEF Kept, ReplacedStaysReplaced
    <3> QED BY <3>1, <3>2, <3>3
  <2> QED BY <1>9, <2>1, <2>2 DEF ReplacedStaysReplaced
<1> QED BY <1>13, <1>16, <1>17, <1>18, <1>19, <1>20, <1>21, <1>22 DEF Kept

LEMMA CommitOK == ASSUME Kept, NEW r \in Requests, Commit(r) PROVE Kept'
<1>1. CASE Changed(req[r]) = {}
  <2>1. /\ req' = [req EXCEPT ![r] = Idle] /\ UNCHANGED <<rows, used, mailed, retired, begun>>
        /\ sessions' \subseteq sessions \cup {create_access_token(req[r].target)}
    BY <1>1 DEF Commit, SignIn
  <2>2. req[r].target \in Principals
    BY DEF Kept, TypeOK, Commit, IsRequest
  <2>3. <<create_access_token(req[r].target).type, create_access_token(req[r].target).sub>>
          = req[r].target
    BY <2>2 DEF create_access_token, Principals, Users, Customers, User, Customer
  <2>4. \A s \in sessions' : <<s.type, s.sub>> \in Principals
    BY <2>1, <2>2, <2>3 DEF Kept, TypeOK
  <2> QED BY <2>1, <2>4, LeavesOK
<1>2. CASE Changed(req[r]) # {}
  BY <1>2, WritesOK
<1> QED BY <1>1, <1>2

LEMMA CommitDeleteOK == ASSUME Kept, NEW r \in Requests, CommitDelete(r) PROVE Kept'
<1>1. /\ req[r] # Idle /\ req[r].op = "delete" /\ rows' = [rows EXCEPT ![req[r].target] = NoRow]
      /\ req' = [req EXCEPT ![r] = Idle] /\ UNCHANGED <<used, mailed, retired, sessions, begun>>
  BY DEF CommitDelete
<1>2. /\ DOMAIN req' = Requests /\ DOMAIN rows' = Principals
      /\ \A s \in Requests : req'[s] = Idle \/ req'[s] = req[s]
      /\ \A p \in Principals : Exists(p)' => Exists(p) /\ rows'[p] = rows[p]
  BY <1>1 DEF Kept, TypeOK, Exists
<1>3. TypeOK'
  BY <1>1, <1>2 DEF Kept, TypeOK
<1>4. AllGiven' /\ UsedUp'
  BY <1>1, <1>2 DEF Kept, AllGiven, UsedUp, Updates, InFlight
<1>5. OwnLinks'
  BY <1>1, <1>2 DEF Kept, OwnLinks, InFlight
<1>6. OwnPasswords'
  BY <1>1, <1>2 DEF Kept, OwnPasswords, Chooses, Updates, InFlight
<1>7. Guarded'
  BY <1>1, <1>2 DEF Kept, Guarded, Updates, InFlight
<1>8. LinkMatchesAddress' /\ ReplacedStaysReplaced'
  BY <1>1, <1>2, Apart DEF Kept, LinkMatchesAddress, ReplacedStaysReplaced
<1> QED BY <1>3, <1>4, <1>5, <1>6, <1>7, <1>8 DEF Kept

LEMMA CommitNextOK == ASSUME Kept, CommitNext PROVE Kept'
<1>1. PICK r \in Requests : Commit(r) \/ CommitDelete(r) \/ Fail(r)
  BY DEF CommitNext
<1>2. CASE Fail(r)
  <2>1. /\ req' = [req EXCEPT ![r] = Idle] /\ UNCHANGED <<rows, used, mailed, retired, begun>>
        /\ sessions' = sessions
    BY <1>2 DEF Fail
  <2>2. \A s \in sessions' : <<s.type, s.sub>> \in Principals
    BY <2>1 DEF Kept, TypeOK
  <2> QED BY <2>1, <2>2, LeavesOK
<1> QED BY <1>1, <1>2, CommitOK, CommitDeleteOK

LEMMA SessionNextOK == ASSUME Kept, SessionNext PROVE Kept'
<1>1. \A p \in Principals : <<create_access_token(p).type, create_access_token(p).sub>> = p
  BY DEF create_access_token, Principals, Users, Customers, User, Customer
<1>2. /\ \A p \in Principals : Login(p) \/ CustomerLogin(p) =>
           /\ UNCHANGED <<rows, used, mailed, retired, req, begun>>
           /\ sessions' = sessions \cup {create_access_token(p)}
      /\ \A s \in sessions : Expire(s) =>
           /\ UNCHANGED <<rows, used, mailed, retired, req, begun>>
           /\ sessions' = sessions \ {s}
      /\ \A s \in sessions : Refresh(s) =>
           /\ UNCHANGED <<rows, used, mailed, retired, req, begun>>
           /\ \E p \in Principals : sessions' = sessions \cup {create_access_token(p)}
  <2>1. \A s \in sessions : \A p \in VerifiedCustomer(s) : p = <<s.type, s.sub>>
    BY DEF VerifiedCustomer, CurrentCustomer, Verified, Current, PrincipalOf
  <2>2. \A s \in sessions : <<s.type, s.sub>> \in Principals
    BY DEF Kept, TypeOK
  <2> QED BY <2>1, <2>2 DEF Login, CustomerLogin, SignIn, Expire, Refresh
<1>3. /\ UNCHANGED <<rows, used, mailed, retired, req, begun>>
      /\ \A s \in sessions' : <<s.type, s.sub>> \in Principals
  <2>1. \A s \in sessions : <<s.type, s.sub>> \in Principals
    BY DEF Kept, TypeOK
  <2> QED BY <1>1, <1>2, <2>1 DEF SessionNext
<1> QED BY <1>3, SessionsOK

-----------------------------------------------------------------------------
(* What each endpoint lets in is fit.                                       *)

LEMMA Sessions ==
  ASSUME TypeOK, NEW s \in sessions
  PROVE  /\ \A p \in CurrentUser(s) : p \in Users /\ Exists(p)
         /\ \A p \in CurrentCustomer(s) : p \in Customers /\ Exists(p)
<1>1. <<s.type, s.sub>> \in Principals
  BY DEF TypeOK
<1>2. /\ s.type = "user" => <<s.type, s.sub>> \in Users
      /\ s.type = "customer" => <<s.type, s.sub>> \in Customers
  BY <1>1 DEF Principals, Users, Customers, User, Customer
<1> QED BY <1>2 DEF CurrentUser, CurrentCustomer, Current, PrincipalOf

LEMMA HoldersAre ==
  ASSUME TypeOK, NEW s \in sessions, NEW f \in PERMISSION_NAMES, NEW by \in Holds(s, f)
  PROVE  by \in Users /\ Exists(by) /\ f \in May(by)
BY Sessions DEF Holds, Verified, May

(* Confirming or mailing a link, choosing a password. *)
LEMMA LinksFit ==
  ASSUME Kept, NEW p \in Principals, Exists(p), NEW by, NEW op, op # "delete",
         NEW body \in {[is_verified |-> TRUE, link |-> NoLink], [link |-> NewLink],
                       [reset |-> NewLink], [password |-> NewPassword],
                       [password |-> NewPassword, reset |-> NoLink], <<>>}
  PROVE  Fit(op, by, p, body)
<1>1. NewLink \in Nat /\ NewPassword \in Nat /\ NoLink \in Nat
  BY NewLinkIsNew, AccountsAssumption DEF Kept, TypeOK, NewPassword, NoLink
<1>2. /\ "email" \notin DOMAIN body /\ "user_management" \notin DOMAIN body
      /\ Flags \cap DOMAIN body = {}
      /\ DOMAIN body \subseteq {"is_verified", "link", "reset", "password"}
      /\ "is_verified" \in DOMAIN body => body.is_verified
  BY DEF Flags, PERMISSION_NAMES
<1>3. DOMAIN body \subseteq ColumnsOf(p)
  BY <1>2 DEF ColumnsOf, StaffColumns, CustomerColumns, Credentials
<1>4. Typed(body)
  <2>1. /\ {"link", "reset", "password"} \subseteq Credentials /\ "is_verified" \notin Credentials
        /\ "email" \notin Credentials
    BY DEF Credentials
  <2>2. /\ "is_verified" \in DOMAIN body => body["is_verified"] = TRUE
        /\ "link" \in DOMAIN body => body["link"] \in Nat
        /\ "reset" \in DOMAIN body => body["reset"] \in Nat
        /\ "password" \in DOMAIN body => body["password"] \in Nat
    BY <1>1
  <2>3. \A c \in DOMAIN body : c \in {"is_verified", "link", "reset", "password"}
    BY <1>2
  <2>4. \A c \in DOMAIN body :
          \/ c \in Credentials /\ body[c] \in Nat
          \/ c = "is_verified" /\ body[c] = TRUE
    <3> SUFFICES ASSUME NEW c \in DOMAIN body
                 PROVE  \/ c \in Credentials /\ body[c] \in Nat
                        \/ c = "is_verified" /\ body[c] = TRUE
      OBVIOUS
    <3>1. CASE c = "is_verified"
      BY <2>2, <3>1, Zenon
    <3>2. CASE c \in {"link", "reset", "password"}
      BY <2>1, <2>2, <3>2
    <3> QED BY <2>3, <3>1, <3>2
  <2> QED BY <2>1, <2>4, Zenon DEF Typed, Value
<1>5. /\ Mails(body) \in {NoLink, NewLink}
      /\ \A c \in {"link", "reset"} \cap DOMAIN body : body[c] \in {NoLink, Mails(body)}
      /\ "password" \in DOMAIN body => body.password = NewPassword
  BY DEF Mails
<1> QED BY <1>2, <1>3, <1>4, <1>5 DEF Fit, Admitted, Exists

(* A new address, with the link that will confirm it. *)
LEMMA AddressFits ==
  ASSUME Kept, NEW p \in Principals, Exists(p), NEW by, NEW op, op # "delete", NEW a \in Addresses
  PROVE  Fit(op, by, p, [email |-> a, is_verified |-> FALSE, link |-> NewLink])
<1> DEFINE body == [email |-> a, is_verified |-> FALSE, link |-> NewLink]
<1>1. NewLink \in Nat /\ NewLink # NoLink
  BY NewLinkIsNew, AccountsAssumption DEF Kept, NoLink
<1>2. /\ "user_management" \notin DOMAIN body /\ Flags \cap DOMAIN body = {}
      /\ "password" \notin DOMAIN body /\ "reset" \notin DOMAIN body
      /\ DOMAIN body \subseteq {"email", "is_verified", "link"} /\ "email" \in DOMAIN body
      /\ "link" \in DOMAIN body /\ body.link = NewLink
  BY DEF Flags, PERMISSION_NAMES
<1>3. DOMAIN body \subseteq ColumnsOf(p)
  BY <1>2 DEF ColumnsOf, StaffColumns, CustomerColumns, Credentials
<1>4. Typed(body)
  <2>1. /\ "link" \in Credentials /\ "is_verified" \notin Credentials /\ "email" \notin Credentials
        /\ "is_verified" # "email"
    BY DEF Credentials
  <2>2. /\ DOMAIN body = {"email", "is_verified", "link"} /\ body["is_verified"] = FALSE
        /\ body["link"] \in Nat /\ body["email"] \in Addresses
    BY <1>1
  <2> HIDE DEF body
  <2> QED BY <2>1, <2>2, Zenon DEF Typed, Value
<1>5. /\ Mails(body) = NewLink
      /\ \A c \in {"link", "reset"} \cap DOMAIN body : body[c] \in {NoLink, Mails(body)}
  BY DEF Mails
<1> HIDE DEF body
<1>6. Fit(op, by, p, body)
  BY <1>1, <1>2, <1>3, <1>4, <1>5 DEF Fit, Admitted, Exists
<1> QED BY <1>6 DEF body

(* A new row. *)
LEMMA NewRowFits ==
  ASSUME Kept, NEW p \in Principals \ used, NEW by, NEW op, op # "delete", NEW row,
         DOMAIN row = ColumnsOf(p), Typed(row), row.link \in {NoLink, NewLink},
         row.reset = NoLink, row.password < 2
  PROVE  Fit(op, by, p, row)
<1>1. rows[p] = NoRow
  BY DEF Kept, UsedUp, Exists
<1>2. "link" \in DOMAIN row
  BY DEF ColumnsOf, StaffColumns, CustomerColumns, Credentials
<1>3. /\ Mails(row) \in {NoLink, NewLink}
      /\ \A c \in {"link", "reset"} \cap DOMAIN row : row[c] \in {NoLink, Mails(row)}
  BY <1>2 DEF Mails
<1> QED BY <1>1, <1>3 DEF Fit

(* What staff may write in the accounts of others. *)
LEMMA StaffEditFits ==
  ASSUME Kept, NEW p \in Users, Exists(p), NEW by, "user_management" \in May(by), NEW op, op # "delete",
         NEW edit, DOMAIN edit \subseteq PERMISSION_NAMES \cup {"is_active"},
         \A c \in DOMAIN edit : edit[c] \in BOOLEAN,
         ~ (p = by /\ Revokes(edit, "user_management"))
  PROVE  Fit(op, by, p, edit)
<1>1. /\ "link" \notin DOMAIN edit /\ "reset" \notin DOMAIN edit /\ "password" \notin DOMAIN edit
      /\ "email" \notin DOMAIN edit /\ "is_verified" \notin DOMAIN edit
      /\ "access_permission" \notin DOMAIN edit
  BY DEF PERMISSION_NAMES
<1>2. p \in Principals /\ DOMAIN edit \subseteq ColumnsOf(p)
  BY Apart DEF ColumnsOf, StaffColumns
<1>3. Typed(edit)
  <2>1. \A c \in DOMAIN edit : c # "email" /\ c \notin Credentials
    BY <1>1 DEF Credentials
  <2> QED BY <2>1, Zenon DEF Typed, Value
<1>4. Mails(edit) = NoLink
  BY <1>1 DEF Mails
<1>5. \A flag \in Flags \cap DOMAIN edit : Keeper(flag) \in May(by)
  BY <1>1 DEF Keeper
<1>6. "user_management" \in DOMAIN edit /\ ~ edit.user_management => p # by
  BY DEF Revokes
<1> QED BY <1>1, <1>2, <1>3, <1>4, <1>5, <1>6 DEF Fit, Admitted, Exists

LEMMA CustomerEditFits ==
  ASSUME Kept, NEW p \in Customers, Exists(p), NEW by, "customer_management" \in May(by),
         NEW op, op # "delete", NEW access \in BOOLEAN, NEW a \in Addresses
  PROVE  /\ Fit(op, by, p, [access_permission |-> access])
         /\ Fit(op, by, p, [email |-> a])
<1>1. p \in Principals /\ p \notin Users
  BY Apart
<1>2. /\ DOMAIN [access_permission |-> access] \subseteq ColumnsOf(p)
      /\ DOMAIN [email |-> a] \subseteq ColumnsOf(p)
  BY <1>1 DEF ColumnsOf, CustomerColumns
<1>3. Typed([access_permission |-> access]) /\ Typed([email |-> a])
  <2>1. /\ DOMAIN [access_permission |-> access] = {"access_permission"}
        /\ [access_permission |-> access]["access_permission"] = access
        /\ DOMAIN [email |-> a] = {"email"} /\ [email |-> a]["email"] = a
    OBVIOUS
  <2>2. "access_permission" # "email" /\ "access_permission" \notin Credentials
    BY DEF Credentials
  <2> QED BY <2>1, <2>2, Zenon DEF Typed, Value
<1>4. Mails([access_permission |-> access]) = NoLink /\ Mails([email |-> a]) = NoLink
  BY DEF Mails
<1>5. Admitted(by, May(by), p, [access_permission |-> access])
  BY <1>1 DEF Admitted, Keeper
<1>6. Admitted(by, May(by), p, [email |-> a])
  BY <1>1 DEF Admitted, Flags, PERMISSION_NAMES
<1> QED BY <1>1, <1>2, <1>3, <1>4, <1>5, <1>6 DEF Fit, Exists

-----------------------------------------------------------------------------
(* The steps of the mail screens, the profiles, the passwords and the       *)
(* account screens.                                                         *)

LEMMA MailNextOK == ASSUME Kept, MailNext PROVE Kept'
<1>1. PICK r \in Requests, p \in Principals :
        \/ VerifyUserEmail(r, p) \/ VerifyCustomerEmail(r, p)
        \/ ResendUserVerification(r, p) \/ ResendCustomerVerification(r, p)
  BY DEF MailNext
<1>2. CASE VerifyEmail(r, p)
  <2>1. Exists(p) /\ Admit(r, "verify", p, p, [is_verified |-> TRUE, link |-> NoLink])
    BY <1>2 DEF VerifyEmail
  <2>2. Fit("verify", p, p, [is_verified |-> TRUE, link |-> NoLink])
    BY <2>1, LinksFit
  <2> QED BY <2>1, <2>2, AdmitOK
<1>3. CASE ResendUserVerification(r, p) \/ ResendCustomerVerification(r, p)
  <2>1. Exists(p) /\ Admit(r, "resend", p, p, [link |-> NewLink])
    BY <1>3 DEF ResendUserVerification, ResendCustomerVerification
  <2>2. Fit("resend", p, p, [link |-> NewLink])
    BY <2>1, LinksFit
  <2> QED BY <2>1, <2>2, AdmitOK
<1> QED BY <1>1, <1>2, <1>3 DEF VerifyUserEmail, VerifyCustomerEmail

LEMMA ProfileNextOK == ASSUME Kept, ProfileNext PROVE Kept'
<1>1. PICK r \in Requests, s \in sessions, a \in Addresses :
        UpdateUserProfile(r, s, a) \/ UpdateCustomerProfile(r, s, a)
  BY DEF ProfileNext
<1>2. PICK p \in Principals : Exists(p) /\ ChangeAddress(r, p, a)
  BY <1>1, Sessions, Apart DEF Kept, UpdateUserProfile, UpdateCustomerProfile, VerifiedCustomer, Verified
<1>3. Admit(r, "profile", p, p, [email |-> a, is_verified |-> FALSE, link |-> NewLink])
  BY <1>2 DEF ChangeAddress
<1>4. Fit("profile", p, p, [email |-> a, is_verified |-> FALSE, link |-> NewLink])
  BY <1>2, AddressFits
<1> QED BY <1>3, <1>4, AdmitOK

LEMMA PasswordNextOK == ASSUME Kept, PasswordNext PROVE Kept'
<1>1. CASE \E r \in Requests, p \in Principals :
             \/ ForgotUserPassword(r, p) \/ ForgotCustomerPassword(r, p)
             \/ ResetUserPassword(r, p) \/ ResetCustomerPassword(r, p)
  <2>1. PICK r \in Requests, p \in Principals :
          \/ ForgotUserPassword(r, p) \/ ForgotCustomerPassword(r, p)
          \/ ResetUserPassword(r, p) \/ ResetCustomerPassword(r, p)
    BY <1>1
  <2>2. CASE ForgotUserPassword(r, p) \/ ForgotCustomerPassword(r, p)
    <3>1. Exists(p) /\ Admit(r, "forgot", p, p, [reset |-> NewLink])
      BY <2>2 DEF ForgotUserPassword, ForgotCustomerPassword
    <3>2. Fit("forgot", p, p, [reset |-> NewLink])
      BY <3>1, LinksFit
    <3> QED BY <3>1, <3>2, AdmitOK
  <2>3. CASE ResetPassword(r, p)
    <3>1. Exists(p) /\ Admit(r, "reset", p, p, [password |-> NewPassword, reset |-> NoLink])
      BY <2>3 DEF ResetPassword
    <3>2. Fit("reset", p, p, [password |-> NewPassword, reset |-> NoLink])
      BY <3>1, LinksFit
    <3> QED BY <3>1, <3>2, AdmitOK
  <2> QED BY <2>1, <2>2, <2>3 DEF ResetUserPassword, ResetCustomerPassword
<1>2. CASE \E r \in Requests, s \in sessions :
             \/ ChangeUserPassword(r, s) \/ ChangeCustomerPassword(r, s)
             \/ \E p \in Users : AdminSetUserPassword(r, s, p)
  <2>1. PICK r \in Requests, s \in sessions :
          \/ ChangeUserPassword(r, s) \/ ChangeCustomerPassword(r, s)
          \/ \E p \in Users : AdminSetUserPassword(r, s, p)
    BY <1>2
  <2>2. CASE ChangeUserPassword(r, s) \/ ChangeCustomerPassword(r, s)
    <3>1. PICK p \in Principals :
            Exists(p) /\ Admit(r, "password", p, p, [password |-> NewPassword])
      BY <2>1, <2>2, Sessions, Apart DEF Kept, ChangeUserPassword, ChangeCustomerPassword,
         ChangePassword, VerifiedCustomer, Verified
    <3>2. Fit("password", p, p, [password |-> NewPassword])
      BY <3>1, LinksFit
    <3> QED BY <3>1, <3>2, AdmitOK
  <2>3. ASSUME NEW p \in Users, AdminSetUserPassword(r, s, p) PROVE Kept'
    <3>1. PICK by : Exists(p) /\ Admit(r, "set", by, p, [password |-> NewPassword])
      BY <2>3 DEF AdminSetUserPassword
    <3>2. Fit("set", by, p, [password |-> NewPassword])
      BY <3>1, Apart, LinksFit
    <3> QED BY <3>1, <3>2, AdmitOK
  <2> QED BY <2>1, <2>2, <2>3
<1> QED BY <1>1, <1>2 DEF PasswordNext

LEMMA TypedRow ==
  ASSUME NEW f, f["email"] \in Addresses, \A c \in Credentials : f[c] \in Nat,
         \A c \in DOMAIN f : c = "email" \/ c \in Credentials \/ f[c] \in BOOLEAN
  PROVE  Typed(f)
<1>1. SUFFICES ASSUME NEW c \in DOMAIN f PROVE f[c] \in Value(c)
  BY DEF Typed
<1>2. "email" \notin Credentials
  BY DEF Credentials
<1>3. CASE c = "email"
  BY <1>3, Zenon DEF Value
<1>4. CASE c \in Credentials
  BY <1>2, <1>4, Zenon DEF Value
<1>5. CASE c # "email" /\ c \notin Credentials
  BY <1>5, Zenon DEF Value
<1> QED BY <1>3, <1>4, <1>5

(* Rows of people who come in. *)
Hired(a, link) ==
  {[StaffRow(a) EXCEPT !.link = link, !.user_management = b, !.customer_management = TRUE] :
     b \in BOOLEAN}

LEMMA NewStaff ==
  ASSUME NEW a \in Addresses, NEW link \in Nat, NEW p \in Users, NEW staff \in Hired(a, link)
  PROVE  /\ DOMAIN staff = ColumnsOf(p) /\ Typed(staff) /\ staff.link = link
         /\ staff.reset = NoLink /\ staff.password < 2
<1>1. ColumnsOf(p) = {"email", "is_active", "is_verified", "link", "reset", "password",
                      "user_management", "customer_management", "admin"}
  BY DEF ColumnsOf, StaffColumns, Credentials, PERMISSION_NAMES
<1>2. PICK manager \in BOOLEAN :
        staff = [StaffRow(a) EXCEPT !.link = link, !.user_management = manager,
                                    !.customer_management = TRUE]
  BY Zenon DEF Hired
<1>3. /\ DOMAIN staff = ColumnsOf(p) /\ staff.link = link /\ staff.reset = NoLink
      /\ staff.password < 2 /\ staff.password \in Nat /\ staff["email"] = a
      /\ \A c \in Credentials : staff[c] \in Nat
  BY <1>1, <1>2 DEF StaffRow, NoLink, Credentials
<1>4. /\ staff["is_active"] = TRUE /\ staff["is_verified"] = FALSE /\ staff["admin"] = FALSE
      /\ staff["user_management"] = manager /\ staff["customer_management"] = TRUE
  BY <1>2 DEF StaffRow
<1>5. \A c \in DOMAIN staff :
        \/ c = "email" \/ c \in Credentials \/ c = "is_active" \/ c = "is_verified" \/ c = "admin"
        \/ c = "user_management" \/ c = "customer_management"
  BY <1>1, <1>3 DEF Credentials
<1>6. Typed(staff)
  <2>1. \A c \in DOMAIN staff : c = "email" \/ c \in Credentials \/ staff[c] \in BOOLEAN
    BY <1>4, <1>5, Zenon
  <2> QED BY <1>3, <2>1, TypedRow
<1> QED BY <1>3, <1>6

LEMMA NewCustomers ==
  ASSUME NEW a \in Addresses, NEW link \in Nat, NEW b \in BOOLEAN
  PROVE  /\ \A p \in Customers :
              LET row == [CustomerRow(a) EXCEPT !.password = 1, !.link = link]
              IN DOMAIN row = ColumnsOf(p) /\ Typed(row) /\ row.link = link /\ row.reset = NoLink
                 /\ row.password < 2
         /\ \A p \in Customers :
              LET row == [CustomerRow(a) EXCEPT !.access_permission = b]
              IN DOMAIN row = ColumnsOf(p) /\ Typed(row) /\ row.link = NoLink /\ row.reset = NoLink
                 /\ row.password < 2
         /\ \A p \in Customers :
              LET row == [CustomerRow(a) EXCEPT !.is_verified = TRUE]
              IN DOMAIN row = ColumnsOf(p) /\ Typed(row) /\ row.link = NoLink /\ row.reset = NoLink
                 /\ row.password < 2
<1> DEFINE joins == [CustomerRow(a) EXCEPT !.password = 1, !.link = link]
           added == [CustomerRow(a) EXCEPT !.access_permission = b]
           known == [CustomerRow(a) EXCEPT !.is_verified = TRUE]
<1>1. \A p \in Customers : ColumnsOf(p) = CustomerColumns
  BY Apart DEF ColumnsOf
<1>2. CustomerColumns = {"email", "is_active", "is_verified", "link", "reset", "password",
                         "access_permission"}
  BY DEF CustomerColumns, Credentials
<1>3. /\ DOMAIN joins = CustomerColumns /\ joins.link = link /\ joins.reset = NoLink
      /\ joins.password < 2 /\ joins.password \in Nat /\ joins.email = a
  BY <1>2 DEF CustomerRow, NoLink
<1>4. /\ DOMAIN added = CustomerColumns /\ added.link = NoLink /\ added.reset = NoLink
      /\ added.password < 2 /\ added.password \in Nat /\ added.email = a
  BY <1>2 DEF CustomerRow, NoLink, NoPassword
<1>5. /\ DOMAIN known = CustomerColumns /\ known.link = NoLink /\ known.reset = NoLink
      /\ known.password < 2 /\ known.password \in Nat /\ known.email = a
  BY <1>2 DEF CustomerRow, NoLink, NoPassword
<1>6. /\ \A c \in Credentials : joins[c] \in Nat
      /\ \A c \in Credentials : added[c] \in Nat
      /\ \A c \in Credentials : known[c] \in Nat
  BY DEF Credentials, CustomerRow, NoLink, NoPassword
<1>7. /\ \A c \in {"is_active", "is_verified", "access_permission"} : joins[c] \in BOOLEAN
      /\ \A c \in {"is_active", "is_verified", "access_permission"} : added[c] \in BOOLEAN
      /\ \A c \in {"is_active", "is_verified", "access_permission"} : known[c] \in BOOLEAN
  BY DEF CustomerRow
<1> HIDE DEF joins, added, known
<1>8. Typed(joins) /\ Typed(added) /\ Typed(known)
  <2>1. \A c \in CustomerColumns :
          c = "email" \/ c \in Credentials \/ c \in {"is_active", "is_verified", "access_permission"}
    BY DEF CustomerColumns
  <2>2. /\ \A c \in DOMAIN joins : c = "email" \/ c \in Credentials \/ joins[c] \in BOOLEAN
        /\ \A c \in DOMAIN added : c = "email" \/ c \in Credentials \/ added[c] \in BOOLEAN
        /\ \A c \in DOMAIN known : c = "email" \/ c \in Credentials \/ known[c] \in BOOLEAN
    BY <1>3, <1>4, <1>5, <1>7, <2>1
  <2> QED BY <1>3, <1>4, <1>5, <1>6, <2>2, TypedRow
<1>9. /\ \A p \in Customers : DOMAIN joins = ColumnsOf(p) /\ Typed(joins) /\ joins.link = link
                              /\ joins.reset = NoLink /\ joins.password < 2
      /\ \A p \in Customers : DOMAIN added = ColumnsOf(p) /\ Typed(added) /\ added.link = NoLink
                              /\ added.reset = NoLink /\ added.password < 2
      /\ \A p \in Customers : DOMAIN known = ColumnsOf(p) /\ Typed(known) /\ known.link = NoLink
                              /\ known.reset = NoLink /\ known.password < 2
  BY <1>1, <1>3, <1>4, <1>5, <1>8
<1> QED BY <1>9 DEF joins, added, known

LEMMA NewRowsAdmitted ==
  ASSUME Kept, NEW r \in Requests, NEW a \in Addresses
  PROVE  /\ Register(r, a) => Kept'
         /\ GoogleLogin(r, a) => Kept'
         /\ \A s \in sessions : CreateUser(r, s, a) \/ CreateCustomer(r, s, a) => Kept'
<1>1. /\ NewLink \in Nat /\ NoLink \in Nat
      /\ Users \subseteq Principals /\ Customers \subseteq Principals
  BY NewLinkIsNew, AccountsAssumption, Apart DEF Kept, NoLink
<1>2. ASSUME Register(r, a) PROVE Kept'
  <2>1. PICK p \in Customers \ used :
          Admit(r, "register", p, p, [CustomerRow(a) EXCEPT !.password = 1, !.link = NewLink])
    BY <1>2 DEF Register
  <2> DEFINE row == [CustomerRow(a) EXCEPT !.password = 1, !.link = NewLink]
  <2>2. /\ DOMAIN row = ColumnsOf(p) /\ Typed(row) /\ row.link = NewLink
        /\ row.reset = NoLink /\ row.password < 2
    BY <1>1, NewCustomers
  <2> HIDE DEF row
  <2>3. Fit("register", p, p, row)
    BY <1>1, <2>2, NewRowFits
  <2>4. Admit(r, "register", p, p, row)
    BY <2>1 DEF row
  <2> QED BY <2>3, <2>4, AdmitOK
<1>3. ASSUME GoogleLogin(r, a) PROVE Kept'
  <2> DEFINE row == [CustomerRow(a) EXCEPT !.is_verified = TRUE]
             confirmed == [is_verified |-> TRUE, link |-> NoLink]
  <2>1. \/ \E p \in Principals :
             /\ Exists(p)
             /\ \/ Admit(r, "google", p, p, <<>>)
                \/ Admit(r, "google", p, p, confirmed)
        \/ \E p \in Customers \ used : Admit(r, "google", p, p, row)
    BY <1>1, <1>3 DEF GoogleLogin, Matching
  <2>2. ASSUME NEW p \in Principals, Exists(p)
        PROVE  Fit("google", p, p, <<>>) /\ Fit("google", p, p, confirmed)
    BY <2>2, LinksFit
  <2>3. ASSUME NEW p \in Customers \ used PROVE Fit("google", p, p, row)
    <3>1. /\ DOMAIN row = ColumnsOf(p) /\ Typed(row) /\ row.link = NoLink
          /\ row.reset = NoLink /\ row.password < 2
      BY <1>1, NewCustomers
    <3> HIDE DEF row
    <3> QED BY <1>1, <3>1, NewRowFits
  <2> HIDE DEF row, confirmed
  <2> QED BY <2>1, <2>2, <2>3, <1>1, AdmitOK
<1>4. ASSUME NEW s \in sessions, CreateUser(r, s, a) PROVE Kept'
  <2>1. PICK by \in Holds(s, "user_management"), p \in Users \ used, manager \in BOOLEAN :
          Admit(r, "create", by, p, [StaffRow(a) EXCEPT
            !.link = NewLink, !.user_management = manager, !.customer_management = TRUE])
    BY <1>4, Zenon DEF CreateUser
  <2> DEFINE row == [StaffRow(a) EXCEPT
            !.link = NewLink, !.user_management = manager, !.customer_management = TRUE]
  <2>2. /\ DOMAIN row = ColumnsOf(p) /\ Typed(row) /\ row.link = NewLink
        /\ row.reset = NoLink /\ row.password < 2
    <3>1. row \in Hired(a, NewLink)
      BY Zenon DEF Hired
    <3> HIDE DEF row
    <3> QED BY <1>1, <3>1, NewStaff
  <2> HIDE DEF row
  <2>3. Fit("create", by, p, row)
    BY <1>1, <2>2, NewRowFits
  <2>4. Admit(r, "create", by, p, row)
    BY <2>1 DEF row
  <2> QED BY <2>3, <2>4, AdmitOK
<1>5. ASSUME NEW s \in sessions, CreateCustomer(r, s, a) PROVE Kept'
  <2>1. PICK by \in Holds(s, "customer_management"), p \in Customers \ used, access \in BOOLEAN :
          Admit(r, "create", by, p, [CustomerRow(a) EXCEPT !.access_permission = access])
    BY <1>5, Zenon DEF CreateCustomer
  <2> DEFINE row == [CustomerRow(a) EXCEPT !.access_permission = access]
  <2>2. /\ DOMAIN row = ColumnsOf(p) /\ Typed(row) /\ row.link = NoLink
        /\ row.reset = NoLink /\ row.password < 2
    BY <1>1, NewCustomers, Zenon
  <2> HIDE DEF row
  <2>3. Fit("create", by, p, row)
    BY <1>1, <2>2, NewRowFits
  <2>4. Admit(r, "create", by, p, row)
    BY <2>1 DEF row
  <2> QED BY <2>3, <2>4, AdmitOK
<1> QED BY <1>2, <1>3, <1>4, <1>5

LEMMA EditsAdmitted ==
  ASSUME Kept, NEW r \in Requests, NEW s \in sessions
  PROVE  /\ \A p \in Users : DeactivateUser(r, s, p) => Kept'
         /\ \A p \in Users, edit \in StaffEdits : UpdateUser(r, s, p, edit) => Kept'
         /\ \A p \in Customers : UpdateCustomer(r, s, p) \/ DeleteCustomer(r, s, p) => Kept'
<1>1. "user_management" \in PERMISSION_NAMES /\ "customer_management" \in PERMISSION_NAMES
  BY DEF PERMISSION_NAMES
<1>2. ASSUME NEW p \in Users, DeactivateUser(r, s, p) PROVE Kept'
  <2>1. PICK by \in Holds(s, "user_management") :
          p # by /\ Exists(p) /\ Admit(r, "deactivate", by, p, [is_active |-> FALSE])
    BY <1>2 DEF DeactivateUser
  <2>2. "user_management" \in May(by)
    BY <1>1, HoldersAre DEF Kept
  <2>3. Fit("deactivate", by, p, [is_active |-> FALSE])
    <3> DEFINE edit == [is_active |-> FALSE]
    <3>1. /\ DOMAIN edit \subseteq PERMISSION_NAMES \cup {"is_active"}
          /\ \A c \in DOMAIN edit : edit[c] \in BOOLEAN
      <4>1. DOMAIN edit = {"is_active"} /\ edit["is_active"] = FALSE
        OBVIOUS
      <4> HIDE DEF edit
      <4> QED BY <4>1, Zenon
    <3> HIDE DEF edit
    <3>2. Fit("deactivate", by, p, edit)
      BY <2>1, <2>2, <3>1, StaffEditFits
    <3> QED BY <3>2 DEF edit
  <2> QED BY <2>1, <2>3, AdmitOK
<1>3. ASSUME NEW p \in Users, NEW edit \in StaffEdits, UpdateUser(r, s, p, edit) PROVE Kept'
  <2>1. PICK by \in Holds(s, "user_management") :
          /\ Exists(p) /\ ~ (p = by /\ Revokes(edit, "user_management"))
          /\ Admit(r, "update", by, p, edit)
    BY <1>3 DEF UpdateUser
  <2>2. "user_management" \in May(by)
    BY <1>1, HoldersAre DEF Kept
  <2>3. /\ DOMAIN edit \subseteq PERMISSION_NAMES \cup {"is_active"}
        /\ \A c \in DOMAIN edit : edit[c] \in BOOLEAN
    BY StaffEditsAssumption
  <2>4. Fit("update", by, p, edit)
    BY <2>1, <2>2, <2>3, StaffEditFits
  <2> QED BY <2>1, <2>4, AdmitOK
<1>4. ASSUME NEW p \in Customers, UpdateCustomer(r, s, p) PROVE Kept'
  <2>1. PICK by \in Holds(s, "customer_management") :
          /\ Exists(p)
          /\ \/ \E access \in BOOLEAN : Admit(r, "update", by, p, [access_permission |-> access])
             \/ \E address \in Addresses : Admit(r, "update", by, p, [email |-> address])
    BY <1>4 DEF UpdateCustomer
  <2>2. "customer_management" \in May(by)
    BY <1>1, HoldersAre DEF Kept
  <2>3. ASSUME NEW address \in Addresses, Admit(r, "update", by, p, [email |-> address]) PROVE Kept'
    <3>1. TRUE \in BOOLEAN
      OBVIOUS
    <3>2. Fit("update", by, p, [email |-> address])
      BY <2>1, <2>2, <3>1, CustomerEditFits
    <3> QED BY <2>3, <3>2, AdmitOK
  <2>4. ASSUME NEW access \in BOOLEAN, Admit(r, "update", by, p, [access_permission |-> access])
        PROVE  Kept'
    <3>1. rows[p].email \in Addresses
      BY <2>1, Apart DEF Kept, TypeOK, IsRow, Typed, Value, ColumnsOf, CustomerColumns
    <3>2. Fit("update", by, p, [access_permission |-> access])
      BY <2>1, <2>2, <3>1, CustomerEditFits
    <3> QED BY <2>4, <3>2, AdmitOK
  <2> QED BY <2>1, <2>3, <2>4
<1>5. ASSUME NEW p \in Customers, DeleteCustomer(r, s, p) PROVE Kept'
  <2>1. PICK by : Admit(r, "delete", by, p, <<>>)
    BY <1>5 DEF DeleteCustomer
  <2>2. Fit("delete", by, p, <<>>)
    BY Apart DEF Fit
  <2> QED BY <2>1, <2>2, AdmitOK
<1> QED BY <1>2, <1>3, <1>4, <1>5

LEMMA AccountNextOK == ASSUME Kept, AccountNext PROVE Kept'
<1>1. CASE \E r \in Requests, address \in Addresses :
             GoogleLogin(r, Folded[address]) \/ Register(r, address)
  <2>1. \A address \in Addresses : Folded[address] \in Addresses
    BY AccountsAssumption
  <2> QED BY <1>1, <2>1, NewRowsAdmitted
<1>2. CASE \E r \in Requests, s \in sessions, address \in Addresses :
             CreateUser(r, s, address) \/ CreateCustomer(r, s, address)
  BY <1>2, NewRowsAdmitted
<1>3. CASE \E r \in Requests, s \in sessions, p \in Users :
             DeactivateUser(r, s, p) \/ \E edit \in StaffEdits : UpdateUser(r, s, p, edit)
  BY <1>3, EditsAdmitted
<1>4. CASE \E r \in Requests, s \in sessions, p \in Customers :
             UpdateCustomer(r, s, p) \/ DeleteCustomer(r, s, p)
  BY <1>4, EditsAdmitted
<1> QED BY <1>1, <1>2, <1>3, <1>4 DEF AccountNext

-----------------------------------------------------------------------------
LEMMA KeptStep == ASSUME Kept, [Next]_vars PROVE Kept'
<1>1. CASE UNCHANGED vars
  <2>1. \A s \in sessions' : <<s.type, s.sub>> \in Principals
    BY <1>1 DEF Kept, TypeOK, vars
  <2> QED BY <1>1, <2>1, SessionsOK DEF vars
<1> QED BY <1>1, SessionNextOK, CommitNextOK, MailNextOK, ProfileNextOK, PasswordNextOK, AccountNextOK
        DEF Next

LEMMA KeptInit == ASSUME Init PROVE Kept
<1>1. /\ rows \in Openings /\ used = {p \in Principals : Exists(p)} /\ mailed = <<>> /\ retired = {}
      /\ sessions = {} /\ req = [r \in Requests |-> Idle] /\ begun = 0
  BY DEF Init
<1>2. ASSUME NEW p \in Users, Exists(p)
      PROVE  /\ DOMAIN rows[p] = ColumnsOf(p) /\ Typed(rows[p])
             /\ rows[p].link = NoLink /\ rows[p].reset = NoLink /\ rows[p].password < 2
  <2>1. rows[p] \in SettledStaff
    BY <1>1, <1>2, OpeningsAssumption DEF Exists
  <2>2. DOMAIN rows[p] = ColumnsOf(p)
    BY <2>1 DEF SettledStaff, ColumnsOf, StaffColumns, Credentials, PERMISSION_NAMES
  <2>3. /\ rows[p]["email"] \in Addresses /\ rows[p].link = NoLink /\ rows[p].reset = NoLink
        /\ rows[p].password = 1 /\ \A c \in Credentials : rows[p][c] \in Nat
    BY <2>1 DEF SettledStaff, Credentials, NoLink
  <2>4. /\ rows[p]["is_active"] \in BOOLEAN /\ rows[p]["is_verified"] \in BOOLEAN
        /\ rows[p]["user_management"] \in BOOLEAN /\ rows[p]["customer_management"] \in BOOLEAN
        /\ rows[p]["admin"] \in BOOLEAN
    BY <2>1 DEF SettledStaff
  <2>5. \A c \in ColumnsOf(p) :
          \/ c = "email" \/ c \in Credentials \/ c = "is_active" \/ c = "is_verified" \/ c = "admin"
          \/ c = "user_management" \/ c = "customer_management"
    BY DEF ColumnsOf, StaffColumns, PERMISSION_NAMES
  <2>6. \A c \in DOMAIN rows[p] : c = "email" \/ c \in Credentials \/ rows[p][c] \in BOOLEAN
    BY <2>2, <2>4, <2>5, Zenon
  <2>7. Typed(rows[p])
    BY <2>3, <2>6, TypedRow
  <2> QED BY <2>2, <2>3, <2>7
<1>3. ASSUME NEW p \in Customers, Exists(p)
      PROVE  /\ DOMAIN rows[p] = ColumnsOf(p) /\ Typed(rows[p])
             /\ rows[p].link = NoLink /\ rows[p].reset = NoLink /\ rows[p].password < 2
  <2>1. rows[p] \in SettledCustomers
    BY <1>1, <1>3, OpeningsAssumption DEF Exists
  <2>2. DOMAIN rows[p] = ColumnsOf(p)
    BY <2>1, Apart DEF SettledCustomers, ColumnsOf, CustomerColumns, Credentials
  <2>3. /\ rows[p]["email"] \in Addresses /\ rows[p].link = NoLink /\ rows[p].reset = NoLink
        /\ rows[p].password \in {0, 1} /\ \A c \in Credentials : rows[p][c] \in Nat
    BY <2>1 DEF SettledCustomers, Credentials, NoLink, NoPassword
  <2>4. /\ rows[p]["is_active"] \in BOOLEAN /\ rows[p]["is_verified"] \in BOOLEAN
        /\ rows[p]["access_permission"] \in BOOLEAN
    BY <2>1 DEF SettledCustomers
  <2>5. \A c \in ColumnsOf(p) :
          \/ c = "email" \/ c \in Credentials \/ c = "is_active" \/ c = "is_verified"
          \/ c = "access_permission"
    BY Apart DEF ColumnsOf, CustomerColumns
  <2>6. \A c \in DOMAIN rows[p] : c = "email" \/ c \in Credentials \/ rows[p][c] \in BOOLEAN
    BY <2>2, <2>4, <2>5, Zenon
  <2>7. Typed(rows[p])
    BY <2>3, <2>6, TypedRow
  <2> QED BY <2>2, <2>3, <2>7
<1>4. \A p \in Principals : Exists(p) =>
        /\ DOMAIN rows[p] = ColumnsOf(p) /\ Typed(rows[p])
        /\ rows[p].link = NoLink /\ rows[p].reset = NoLink /\ rows[p].password < 2
  BY <1>2, <1>3, Apart
<1>5. DOMAIN mailed = {}
  BY <1>1
<1>6. TypeOK
  BY <1>1, <1>4, <1>5, OpeningsAssumption DEF TypeOK, IsRow
<1>7. AllGiven
  <2>1. ASSUME NEW p \in Principals, Exists(p), NEW c \in Credentials
        PROVE  GivenOut(mailed, begun, c, rows[p][c])
    BY <1>1, <1>4, <2>1 DEF GivenOut, Credentials
  <2> QED BY <1>1, <2>1 DEF AllGiven, Updates, InFlight
<1>8. UsedUp /\ OwnLinks /\ OwnPasswords /\ Guarded
  BY <1>1 DEF UsedUp, OwnLinks, OwnPasswords, Guarded, Chooses, Updates, InFlight
<1>9. LinkMatchesAddress
  BY <1>4, Apart DEF LinkMatchesAddress
<1>10. ReplacedStaysReplaced
  BY <1>1 DEF ReplacedStaysReplaced
<1> QED BY <1>6, <1>7, <1>8, <1>9, <1>10 DEF Kept

LEMMA AlwaysKept == Spec => []Kept
<1>1. Init => Kept
  BY KeptInit
<1>2. Kept /\ [Next]_vars => Kept'
  BY KeptStep
<1> QED BY <1>1, <1>2, PTL DEF Spec

-----------------------------------------------------------------------------
(* Every row and every request is well formed, for every set of accounts.   *)
THEOREM AccountsTypeCorrect == Spec => []TypeOK
<1>1. Kept => TypeOK
  BY DEF Kept
<1> QED BY <1>1, AlwaysKept, PTL

(* Whatever resends, confirmations and new addresses overlap, the link a    *)
(* staff row accepts is the one that was mailed to the address it has.      *)
THEOREM LinkAlwaysMatchesAddress == Spec => []LinkMatchesAddress
<1>1. Kept => LinkMatchesAddress
  BY DEF Kept
<1> QED BY <1>1, AlwaysKept, PTL

(* A password or link that a request took away stays away, whichever        *)
(* request that loaded the row before commits after it.                     *)
THEOREM ReplacedIsNeverRestored == Spec => []ReplacedStaysReplaced
<1>1. Kept => ReplacedStaysReplaced
  BY DEF Kept
<1> QED BY <1>1, AlwaysKept, PTL

-----------------------------------------------------------------------------
(* Only a commit moves a row.                                               *)
LEMMA RowsMove ==
  ASSUME Kept, [Next]_vars
  PROVE  rows' = rows \/ CommitNext
<1>1. SessionNext => rows' = rows
  BY DEF SessionNext, Login, CustomerLogin, Refresh, Expire
<1>2. MailNext => rows' = rows
  BY DEF MailNext, VerifyUserEmail, VerifyCustomerEmail, VerifyEmail, ResendUserVerification,
     ResendCustomerVerification, Admit
<1>3. ProfileNext => rows' = rows
  BY DEF ProfileNext, UpdateUserProfile, UpdateCustomerProfile, ChangeAddress, Admit
<1>4. PasswordNext => rows' = rows
  BY DEF PasswordNext, ForgotUserPassword, ForgotCustomerPassword, ResetUserPassword,
     ResetCustomerPassword, ResetPassword, ChangeUserPassword, ChangeCustomerPassword, ChangePassword,
     AdminSetUserPassword, Admit
<1>5. AccountNext => rows' = rows
  <2>0. ASSUME NEW r, NEW op, NEW by, NEW p, NEW body, Admit(r, op, by, p, body)
        PROVE  rows' = rows
    BY <2>0 DEF Admit
  <2>1. \A r \in Requests, address \in Addresses : GoogleLogin(r, address) \/ Register(r, address) => rows' = rows
    BY DEF GoogleLogin, Register, Admit
  <2>2. ASSUME NEW r \in Requests, NEW s \in sessions, NEW address \in Addresses,
               CreateUser(r, s, address) \/ CreateCustomer(r, s, address)
        PROVE  rows' = rows
    <3>1. CASE CreateUser(r, s, address)
      BY <2>0, <3>1, Zenon DEF CreateUser
    <3>2. CASE CreateCustomer(r, s, address)
      BY <2>0, <3>2, Zenon DEF CreateCustomer
    <3> QED BY <2>2, <3>1, <3>2
  <2>3. \A r \in Requests, s \in sessions, p \in Users :
          /\ DeactivateUser(r, s, p) => rows' = rows
          /\ \A edit \in StaffEdits : UpdateUser(r, s, p, edit) => rows' = rows
    BY DEF DeactivateUser, UpdateUser, Admit
  <2>4. ASSUME NEW r \in Requests, NEW s \in sessions, NEW p \in Customers,
               UpdateCustomer(r, s, p) \/ DeleteCustomer(r, s, p)
        PROVE  rows' = rows
    BY <2>0, <2>4, Zenon DEF UpdateCustomer, DeleteCustomer
  <2>5. \A address \in Addresses : Folded[address] \in Addresses
    BY AccountsAssumption
  <2> QED BY <2>1, <2>2, <2>3, <2>4, <2>5 DEF AccountNext
<1> QED BY <1>1, <1>2, <1>3, <1>4, <1>5 DEF Next, vars

(* What becomes of the rows when a request commits.                         *)
LEMMA CommitMoves ==
  ASSUME Kept, CommitNext, rows' # rows
  PROVE  \E r \in Requests :
           /\ req[r] # Idle /\ req'[r] = Idle /\ IsRequest(req[r])
           /\ \A p \in Principals : p # req[r].target => rows'[p] = rows[p]
           /\ Exists(req[r].target) =>
                \/ req[r].target \in Customers /\ rows'[req[r].target] = NoRow
                \/ /\ Updates(r) /\ rows'[req[r].target] # NoRow
                   /\ \A c \in ColumnsOf(req[r].target) :
                        \/ rows'[req[r].target][c] = rows[req[r].target][c]
                        \/ c \in DOMAIN req[r].body /\ rows'[req[r].target][c] = req[r].body[c]
<1>1. PICK r \in Requests : Commit(r) \/ CommitDelete(r)
  BY DEF CommitNext, Fail
<1>2. /\ req[r] # Idle /\ req'[r] = Idle /\ IsRequest(req[r]) /\ req[r].target \in Principals
  BY <1>1 DEF Kept, TypeOK, Commit, CommitDelete, IsRequest
<1>3. CASE CommitDelete(r)
  <2>1. /\ rows' = [rows EXCEPT ![req[r].target] = NoRow] /\ req[r].target \in Customers
    BY <1>2, <1>3 DEF CommitDelete, IsRequest
  <2> QED BY <1>2, <2>1 DEF Kept, TypeOK
<1>4. CASE Commit(r)
  <2>1. /\ InFlight(r) /\ ~ Refused(req[r]) /\ Changed(req[r]) # {} /\ TypeOK
        /\ rows' = [rows EXCEPT ![req[r].target] = After(req[r])]
    BY <1>4 DEF Commit, InFlight, Kept
  <2>2. /\ \A p \in Principals : p # req[r].target => rows'[p] = rows[p]
        /\ rows'[req[r].target] = After(req[r])
    BY <1>2, <2>1 DEF TypeOK
  <2>3. ASSUME Exists(req[r].target)
        PROVE  /\ Updates(r) /\ rows'[req[r].target] # NoRow
               /\ \A c \in ColumnsOf(req[r].target) :
                    \/ rows'[req[r].target][c] = rows[req[r].target][c]
                    \/ c \in DOMAIN req[r].body /\ rows'[req[r].target][c] = req[r].body[c]
    <3> DEFINE q == req[r]
    <3>1. /\ q.was = NoRow => q.target \notin used
          /\ q.was # NoRow => \A c \in ColumnsOf(q.target) :
               After(q)[c] = IF c \in Changed(q) THEN q.body[c] ELSE rows[q.target][c]
      BY <2>1, AfterIs
    <3>2. q.was # NoRow
      BY <1>2, <2>3, <3>1 DEF Kept, UsedUp
    <3>3. Changed(q) \subseteq DOMAIN q.body
      BY DEF Changed
    <3>4. After(q) # NoRow
      <4>1. IsRow(q.target, After(q))
        BY <2>1, AfterIs
      <4> QED BY <4>1 DEF IsRow, ColumnsOf, StaffColumns, CustomerColumns, NoRow
    <3> QED BY <2>1, <2>2, <3>1, <3>2, <3>3, <3>4 DEF Updates
  <2> QED BY <1>2, <2>2, <2>3
<1> QED BY <1>1, <1>3, <1>4

(* No permission, activity or access flag of an account moves but by a      *)
(* request that names it and that whoever keeps the flag sent.              *)
THEOREM FlagsAlwaysFollowTheirKeepers == Spec => FlagsFollowTheirKeepers
<1> DEFINE Followed == \A p \in Principals, flag \in Flags :
             \/ ~ Exists(p) \/ ~ Exists(p)'
             \/ flag \notin DOMAIN rows[p]
             \/ rows'[p][flag] = rows[p][flag]
             \/ ByItsKeeper(p, flag)
<1>1. Kept /\ [Next]_vars => Followed
  <2> SUFFICES ASSUME Kept, [Next]_vars, NEW p \in Principals, NEW flag \in Flags,
                      Exists(p), Exists(p)', flag \in DOMAIN rows[p],
                      rows'[p][flag] # rows[p][flag]
               PROVE  ByItsKeeper(p, flag)
    OBVIOUS
  <2>1. CommitNext /\ rows' # rows
    BY RowsMove
  <2>2. PICK r \in Requests :
           /\ req[r] # Idle /\ req'[r] = Idle
           /\ p # req[r].target => rows'[p] = rows[p]
           /\ Exists(req[r].target) =>
                \/ rows'[req[r].target] = NoRow
                \/ /\ Updates(r)
                   /\ \A c \in ColumnsOf(req[r].target) :
                        \/ rows'[req[r].target][c] = rows[req[r].target][c]
                        \/ c \in DOMAIN req[r].body
    BY <2>1, CommitMoves
  <2>3. p = req[r].target /\ Updates(r)
    BY <2>2 DEF Exists
  <2>4. flag \in ColumnsOf(p)
    BY DEF Kept, TypeOK, IsRow
  <2>5. flag \in DOMAIN req[r].body
    BY <2>2, <2>3, <2>4 DEF Exists
  <2>6. Keeper(flag) \in req[r].may
    BY <2>3, <2>5 DEF Kept, Guarded, Admitted
  <2> QED BY <2>2, <2>3, <2>5, <2>6 DEF ByItsKeeper
<1>2. Kept /\ [Next]_vars => [Followed]_vars
  BY <1>1
<1> QED BY <1>2, AlwaysKept, PTL DEF Spec, FlagsFollowTheirKeepers

(* Whatever order the requests of several managers commit in, the last one  *)
(* able to manage users goes by a request of its own, or of staff who were  *)
(* able no more.                                                            *)
THEOREM LastManagerAlwaysGoesByItsOwnHand == Spec => LastManagerGoesByItsOwnHand
<1> DEFINE ByOwnHand ==
       Managers # {} /\ Managers' = {} =>
         \E r \in Requests :
           /\ req[r] # Idle /\ req'[r] = Idle
           /\ \/ req[r].target = req[r].by /\ DOMAIN req[r].body \cap {"is_active", "email"} # {}
              \/ req[r].by \notin Managers
<1>1. Kept /\ [Next]_vars => ByOwnHand
  <2> SUFFICES ASSUME Kept, [Next]_vars, Managers # {}, Managers' = {}
               PROVE  \E r \in Requests :
                        /\ req[r] # Idle /\ req'[r] = Idle
                        /\ \/ /\ req[r].target = req[r].by
                              /\ DOMAIN req[r].body \cap {"is_active", "email"} # {}
                           \/ req[r].by \notin Managers
    OBVIOUS
  <2>1. rows' # rows
    BY DEF Managers, Exists
  <2>2. PICK r \in Requests :
           /\ req[r] # Idle /\ req'[r] = Idle
           /\ \A p \in Principals : p # req[r].target => rows'[p] = rows[p]
           /\ Exists(req[r].target) =>
                \/ req[r].target \in Customers
                \/ /\ Updates(r) /\ rows'[req[r].target] # NoRow
                   /\ \A c \in ColumnsOf(req[r].target) :
                        \/ rows'[req[r].target][c] = rows[req[r].target][c]
                        \/ c \in DOMAIN req[r].body /\ rows'[req[r].target][c] = req[r].body[c]
    BY <2>1, RowsMove, CommitMoves
  <2> SUFFICES ASSUME req[r].by \in Managers
               PROVE  /\ req[r].target = req[r].by
                      /\ DOMAIN req[r].body \cap {"is_active", "email"} # {}
    BY <2>2
  <2> DEFINE m == req[r].by
  <2>3. /\ m \in Users /\ m \in Principals /\ Exists(m) /\ rows[m].is_active /\ rows[m].is_verified
        /\ rows[m].user_management
    BY Apart DEF Managers
  <2>4. m = req[r].target
    <3> SUFFICES ASSUME m # req[r].target PROVE FALSE
      OBVIOUS
    <3>1. rows'[m] = rows[m]
      BY <2>2, <2>3
    <3> QED BY <2>3, <3>1 DEF Managers, Exists
  <2>5. /\ Updates(r) /\ rows'[m] # NoRow
        /\ \A c \in ColumnsOf(m) : \/ rows'[m][c] = rows[m][c]
                                   \/ c \in DOMAIN req[r].body /\ rows'[m][c] = req[r].body[c]
    BY <2>2, <2>3, <2>4, Apart
  <2>6. /\ "user_management" \in DOMAIN req[r].body => req[r].body.user_management
        /\ "is_verified" \in DOMAIN req[r].body /\ ~ req[r].body.is_verified =>
             "email" \in DOMAIN req[r].body
    BY <2>4, <2>5 DEF Kept, Guarded, Admitted
  <2>7. {"is_active", "is_verified", "user_management"} \subseteq ColumnsOf(m)
    BY <2>3 DEF ColumnsOf, StaffColumns, PERMISSION_NAMES
  <2>8. rows'[m].user_management
    BY <2>3, <2>5, <2>6, <2>7
  <2>9. ~ rows'[m].is_active \/ ~ rows'[m].is_verified
    BY <2>3, <2>5, <2>8 DEF Managers, Exists
  <2>10. "is_active" \in DOMAIN req[r].body \/ "email" \in DOMAIN req[r].body
    BY <2>3, <2>5, <2>6, <2>7, <2>9
  <2> QED BY <2>4, <2>10
<1>2. Kept /\ [Next]_vars => [ByOwnHand]_vars
  BY <1>1
<1> QED BY <1>2, AlwaysKept, PTL DEF Spec, LastManagerGoesByItsOwnHand

-----------------------------------------------------------------------------
(* The throttle: counts of failures.                                        *)

LEMMA CountOK ==
  ASSUME NEW f \in Failures, NEW i \in Nat, NEW j \in Nat, j <= Horizon
  PROVE  /\ IsFiniteSet(i .. j - 1) /\ i .. j - 1 \subseteq Ages
         /\ CountIn(f, i, j) \in Nat
<1>1. i .. j - 1 \subseteq Ages /\ Horizon \in Nat
  BY ThrottleAssumption DEF Ages, Horizon
<1>2. IsFiniteSet(i .. j - 1)
  BY FS_Interval
<1>3. \A a \in i .. j - 1 : f[a] \in Nat
  BY <1>1 DEF Failures
<1> QED BY <1>1, <1>2, <1>3, SumGrows DEF CountIn

LEMMA CountsAgree ==
  ASSUME NEW f \in Failures, NEW g \in Failures, NEW i \in Nat, NEW j \in Nat, j <= Horizon,
         \A a \in Ages : i <= a /\ a < j => g[a] = f[a]
  PROVE  CountIn(g, i, j) = CountIn(f, i, j)
<1>1. IsFiniteSet(i .. j - 1) /\ i .. j - 1 \subseteq Ages
  BY CountOK
<1>2. \A a \in i .. j - 1 : f[a] \in Int /\ g[a] = f[a]
  BY <1>1 DEF Failures
<1> QED BY <1>1, <1>2, SumsAgree DEF CountIn

(* Where there were no failures the count may begin and end as well. *)
LEMMA CountWithin ==
  ASSUME NEW f \in Failures, NEW i \in Nat, NEW j \in Nat, NEW k \in Nat, NEW l \in Nat,
         i <= k, l <= j, j <= Horizon
  PROVE  /\ CountIn(f, k, l) <= CountIn(f, i, j)
         /\ (\A a \in Ages : a < k \/ a >= l => f[a] = 0) => CountIn(f, k, l) = CountIn(f, i, j)
<1>1. IsFiniteSet(i .. j - 1) /\ i .. j - 1 \subseteq Ages
  BY CountOK
<1>2. k .. l - 1 \in SUBSET (i .. j - 1)
  OBVIOUS
<1>3. \A a \in i .. j - 1 : f[a] \in Nat
  BY <1>1 DEF Failures
<1>4. CountIn(f, k, l) <= CountIn(f, i, j)
  BY <1>1, <1>2, <1>3, SumGrows DEF CountIn
<1>5. ASSUME \A a \in Ages : a < k \/ a >= l => f[a] = 0
      PROVE  CountIn(f, k, l) = CountIn(f, i, j)
  <2>1. \A a \in (i .. j - 1) \ (k .. l - 1) : f[a] = 0
    BY <1>1, <1>5
  <2>2. \A a \in i .. j - 1 : f[a] \in Int
    BY <1>3
  <2> QED BY <1>1, <1>2, <2>1, <2>2, SumOfTheRest DEF CountIn
<1> QED BY <1>4, <1>5

LEMMA OlderOK == ASSUME NEW f \in Failures PROVE Older(f) \in Failures
BY ThrottleAssumption DEF Older, Failures, Ages, Horizon

(* A tick shifts every count. *)
LEMMA CountOlder ==
  ASSUME NEW f \in Failures, NEW i \in Nat, NEW j \in Nat, j < Horizon
  PROVE  CountIn(Older(f), i + 1, j + 1) = CountIn(f, i, j)
<1> DEFINE h == [a \in i .. j - 1 |-> a + 1]
<1>0. Horizon \in Nat /\ j <= Horizon
  BY ThrottleAssumption DEF Horizon
<1>1. IsFiniteSet(i .. j - 1) /\ i .. j - 1 \subseteq Ages
  BY <1>0, CountOK
<1>2. {h[a] : a \in i .. j - 1} = (i + 1) .. (j + 1) - 1
  <2>1. \A b \in (i + 1) .. (j + 1) - 1 : b - 1 \in i .. j - 1 /\ h[b - 1] = b
    OBVIOUS
  <2>2. \A a \in i .. j - 1 : h[a] \in (i + 1) .. (j + 1) - 1
    OBVIOUS
  <2> HIDE DEF h
  <2> QED BY <2>1, <2>2
<1>3. ASSUME NEW a \in i .. j - 1 PROVE f[a] \in Int /\ Older(f)[h[a]] = f[a]
  <2>1. a \in Ages /\ a + 1 \in Ages /\ a + 1 # 0 /\ (a + 1) - 1 = a
    BY ThrottleAssumption DEF Ages, Horizon
  <2> QED BY <2>1 DEF Older, Failures
<1>4. \A a, b \in i .. j - 1 : h[a] = h[b] => a = b
  OBVIOUS
<1> HIDE DEF h
<1>5. SumFunctionOnSet(Older(f), {h[a] : a \in i .. j - 1}) = SumFunctionOnSet(f, i .. j - 1)
  <2> DEFINE S == i .. j - 1
             g == Older(f)
  <2>1. /\ IsFiniteSet(S) /\ \A a \in S : f[a] \in Int /\ g[h[a]] = f[a]
        /\ \A a, b \in S : h[a] = h[b] => a = b
    BY <1>1, <1>3, <1>4
  <2> HIDE DEF S, g
  <2>2. SumFunctionOnSet(g, {h[a] : a \in S}) = SumFunctionOnSet(f, S)
    BY <2>1, SumRenamed
  <2> QED BY <2>2 DEF S, g
<1> QED BY <1>2, <1>5 DEF CountIn

LEMMA AndNowOK ==
  ASSUME NEW f \in Failures
  PROVE  AndNow(f) \in Failures /\ CountIn(AndNow(f), 0, WINDOW) = CountIn(f, 0, WINDOW) + 1
<1> DEFINE S == 0 .. WINDOW - 1
           g == AndNow(f)
<1>0. 0 \in Ages /\ WINDOW \in Nat /\ WINDOW > 0 /\ WINDOW <= Horizon
  BY ThrottleAssumption DEF Ages, Horizon
<1>1. g \in Failures /\ g[0] = f[0] + 1 /\ \A a \in Ages : a # 0 => g[a] = f[a]
  BY <1>0 DEF AndNow, Failures
<1>2. IsFiniteSet(S) /\ S \subseteq Ages /\ 0 \in S /\ IsFiniteSet(S \ {0})
  BY <1>0, CountOK, FS_Subset
<1>3. \A a \in S : f[a] \in Int /\ g[a] \in Int
  BY <1>1, <1>2 DEF Failures
<1>4. \A a \in S \ {0} : f[a] \in Int /\ g[a] = f[a]
  BY <1>1, <1>2, <1>3
<1> HIDE DEF g
<1>5. SumFunctionOnSet(g, S \ {0}) = SumFunctionOnSet(f, S \ {0})
  <2> HIDE DEF S
  <2> QED BY <1>2, <1>4, SumsAgree
<1>6. SumFunctionOnSet(f, S \ {0}) \in Int
  <2> HIDE DEF S
  <2>1. \A a \in S \ {0} : f[a] \in Int
    BY <1>3
  <2> QED BY <1>2, <2>1, SumOne
<1>7. /\ SumFunctionOnSet(g, S) = g[0] + SumFunctionOnSet(g, S \ {0})
      /\ SumFunctionOnSet(f, S) = f[0] + SumFunctionOnSet(f, S \ {0})
  <2> HIDE DEF S
  <2> QED BY <1>2, <1>3, SumOne
<1>8. f[0] \in Int
  BY <1>2, <1>3
<1>9. SumFunctionOnSet(g, S) = SumFunctionOnSet(f, S) + 1
  BY ONLY <1>1, <1>5, <1>6, <1>7, <1>8
<1> QED BY <1>1, <1>9 DEF CountIn, g

LEMMA NoneOK ==
  /\ NoFailures \in Failures
  /\ \A f \in Failures :
       (\A a \in Ages : a < WINDOW => f[a] = 0) => CountIn(f, 0, WINDOW) = 0
<1>1. NoFailures \in Failures
  BY DEF NoFailures, Failures
<1>2. ASSUME NEW f \in Failures, \A a \in Ages : a < WINDOW => f[a] = 0
      PROVE  CountIn(f, 0, WINDOW) = 0
  <2>1. WINDOW \in Nat /\ WINDOW <= Horizon
    BY ThrottleAssumption DEF Horizon
  <2>2. IsFiniteSet(0 .. WINDOW - 1) /\ \A a \in 0 .. WINDOW - 1 : f[a] = 0
    BY <1>2, <2>1, CountOK
  <2> QED BY <2>2, SumOfZeros DEF CountIn
<1> QED BY <1>1, <1>2

-----------------------------------------------------------------------------
(* The invariant.                                                           *)

Record == [timestamps : Failures, locked : -1 .. LOCKOUT]

ThrottleTypeOK ==
  /\ DOMAIN attempts \subseteq Keys
  /\ attempts \in [DOMAIN attempts -> Record]
  /\ wrong \in [Keys -> Failures]

(* The failures of a lockout that runs: MAX_ATTEMPTS in the window before  *)
(* it began, none since.                                                   *)
LockedOut(record, failures) ==
  LET began == LOCKOUT - record.locked IN
  /\ record.timestamps = NoFailures
  /\ \A a \in Ages : a < began => failures[a] = 0
  /\ CountIn(failures, began, began + WINDOW) = MAX_ATTEMPTS

(* Otherwise the record knows the failures of the window, and more fit.    *)
Watching(record, failures) ==
  /\ \A a \in Ages : a < WINDOW => failures[a] = record.timestamps[a]
  /\ CountIn(failures, 0, WINDOW) < MAX_ATTEMPTS

Remembers(record, failures) ==
  IF record.locked > 0 THEN LockedOut(record, failures) ELSE Watching(record, failures)

(* A key without a record had no failure within the window. *)
Guarding ==
  /\ ThrottleTypeOK
  /\ \A k \in Keys :
       IF k \in DOMAIN attempts THEN Remembers(attempts[k], wrong[k])
       ELSE \A a \in Ages : a < WINDOW => wrong[k][a] = 0

LEMMA NewRecordOK ==
  ASSUME NEW f \in Failures, \A a \in Ages : a < WINDOW => f[a] = 0
  PROVE  NewRecord \in Record /\ NewRecord.locked <= 0 /\ Remembers(NewRecord, f)
<1>1. NewRecord \in Record /\ NewRecord.locked = -1 /\ NewRecord.timestamps = NoFailures
  BY NoneOK, ThrottleAssumption DEF NewRecord, Record
<1>2. CountIn(f, 0, WINDOW) = 0 /\ MAX_ATTEMPTS > 0
  BY NoneOK, ThrottleAssumption
<1> QED BY <1>1, <1>2 DEF Remembers, Watching, NoFailures

LEMMA FailedOK ==
  ASSUME NEW r \in Record, NEW f \in Failures, r.locked <= 0, Remembers(r, f)
  PROVE  Failed(r) \in Record /\ Remembers(Failed(r), AndNow(f))
<1> DEFINE kept == AndNow(InWindow(r.timestamps))
           g    == AndNow(f)
<1>0. /\ MAX_ATTEMPTS \in Nat /\ WINDOW \in Nat /\ LOCKOUT \in Nat /\ LOCKOUT > 0 /\ WINDOW > 0
      /\ Horizon \in Nat /\ WINDOW <= Horizon /\ Horizon = LOCKOUT + WINDOW
      /\ 0 \in Ages /\ r.timestamps \in Failures /\ r.locked \in -1 .. LOCKOUT
  BY ThrottleAssumption DEF Horizon, Ages, Record
<1>1. InWindow(r.timestamps) \in Failures
  BY <1>0 DEF InWindow, Failures
<1>2. kept \in Failures /\ g \in Failures /\ CountIn(g, 0, WINDOW) = CountIn(f, 0, WINDOW) + 1
  BY <1>1, AndNowOK
<1>2a. ~ (r.locked > 0) /\ Watching(r, f)
  BY <1>0 DEF Remembers
<1>3. ASSUME NEW a \in Ages
      PROVE  /\ a < WINDOW => g[a] = kept[a]
             /\ a >= WINDOW => kept[a] = 0
  <2>1. /\ g[a] = IF a = 0 THEN f[a] + 1 ELSE f[a]
        /\ kept[a] = IF a = 0 THEN InWindow(r.timestamps)[a] + 1 ELSE InWindow(r.timestamps)[a]
    BY <1>1 DEF AndNow, Failures
  <2>2. InWindow(r.timestamps)[a] = IF a < WINDOW THEN r.timestamps[a] ELSE 0
    BY DEF InWindow
  <2>3. a < WINDOW => f[a] = r.timestamps[a]
    BY <1>2a DEF Watching
  <2> HIDE DEF g, kept
  <2> QED BY <1>0, <2>1, <2>2, <2>3 DEF Ages
<1>4. CountIn(f, 0, WINDOW) \in Nat /\ CountIn(f, 0, WINDOW) < MAX_ATTEMPTS
  BY <1>0, <1>2a, CountOK DEF Watching
<1> HIDE DEF kept, g
<1>5. CountIn(kept, 0, Horizon) = CountIn(g, 0, WINDOW)
  <2>1. CountIn(kept, 0, WINDOW) = CountIn(kept, 0, Horizon)
    <3>1. \A a \in Ages : a < 0 \/ a >= WINDOW => kept[a] = 0
      BY <1>3 DEF Ages
    <3> QED BY <1>0, <1>2, <3>1, CountWithin
  <2>2. CountIn(g, 0, WINDOW) = CountIn(kept, 0, WINDOW)
    BY <1>0, <1>2, <1>3, CountsAgree
  <2> QED BY <2>1, <2>2
<1>6. CASE CountIn(kept, 0, Horizon) >= MAX_ATTEMPTS
  <2>1. Failed(r) = [timestamps |-> NoFailures, locked |-> LOCKOUT]
    BY <1>6 DEF Failed, Recorded, kept
  <2>2. CountIn(g, 0, WINDOW) = MAX_ATTEMPTS
    BY <1>0, <1>2, <1>4, <1>5, <1>6
  <2>3. Failed(r) \in Record
    BY <1>0, <2>1, NoneOK DEF Record
  <2>4. /\ Failed(r).locked = LOCKOUT /\ Failed(r).timestamps = NoFailures
        /\ LOCKOUT - Failed(r).locked = 0 /\ 0 + WINDOW = WINDOW
    BY <1>0, <2>1
  <2>5. \A a \in Ages : ~ (a < 0)
    BY DEF Ages
  <2> QED BY <1>0, <2>2, <2>3, <2>4, <2>5 DEF Remembers, LockedOut, g
<1>7. CASE ~ (CountIn(kept, 0, Horizon) >= MAX_ATTEMPTS)
  <2>1. Failed(r) = [r EXCEPT !.timestamps = kept]
    BY <1>7 DEF Failed, Recorded, kept
  <2>2. Failed(r) \in Record /\ Failed(r).timestamps = kept /\ Failed(r).locked = r.locked
    BY <1>2, <2>1 DEF Record
  <2>3. CountIn(g, 0, WINDOW) < MAX_ATTEMPTS
    BY <1>0, <1>2, <1>4, <1>5, <1>7
  <2>4. ~ (Failed(r).locked > 0)
    BY <1>2a, <2>2
  <2>5. Watching(Failed(r), g)
    BY <1>3, <2>2, <2>3 DEF Watching
  <2> QED BY <2>2, <2>4, <2>5 DEF Remembers, g
<1> QED BY <1>6, <1>7

OlderRecord(record) ==
  [timestamps |-> Older(record.timestamps),
   locked |-> IF record.locked < 0 THEN -1 ELSE record.locked - 1]

LEMMA OlderRecordOK ==
  ASSUME NEW r \in Record, NEW f \in Failures, Remembers(r, f)
  PROVE  OlderRecord(r) \in Record /\ Remembers(OlderRecord(r), Older(f))
<1> DEFINE s == OlderRecord(r)
           g == Older(f)
           began == LOCKOUT - r.locked
<1>0. /\ MAX_ATTEMPTS \in Nat \ {0} /\ WINDOW \in Nat \ {0} /\ LOCKOUT \in Nat \ {0} /\ LOCKOUT >= WINDOW
      /\ Horizon \in Nat /\ Horizon = LOCKOUT + WINDOW
      /\ r.timestamps \in Failures /\ r.locked \in -1 .. LOCKOUT
  BY ThrottleAssumption DEF Horizon, Record
<1>1. g \in Failures /\ Older(r.timestamps) \in Failures
  BY <1>0, OlderOK
<1>2. /\ s.timestamps = Older(r.timestamps)
      /\ s.locked = IF r.locked < 0 THEN -1 ELSE r.locked - 1
  BY DEF OlderRecord
<1>3. s \in Record
  BY <1>0, <1>1 DEF OlderRecord, Record
<1>4. \A a \in Ages : /\ a = 0 => g[a] = 0 /\ s.timestamps[a] = 0
                      /\ a # 0 => /\ a - 1 \in Ages /\ a - 1 < a
                                  /\ g[a] = f[a - 1] /\ s.timestamps[a] = r.timestamps[a - 1]
  BY <1>0, <1>2 DEF Older, Ages
<1> HIDE DEF s, g
<1>5. CASE r.locked > 0
  <2>1. /\ r.timestamps = NoFailures /\ \A a \in Ages : a < began => f[a] = 0
        /\ CountIn(f, began, began + WINDOW) = MAX_ATTEMPTS
    BY <1>5 DEF Remembers, LockedOut
  <2>2. \A a \in Ages : a < began + 1 => g[a] = 0
    <3> SUFFICES ASSUME NEW a \in Ages, a < began + 1 PROVE g[a] = 0
      OBVIOUS
    <3>1. CASE a = 0
      BY <1>4, <3>1
    <3>2. CASE a # 0
      <4>1. a - 1 \in Ages /\ a - 1 < began /\ g[a] = f[a - 1]
        BY <1>0, <1>4, <3>2 DEF Ages
      <4> QED BY <2>1, <4>1
    <3> QED BY <3>1, <3>2
  <2>3. s.timestamps = NoFailures
    <3>1. \A a \in Ages : s.timestamps[a] = 0
      BY <1>4, <2>1 DEF NoFailures
    <3>2. s.timestamps \in [Ages -> Nat]
      BY <1>3 DEF Record, Failures
    <3> QED BY <3>1, <3>2 DEF NoFailures
  <2>4. CASE r.locked > 1
    <3>1. began \in Nat /\ began + WINDOW \in Nat /\ began + WINDOW < Horizon
      BY <1>0, <2>4
    <3>2. CountIn(g, began + 1, (began + WINDOW) + 1) = MAX_ATTEMPTS
      <4> HIDE DEF began
      <4> QED BY <2>1, <3>1, CountOlder DEF g
    <3>3. s.locked > 0 /\ LOCKOUT - s.locked = began + 1 /\ (began + WINDOW) + 1 = (began + 1) + WINDOW
      BY <1>0, <1>2, <2>4
    <3> HIDE DEF began
    <3>4. LockedOut(s, g)
      BY <2>2, <2>3, <3>2, <3>3 DEF LockedOut
    <3> QED BY <1>3, <3>3, <3>4 DEF Remembers, s, g
  <2>5. CASE r.locked = 1
    <3>1. ~ (s.locked > 0) /\ began + 1 >= WINDOW /\ began \in Nat
      BY <1>0, <1>2, <2>5
    <3>2. \A a \in Ages : a < WINDOW => g[a] = 0
      BY <1>0, <2>2, <3>1 DEF Ages
    <3>3. CountIn(g, 0, WINDOW) = 0
      BY <1>1, <3>2, NoneOK
    <3>4. Watching(s, g)
      BY <1>0, <2>3, <3>2, <3>3 DEF Watching, NoFailures
    <3> QED BY <1>3, <3>1, <3>4 DEF Remembers, s, g
  <2> QED BY <1>0, <1>5, <2>4, <2>5
<1>6. CASE ~ (r.locked > 0)
  <2>1. /\ \A a \in Ages : a < WINDOW => f[a] = r.timestamps[a]
        /\ CountIn(f, 0, WINDOW) < MAX_ATTEMPTS
    BY <1>6 DEF Remembers, Watching
  <2>2. \A a \in Ages : a < WINDOW => g[a] = s.timestamps[a]
    <3> SUFFICES ASSUME NEW a \in Ages, a < WINDOW PROVE g[a] = s.timestamps[a]
      OBVIOUS
    <3>1. a # 0 => a - 1 \in Ages /\ a - 1 < WINDOW
      BY <1>0, <1>4 DEF Ages
    <3> QED BY <1>4, <2>1, <3>1
  <2>3. CountIn(g, 0, WINDOW) < MAX_ATTEMPTS
    <3>1. 0 \in Nat /\ WINDOW - 1 \in Nat /\ WINDOW - 1 < Horizon /\ (WINDOW - 1) + 1 = WINDOW
      BY <1>0
    <3>2. CountIn(g, 0 + 1, (WINDOW - 1) + 1) = CountIn(f, 0, WINDOW - 1)
      BY <3>1, CountOlder DEF g
    <3>3. CountIn(f, 0, WINDOW - 1) <= CountIn(f, 0, WINDOW)
      BY <1>0, <3>1, CountWithin
    <3>4. CountIn(g, 0, WINDOW) = CountIn(g, 1, WINDOW)
      <4> DEFINE h == [a \in Ages |-> IF a < WINDOW THEN g[a] ELSE 0]
      <4>1. h \in Failures /\ \A a \in Ages : 0 <= a /\ a < WINDOW => h[a] = g[a]
        BY <1>1 DEF Failures
      <4>2. \A a \in Ages : 1 <= a /\ a < WINDOW => h[a] = g[a]
        BY <4>1 DEF Ages
      <4>3. \A a \in Ages : a < 1 \/ a >= WINDOW => h[a] = 0
        BY <1>0, <1>4 DEF Ages
      <4> HIDE DEF h
      <4>4. CountIn(h, 0, WINDOW) = CountIn(g, 0, WINDOW) /\ CountIn(h, 1, WINDOW) = CountIn(g, 1, WINDOW)
        BY <1>0, <1>1, <4>1, <4>2, CountsAgree
      <4>5. CountIn(h, 1, WINDOW) = CountIn(h, 0, WINDOW)
        BY <1>0, <4>1, <4>3, CountWithin
      <4> QED BY <4>4, <4>5
    <3>5. CountIn(f, 0, WINDOW - 1) \in Nat /\ CountIn(f, 0, WINDOW) \in Nat
      <4>1. WINDOW - 1 <= Horizon /\ WINDOW <= Horizon
        BY <1>0
      <4> QED BY <1>0, <3>1, <4>1, CountOK
    <3> QED BY <1>0, <2>1, <3>2, <3>3, <3>4, <3>5
  <2>4. ~ (s.locked > 0)
    BY <1>0, <1>2, <1>6
  <2> QED BY <1>3, <2>2, <2>3, <2>4 DEF Remembers, Watching, s, g
<1> QED BY <1>5, <1>6

-----------------------------------------------------------------------------
(* Its steps.                                                               *)

LEMMA KeysOK ==
  ASSUME NEW source \in Sources, NEW name \in Names
  PROVE  Key(source, name) \in Keys
BY ThrottleAssumption DEF Key, Keys, Range

LEMMA PruneOK ==
  ASSUME NEW records, NEW failures \in [Keys -> Failures],
         DOMAIN records \subseteq Keys, records \in [DOMAIN records -> Record],
         \A k \in Keys :
           IF k \in DOMAIN records THEN Remembers(records[k], failures[k])
           ELSE \A a \in Ages : a < WINDOW => failures[k][a] = 0,
         attempts' = Pruned(records), wrong' = failures
  PROVE  Guarding'
<1>1. CASE attempts' = records
  BY <1>1 DEF Guarding, ThrottleTypeOK
<1>2. CASE attempts' = Restrict(records, {k \in DOMAIN records : ~ Stale(records[k])})
  <2>1. /\ DOMAIN attempts' = {k \in DOMAIN records : ~ Stale(records[k])}
        /\ \A k \in DOMAIN attempts' : attempts'[k] = records[k]
    BY <1>2 DEF Restrict
  <2>2. attempts' \in [DOMAIN attempts' -> Record] /\ DOMAIN attempts' \subseteq Keys
    BY <1>2, <2>1 DEF Restrict
  <2>3. ASSUME NEW k \in DOMAIN records, Stale(records[k]), NEW a \in Ages, a < WINDOW
        PROVE  failures[k][a] = 0
    <3>1. /\ records[k] \in Record /\ Remembers(records[k], failures[k])
          /\ records[k].locked < 0
          /\ records[k].timestamps[a] > 0 => a > WINDOW
      BY <2>3 DEF Stale, Past
    <3>2. records[k].locked \in Int /\ records[k].timestamps[a] \in Nat /\ WINDOW \in Nat /\ a \in Nat
      BY <3>1, ThrottleAssumption DEF Record, Failures, Ages, Horizon
    <3>3. failures[k][a] = records[k].timestamps[a]
      BY <2>3, <3>1, <3>2 DEF Remembers, Watching
    <3> QED BY <2>3, <3>1, <3>2, <3>3
  <2> QED BY <2>1, <2>2, <2>3 DEF Guarding, ThrottleTypeOK
<1> QED BY <1>1, <1>2 DEF Pruned

LEMMA WrongOK ==
  ASSUME Guarding, NEW source \in Sources, NEW name \in Names, WrongPassword(source, name)
  PROVE  Guarding'
<1> DEFINE k       == Key(source, name)
           before  == IF k \in DOMAIN attempts THEN attempts[k] ELSE NewRecord
           records == [j \in DOMAIN attempts \cup {k} |-> IF j = k THEN Failed(before) ELSE attempts[j]]
           after   == [wrong EXCEPT ![k] = AndNow(@)]
<1>1. /\ attempts' = Pruned(records) /\ wrong' = after
      /\ k \in DOMAIN attempts => attempts[k].locked <= 0
  BY DEF WrongPassword, LoginAllowed
<1>2. k \in Keys
  BY KeysOK
<1> HIDE DEF k
<1>3. /\ wrong \in [Keys -> Failures] /\ wrong[k] \in Failures
      /\ DOMAIN attempts \subseteq Keys /\ \A j \in DOMAIN attempts : attempts[j] \in Record
  BY <1>2 DEF Guarding, ThrottleTypeOK
<1>4. before \in Record /\ before.locked <= 0 /\ Remembers(before, wrong[k])
  <2>1. CASE k \in DOMAIN attempts
    BY <1>1, <1>2, <1>3, <2>1 DEF Guarding
  <2>2. CASE k \notin DOMAIN attempts
    <3>1. \A a \in Ages : a < WINDOW => wrong[k][a] = 0
      BY <1>2, <2>2 DEF Guarding
    <3> QED BY <1>3, <2>2, <3>1, NewRecordOK
  <2> QED BY <2>1, <2>2
<1> HIDE DEF before
<1>5. Failed(before) \in Record /\ Remembers(Failed(before), AndNow(wrong[k]))
  BY <1>3, <1>4, FailedOK
<1>6. /\ DOMAIN records = DOMAIN attempts \cup {k} /\ records[k] = Failed(before)
      /\ \A j \in DOMAIN attempts : j # k => records[j] = attempts[j]
  OBVIOUS
<1>7. records \in [DOMAIN records -> Record]
  BY <1>3, <1>5
<1>8. /\ after \in [Keys -> Failures] /\ after[k] = AndNow(wrong[k])
      /\ \A j \in Keys : j # k => after[j] = wrong[j]
  BY <1>2, <1>3, AndNowOK
<1> HIDE DEF records, after
<1>9. ASSUME NEW j \in Keys
      PROVE  IF j \in DOMAIN records THEN Remembers(records[j], after[j])
             ELSE \A a \in Ages : a < WINDOW => after[j][a] = 0
  <2>1. CASE j = k
    BY <1>5, <1>6, <1>8, <2>1
  <2>2. CASE j # k
    BY <1>6, <1>8, <2>2 DEF Guarding
  <2> QED BY <2>1, <2>2
<1>10. DOMAIN records \subseteq Keys
  BY <1>2, <1>3, <1>6
<1> QED BY <1>1, <1>7, <1>8, <1>9, <1>10, PruneOK

LEMMA RightOK ==
  ASSUME Guarding, NEW source \in Sources, NEW name \in Names, RightPassword(source, name)
  PROVE  Guarding'
<1> DEFINE k == Key(source, name)
<1>1. attempts' = Restrict(attempts, DOMAIN attempts \ {k}) /\ wrong' = [wrong EXCEPT ![k] = NoFailures]
  BY DEF RightPassword
<1>2. k \in Keys
  BY KeysOK
<1> HIDE DEF k
<1>3. /\ DOMAIN attempts' = DOMAIN attempts \ {k}
      /\ \A j \in DOMAIN attempts' : attempts'[j] = attempts[j]
  BY <1>1 DEF Restrict
<1>4. ThrottleTypeOK'
  BY <1>1, <1>3, NoneOK DEF Guarding, ThrottleTypeOK, Restrict
<1>5. /\ wrong'[k] = NoFailures
      /\ \A j \in Keys : j # k => wrong'[j] = wrong[j]
  BY <1>1, <1>2 DEF Guarding, ThrottleTypeOK
<1>6. ASSUME NEW j \in Keys
      PROVE  IF j \in DOMAIN attempts' THEN Remembers(attempts'[j], wrong'[j])
             ELSE \A a \in Ages : a < WINDOW => wrong'[j][a] = 0
  <2>1. CASE j = k
    BY <1>3, <1>5, <2>1 DEF NoFailures
  <2>2. CASE j # k
    BY <1>3, <1>5, <2>2 DEF Guarding
  <2> QED BY <2>1, <2>2
<1> QED BY <1>4, <1>6 DEF Guarding

LEMMA TickOK == ASSUME Guarding, ThrottleTick PROVE Guarding'
<1>1. /\ attempts' = [k \in DOMAIN attempts |-> OlderRecord(attempts[k])]
      /\ wrong' = [k \in Keys |-> Older(wrong[k])]
  BY DEF ThrottleTick, OlderRecord
<1>2. /\ wrong \in [Keys -> Failures]
      /\ DOMAIN attempts \subseteq Keys /\ \A k \in DOMAIN attempts : attempts[k] \in Record
  BY DEF Guarding, ThrottleTypeOK
<1>3. \A k \in DOMAIN attempts :
        OlderRecord(attempts[k]) \in Record /\ Remembers(OlderRecord(attempts[k]), Older(wrong[k]))
  BY <1>2, OlderRecordOK DEF Guarding
<1>4. ThrottleTypeOK'
  <2>1. wrong' \in [Keys -> Failures]
    BY <1>1, <1>2, OlderOK
  <2> QED BY <1>1, <1>2, <1>3, <2>1 DEF ThrottleTypeOK
<1>5. ASSUME NEW k \in Keys
      PROVE  IF k \in DOMAIN attempts' THEN Remembers(attempts'[k], wrong'[k])
             ELSE \A a \in Ages : a < WINDOW => wrong'[k][a] = 0
  <2>0. DOMAIN attempts' = DOMAIN attempts /\ wrong'[k] = Older(wrong[k])
    BY <1>1
  <2>1. CASE k \in DOMAIN attempts
    BY <1>1, <1>3, <2>0, <2>1
  <2>2. CASE k \notin DOMAIN attempts
    <3> SUFFICES ASSUME NEW a \in Ages, a < WINDOW PROVE Older(wrong[k])[a] = 0
      BY <2>0, <2>2
    <3>1. a # 0 => a - 1 \in Ages /\ a - 1 < WINDOW
      BY ThrottleAssumption DEF Ages, Horizon
    <3>2. \A b \in Ages : b < WINDOW => wrong[k][b] = 0
      BY <2>2 DEF Guarding
    <3> QED BY <3>1, <3>2 DEF Older
  <2> QED BY <2>1, <2>2
<1> QED BY <1>4, <1>5 DEF Guarding

LEMMA ThrottleInitOK == ThrottleInit => Guarding
<1> SUFFICES ASSUME ThrottleInit PROVE Guarding
  OBVIOUS
<1>1. DOMAIN attempts = {} /\ wrong = [k \in Keys |-> NoFailures]
  BY DEF ThrottleInit
<1>2. attempts \in [DOMAIN attempts -> Record]
  BY <1>1 DEF ThrottleInit
<1> QED BY <1>1, <1>2, NoneOK DEF Guarding, ThrottleTypeOK, NoFailures

LEMMA AlwaysGuarding == ThrottleSpec => []Guarding
<1>1. Guarding /\ [ThrottleNext]_throttleVars => Guarding'
  <2> SUFFICES ASSUME Guarding, [ThrottleNext]_throttleVars PROVE Guarding'
    OBVIOUS
  <2>1. CASE ThrottleTick
    BY <2>1, TickOK
  <2>2. ASSUME NEW source \in Sources, NEW name \in Names,
               WrongPassword(source, name) \/ RightPassword(source, name)
        PROVE  Guarding'
    BY <2>2, WrongOK, RightOK
  <2>3. CASE UNCHANGED throttleVars
    BY <2>3 DEF throttleVars, Guarding, ThrottleTypeOK
  <2> QED BY <2>1, <2>2, <2>3 DEF ThrottleNext
<1> QED BY <1>1, ThrottleInitOK, PTL DEF ThrottleSpec

(* Every reachable state of the throttle is well typed. *)
THEOREM ThrottleTypeCorrect == ThrottleSpec => []ThrottleTypeOK
<1>1. Guarding => ThrottleTypeOK
  BY DEF Guarding
<1> QED BY <1>1, AlwaysGuarding, PTL

(* However attempts are spread over time and over keys, and whenever the    *)
(* map is pruned, no window holds more than MAX_ATTEMPTS wrong passwords of *)
(* one address against one identifier with no right one between.            *)
THEOREM GuessesAreAlwaysBounded == ThrottleSpec => []GuessesAreBounded
<1>1. Guarding => GuessesAreBounded
  <2> SUFFICES ASSUME Guarding, NEW k \in Keys PROVE CountIn(wrong[k], 0, WINDOW) <= MAX_ATTEMPTS
    BY DEF GuessesAreBounded
  <2>0. /\ MAX_ATTEMPTS \in Nat /\ WINDOW \in Nat /\ LOCKOUT \in Nat /\ WINDOW <= Horizon
        /\ Horizon = LOCKOUT + WINDOW /\ wrong[k] \in Failures
    BY ThrottleAssumption DEF Horizon, Guarding, ThrottleTypeOK
  <2>1. CountIn(wrong[k], 0, WINDOW) \in Nat
    BY <2>0, CountOK
  <2>2. CASE k \notin DOMAIN attempts
    BY <2>0, <2>2, NoneOK DEF Guarding
  <2>3. CASE k \in DOMAIN attempts /\ ~ (attempts[k].locked > 0)
    BY <2>0, <2>1, <2>3 DEF Guarding, Remembers, Watching
  <2>4. CASE k \in DOMAIN attempts /\ attempts[k].locked > 0
    <3> DEFINE began == LOCKOUT - attempts[k].locked
               to    == began + WINDOW
               f     == wrong[k]
    <3>1. attempts[k].locked \in -1 .. LOCKOUT
      BY <2>4 DEF Guarding, ThrottleTypeOK, Record
    <3>2. (\A a \in Ages : a < began => f[a] = 0) /\ CountIn(f, began, to) = MAX_ATTEMPTS
      BY <2>4 DEF Guarding, Remembers, LockedOut
    <3>3. began \in Nat /\ to \in Nat /\ WINDOW <= to /\ to <= Horizon
      BY <2>0, <2>4, <3>1
    <3> DEFINE h == [a \in Ages |-> IF a < to THEN f[a] ELSE 0]
    <3> HIDE DEF began, to
    <3>4. /\ h \in Failures
          /\ \A a \in Ages : 0 <= a /\ a < to => h[a] = f[a]
          /\ \A a \in Ages : began <= a /\ a < to => h[a] = f[a]
          /\ \A a \in Ages : a < began \/ a >= to => h[a] = 0
      BY <2>0, <3>2, <3>3 DEF Ages, Failures
    <3> HIDE DEF h, f
    <3>5. f \in Failures
      BY <2>0 DEF f
    <3>6. CountIn(h, 0, to) = CountIn(f, 0, to) /\ CountIn(h, began, to) = CountIn(f, began, to)
      BY <3>3, <3>4, <3>5, CountsAgree
    <3>7. CountIn(h, began, to) = CountIn(h, 0, to)
      BY <3>3, <3>4, CountWithin
    <3>8. CountIn(f, 0, WINDOW) <= CountIn(f, 0, to)
      BY <2>0, <3>3, <3>5, CountWithin
    <3> QED BY <3>2, <3>6, <3>7, <3>8 DEF f
  <2> QED BY <2>2, <2>3, <2>4
<1> QED BY <1>1, AlwaysGuarding, PTL

(* Nobody is locked out early: a lockout that runs began when MAX_ATTEMPTS  *)
(* wrong passwords lay inside one window, with no right one since.          *)
THEOREM LockoutIsAlwaysEarned == ThrottleSpec => []LockoutIsEarned
<1>1. Guarding => LockoutIsEarned
  <2> SUFFICES ASSUME Guarding, NEW k \in DOMAIN attempts, attempts[k].locked > 0
               PROVE  CountIn(wrong[k], LOCKOUT - attempts[k].locked,
                              LOCKOUT - attempts[k].locked + WINDOW) >= MAX_ATTEMPTS
    BY DEF LockoutIsEarned
  <2>1. k \in Keys /\ MAX_ATTEMPTS \in Nat
    BY ThrottleAssumption DEF Guarding, ThrottleTypeOK
  <2>2. LockedOut(attempts[k], wrong[k])
    BY <2>1 DEF Guarding, Remembers
  <2> QED BY <2>1, <2>2 DEF LockedOut
<1> QED BY <1>1, AlwaysGuarding, PTL
=============================================================================
