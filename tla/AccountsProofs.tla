--------------------------- MODULE AccountsProofs ---------------------------
(***************************************************************************)
(* Theorems about Accounts, for any sets of addresses, accounts, links and *)
(* workers, any lifetime of a link and any clock.                          *)
(***************************************************************************)
EXTENDS Accounts, FiniteSetTheorems, TLAPS

(* Rows refer to rows, and only a link that has been consumed was used.    *)
LinksOK ==
  /\ mailed \subseteq Created
  /\ \A l \in Created : links[l].user \in Registered
  /\ \A l \in Links : uses[l] # 0 => links[l].consumed
  /\ \A l \in Links : links[l].consumed => l \in Created

AccountsOK ==
  /\ UniqueEmails
  /\ VerifiedByMail
  /\ \A u \in Users : accounts[u].verified => u \in Registered

(* What a request holds is what its earlier statements established.        *)
Grounded(r) ==
  /\ r.pc = "insert" => r.email \in Emails
  /\ r.pc \in {"insert", "role"} => r.purpose = "verify_email"
  /\ r.pc \in {"role", "invalidate", "link", "consume", "apply"} => r.user \in Registered
  /\ r.pc = "mail" => r.link \in Created
  /\ r.pc \in {"consume", "apply"} => r.link \in mailed /\ links[r.link].user = r.user
  /\ r.pc = "apply" => links[r.link].consumed

RequestsOK == \A h \in Handlers : Grounded(req[h])

Base == TypeOK /\ LinksOK /\ AccountsOK /\ RequestsOK

LEMMA NoneIsNew == None \notin Emails /\ None \notin Users /\ None \notin Links
  BY AccountsAssumption

LEMMA IdleType == Idle \in Request /\ Idle.pc = "idle"
  BY DEF Idle, Request, Pc, Purpose

LEMMA BecomeType ==
  ASSUME TypeOK, NEW h \in Handlers, NEW r \in Request, Become(h, r)
  PROVE  /\ req' \in [Handlers -> Request]
         /\ req'[h] = r
         /\ \A g \in Handlers \ {h} : req'[g] = req[g]
  BY DEF TypeOK, Become

LEMMA GotoType ==
  ASSUME TypeOK, NEW h \in Handlers, NEW pc \in Pc, Goto(h, pc)
  PROVE  /\ req' \in [Handlers -> Request]
         /\ req'[h] = [req[h] EXCEPT !.pc = pc]
         /\ req'[h].pc = pc /\ req'[h].user = req[h].user /\ req'[h].link = req[h].link
         /\ req'[h].purpose = req[h].purpose
         /\ \A g \in Handlers \ {h} : req'[g] = req[g]
  BY DEF TypeOK, Goto, Request

LEMMA DoneType ==
  ASSUME TypeOK, NEW h \in Handlers, Done(h)
  PROVE  /\ req' \in [Handlers -> Request]
         /\ req'[h] = Idle /\ req'[h].pc = "idle"
         /\ \A g \in Handlers \ {h} : req'[g] = req[g]
  BY IdleType, BecomeType DEF Done

(* What no step undoes: accounts and links stay, mail cannot be unsent, and *)
(* consumed links stay consumed.                                            *)
Kept ==
  /\ Registered \subseteq Registered'
  /\ mailed \subseteq mailed'
  /\ \A l \in Created : /\ l \in Created'
                        /\ links'[l].user = links[l].user
                        /\ links[l].consumed => links'[l].consumed

LEMMA RequestsKept ==
  ASSUME Base, Kept, NEW h \in Handlers, \A g \in Handlers \ {h} : req'[g] = req[g],
         Grounded(req[h])'
  PROVE  RequestsOK'
  <1>1. ASSUME NEW g \in Handlers, g # h PROVE Grounded(req[g])'
    <2>1. Grounded(req[g]) /\ req'[g] = req[g]
      BY <1>1 DEF Base, RequestsOK
    <2>2. mailed \subseteq Created
      BY DEF Base, LinksOK
    <2> QED
      BY <2>1, <2>2 DEF Kept, Grounded
  <1> QED
    BY <1>1 DEF RequestsOK

(* A step of one worker that leaves every table alone.                     *)
LEMMA TablesKept ==
  ASSUME Base, TypeOK', UNCHANGED <<accounts, links, mailed, uses>>,
         NEW h \in Handlers, \A g \in Handlers \ {h} : req'[g] = req[g], Grounded(req[h])'
  PROVE  Base'
  <1>1. Kept
    BY DEF Kept, Registered, Created
  <1>2. LinksOK'
    BY DEF Base, LinksOK, Registered, Created
  <1>3. AccountsOK'
    BY DEF Base, AccountsOK, UniqueEmails, VerifiedByMail, Registered
  <1> QED
    BY <1>1, <1>2, <1>3, RequestsKept DEF Base

LEMMA StartBase ==
  ASSUME Base, NEW h \in Handlers, RegisterFind(h) \/ ForgotFind(h) \/ UseFind(h)
  PROVE  Base'
  <1> USE DEF Base
  <1>1. CASE RegisterFind(h)
    <2>1. PICK e \in Emails : Become(h, [Idle EXCEPT !.pc = "insert", !.email = e])
      BY <1>1 DEF RegisterFind
    <2> DEFINE r == [Idle EXCEPT !.pc = "insert", !.email = e]
    <2>2. r \in Request /\ r.pc = "insert" /\ r.email = e /\ r.purpose = "verify_email"
      BY DEF Idle, Request, Pc, Purpose
    <2>3. /\ req' \in [Handlers -> Request] /\ req'[h] = r
          /\ \A g \in Handlers \ {h} : req'[g] = req[g]
      BY <2>1, <2>2, BecomeType
    <2>4. Grounded(req[h])'
      BY <2>2, <2>3 DEF Grounded
    <2>5. TypeOK'
      BY <1>1, <2>3 DEF RegisterFind, TypeOK
    <2> QED
      BY <1>1, <2>3, <2>4, <2>5, TablesKept DEF RegisterFind
  <1>2. CASE ForgotFind(h)
    <2>1. PICK u \in Registered :
            Become(h, [Idle EXCEPT !.pc = "invalidate", !.user = u, !.purpose = "password_reset"])
      BY <1>2 DEF ForgotFind
    <2> DEFINE r == [Idle EXCEPT !.pc = "invalidate", !.user = u, !.purpose = "password_reset"]
    <2>2. r \in Request /\ r.pc = "invalidate" /\ r.user = u
      BY DEF Idle, Request, Pc, Purpose, Registered
    <2>3. /\ req' \in [Handlers -> Request] /\ req'[h] = r
          /\ \A g \in Handlers \ {h} : req'[g] = req[g]
      BY <2>1, <2>2, BecomeType
    <2>4. UNCHANGED <<accounts, links, mailed, clock, uses>>
      BY <1>2 DEF ForgotFind
    <2>5. Grounded(req[h])'
      BY <2>2, <2>3, <2>4 DEF Grounded, Registered
    <2>6. TypeOK'
      BY <2>3, <2>4 DEF TypeOK
    <2> QED
      BY <2>3, <2>4, <2>5, <2>6, TablesKept
  <1>3. CASE UseFind(h)
    <2>1. PICK l \in mailed :
            Become(h, [Idle EXCEPT !.pc = "consume", !.user = links[l].user, !.link = l,
                                   !.purpose = links[l].purpose])
      BY <1>3 DEF UseFind
    <2>2. l \in Created /\ l \in Links /\ links[l].user \in Registered
          /\ links[l].purpose \in Purpose
      BY DEF LinksOK, Created, TypeOK, Link
    <2> DEFINE r == [Idle EXCEPT !.pc = "consume", !.user = links[l].user, !.link = l,
                                 !.purpose = links[l].purpose]
    <2>3. r \in Request /\ r.pc = "consume" /\ r.user = links[l].user /\ r.link = l
      BY <2>2 DEF Idle, Request, Pc, Purpose, Registered
    <2>4. /\ req' \in [Handlers -> Request] /\ req'[h] = r
          /\ \A g \in Handlers \ {h} : req'[g] = req[g]
      BY <2>1, <2>3, BecomeType
    <2>5. UNCHANGED <<accounts, links, mailed, clock, uses>>
      BY <1>3 DEF UseFind
    <2>6. Grounded(req[h])'
      BY <2>2, <2>3, <2>4, <2>5 DEF Grounded, Registered
    <2>7. TypeOK'
      BY <2>4, <2>5 DEF TypeOK
    <2> QED
      BY <2>4, <2>5, <2>6, <2>7, TablesKept
  <1> QED
    BY <1>1, <1>2, <1>3

(* A step that ends a request and leaves every table alone.                *)
LEMMA EndBase ==
  ASSUME Base, NEW h \in Handlers, Done(h), UNCHANGED <<accounts, links, mailed, clock, uses>>
  PROVE  Base'
  <1>1. TypeOK'
    BY DoneType DEF Base, TypeOK
  <1>2. Grounded(req[h])'
    BY DoneType DEF Base, Grounded
  <1> QED
    BY <1>1, <1>2, DoneType, TablesKept DEF Base

-----------------------------------------------------------------------------
(* The steps that write accounts.                                          *)

LEMMA InsertBase ==
  ASSUME Base, NEW h \in Handlers, NEW u \in Users \ Registered, At(h, "insert"),
         ~Taken(req[h].email),
         accounts' = [accounts EXCEPT ![u] = [NoAccount EXCEPT !.email = req[h].email]],
         Become(h, [req[h] EXCEPT !.pc = "role", !.user = u]),
         UNCHANGED <<links, mailed, clock, uses>>
  PROVE  Base'
  <1> DEFINE e == req[h].email
             r == [req[h] EXCEPT !.pc = "role", !.user = u]
  <1> USE DEF Base
  <1>1. e \in Emails /\ e # None /\ req[h].purpose = "verify_email"
    BY NoneIsNew DEF RequestsOK, Grounded, At
  <1>2. r \in Request /\ r.pc = "role" /\ r.user = u /\ r.purpose = "verify_email"
    BY <1>1 DEF TypeOK, Request, Pc
  <1>3. /\ req' \in [Handlers -> Request] /\ req'[h] = r
        /\ \A g \in Handlers \ {h} : req'[g] = req[g]
    BY <1>2, BecomeType
  <1>4. [NoAccount EXCEPT !.email = e] \in Account
        /\ [NoAccount EXCEPT !.email = e].email = e
        /\ ~[NoAccount EXCEPT !.email = e].verified
    BY <1>1 DEF NoAccount, Account
  <1>5. /\ accounts' \in [Users -> Account]
        /\ accounts'[u].email = e /\ ~accounts'[u].verified
        /\ \A v \in Users \ {u} : accounts'[v] = accounts[v]
    BY <1>4 DEF TypeOK
  <1>6. Registered' = Registered \cup {u}
    BY <1>1, <1>5 DEF Registered
  <1>7. TypeOK'
    BY <1>3, <1>5 DEF TypeOK
  <1>8. LinksOK'
    BY <1>6 DEF LinksOK, Created
  <1>9. UniqueEmails'
    BY <1>5, <1>6 DEF AccountsOK, UniqueEmails, Taken, Registered
  <1>10. VerifiedByMail'
    BY <1>5 DEF AccountsOK, VerifiedByMail
  <1>11. \A v \in Users : accounts'[v].verified => v \in Registered'
    BY <1>5, <1>6 DEF AccountsOK
  <1>12. Kept
    BY <1>6 DEF Kept, Created
  <1>13. Grounded(req[h])'
    BY <1>2, <1>3, <1>6 DEF Grounded
  <1> QED
    BY <1>3, <1>7, <1>8, <1>9, <1>10, <1>11, <1>12, <1>13, RequestsKept DEF AccountsOK

(* A step that writes the account of one user and not its address.         *)
LEMMA AccountKept ==
  ASSUME Base, NEW u \in Registered, NEW row \in Account,
         row.email = accounts[u].email,
         accounts' = [accounts EXCEPT ![u] = row],
         UNCHANGED <<links, mailed>>
  PROVE  /\ accounts' \in [Users -> Account] /\ Registered' = Registered /\ Kept
         /\ UniqueEmails'
         /\ \A v \in Users : accounts'[v].verified => v \in Registered'
         /\ \A v \in Users \ {u} : accounts'[v] = accounts[v]
         /\ accounts'[u] = row
  <1>1. u \in Users
    BY DEF Registered
  <1>2. /\ accounts' \in [Users -> Account] /\ accounts'[u] = row
        /\ \A v \in Users \ {u} : accounts'[v] = accounts[v]
    BY <1>1 DEF Base, TypeOK
  <1>3. \A v \in Users : accounts'[v].email = accounts[v].email
    BY <1>1, <1>2
  <1>4. Registered' = Registered
    BY <1>3 DEF Registered
  <1>5. UniqueEmails'
    BY <1>3, <1>4 DEF Base, AccountsOK, UniqueEmails, Registered
  <1>6. \A v \in Users : accounts'[v].verified => v \in Registered'
    BY <1>2, <1>4 DEF Base, AccountsOK
  <1>7. Kept
    BY <1>4 DEF Kept, Created
  <1> QED
    BY <1>2, <1>4, <1>5, <1>6, <1>7

LEMMA AssignRoleBase ==
  ASSUME Base, NEW h \in Handlers, AssignRole(h)
  PROVE  /\ Base'
         /\ accounts'[req[h].user].role = "held"
         /\ \A v \in Users \ {req[h].user} : accounts'[v] = accounts[v]
  <1> DEFINE u == req[h].user
             row == [accounts[u] EXCEPT !.role = "held"]
  <1> USE DEF Base
  <1>1. u \in Registered /\ u \in Users
    BY DEF AssignRole, At, RequestsOK, Grounded, Registered
  <1>2. /\ row \in Account /\ row.email = accounts[u].email /\ row.role = "held"
        /\ row.verified = accounts[u].verified
    BY <1>1 DEF TypeOK, Account
  <1>3. accounts' = [accounts EXCEPT ![u] = row] /\ UNCHANGED <<links, mailed, clock, uses>>
    BY DEF AssignRole
  <1>4. /\ accounts' \in [Users -> Account] /\ Registered' = Registered /\ Kept
        /\ UniqueEmails'
        /\ \A v \in Users : accounts'[v].verified => v \in Registered'
        /\ \A v \in Users \ {u} : accounts'[v] = accounts[v]
        /\ accounts'[u] = row
    BY <1>1, <1>2, <1>3, AccountKept
  <1>5. VerifiedByMail'
    BY <1>2, <1>3, <1>4 DEF AccountsOK, VerifiedByMail
  <1>6. Goto(h, "link")
    BY DEF AssignRole
  <1>7. TypeOK'
    BY <1>3, <1>4, <1>6, GotoType DEF TypeOK, Pc
  <1>8. LinksOK'
    BY <1>3, <1>4 DEF LinksOK, Created
  <1>9. Grounded(req[h])'
    BY <1>1, <1>4, <1>6, GotoType DEF Grounded, Pc
  <1>10. RequestsOK'
    BY <1>4, <1>6, <1>9, GotoType, RequestsKept DEF Pc
  <1> QED
    BY <1>2, <1>4, <1>5, <1>7, <1>8, <1>10 DEF AccountsOK

LEMMA ApplyBase ==
  ASSUME Base, NEW h \in Handlers, Apply(h)
  PROVE  /\ Base'
         /\ \A v \in Users : accounts'[v].role = accounts[v].role
         /\ Registered' = Registered
  <1> DEFINE u == req[h].user
             l == req[h].link
             row == [accounts[u] EXCEPT !.status = "active", !.verified = TRUE]
  <1> USE DEF Base
  <1>1. /\ u \in Registered /\ u \in Users /\ l \in mailed /\ l \in Links
        /\ links[l].user = u /\ links[l].consumed
    BY DEF Apply, At, RequestsOK, Grounded, Registered, TypeOK
  <1>2. row \in Account /\ row.email = accounts[u].email /\ row.role = accounts[u].role
    BY <1>1 DEF TypeOK, Account
  <1>3. accounts' = [accounts EXCEPT ![u] = row]
    BY <1>1 DEF Apply, TypeOK, Account
  <1>4. UNCHANGED <<links, mailed, clock>> /\ uses' = [uses EXCEPT ![l] = @ + 1] /\ Done(h)
    BY DEF Apply
  <1>5. /\ accounts' \in [Users -> Account] /\ Registered' = Registered /\ Kept
        /\ UniqueEmails'
        /\ \A v \in Users : accounts'[v].verified => v \in Registered'
        /\ \A v \in Users \ {u} : accounts'[v] = accounts[v]
        /\ accounts'[u] = row
    BY <1>1, <1>2, <1>3, <1>4, AccountKept
  <1>6. VerifiedByMail'
    BY <1>1, <1>4, <1>5 DEF AccountsOK, VerifiedByMail
  <1>7. TypeOK'
    BY <1>1, <1>4, <1>5, DoneType DEF TypeOK
  <1>8. LinksOK'
    BY <1>1, <1>4, <1>5 DEF LinksOK, Created, TypeOK
  <1>9. Grounded(req[h])'
    BY <1>4, DoneType DEF Grounded
  <1>10. RequestsOK'
    BY <1>4, <1>5, <1>9, DoneType, RequestsKept
  <1> QED
    BY <1>1, <1>2, <1>5, <1>6, <1>7, <1>8, <1>10 DEF AccountsOK

(* What administrators do to an account: its status, and its default role. *)
Administer(u) == Disable(u) \/ Enable(u) \/ AssignAgain(u) \/ Withdraw(u)

LEMMA AdministerBase ==
  ASSUME Base, NEW u \in Users, Administer(u)
  PROVE  /\ Base'
         /\ \A v \in Users : accounts[v].role # "never" => accounts'[v].role # "never"
         /\ Registered' = Registered
  <1> USE DEF Base
  <1>1. /\ u \in Registered /\ UNCHANGED <<links, mailed, req, clock, uses>>
        /\ accounts[u] \in Account
    BY DEF Administer, Disable, Enable, AssignAgain, Withdraw, TypeOK
  <1>2. ASSUME NEW s \in {"active", "disabled"}, accounts' = [accounts EXCEPT ![u].status = s]
        PROVE  accounts' = [accounts EXCEPT ![u] = [accounts[u] EXCEPT !.status = s]]
    BY <1>2
  <1>3. ASSUME NEW s \in {"held", "withdrawn"}, accounts' = [accounts EXCEPT ![u].role = s]
        PROVE  accounts' = [accounts EXCEPT ![u] = [accounts[u] EXCEPT !.role = s]]
    BY <1>3
  <1>4. PICK row \in Account :
          /\ accounts' = [accounts EXCEPT ![u] = row]
          /\ row.email = accounts[u].email /\ row.verified = accounts[u].verified
          /\ accounts[u].role # "never" => row.role # "never"
    <2>1. \A s \in {"active", "disabled"} :
            LET row == [accounts[u] EXCEPT !.status = s]
            IN  /\ row \in Account /\ row.email = accounts[u].email
                /\ row.verified = accounts[u].verified /\ row.role = accounts[u].role
      BY <1>1 DEF Account
    <2>2. \A s \in {"held", "withdrawn"} :
            LET row == [accounts[u] EXCEPT !.role = s]
            IN  /\ row \in Account /\ row.email = accounts[u].email
                /\ row.verified = accounts[u].verified /\ row.role # "never"
      BY <1>1 DEF Account
    <2> QED
      BY <1>2, <1>3, <2>1, <2>2 DEF Administer, Disable, Enable, AssignAgain, Withdraw
  <1>5. /\ accounts' \in [Users -> Account] /\ Registered' = Registered /\ Kept
        /\ UniqueEmails'
        /\ \A v \in Users : accounts'[v].verified => v \in Registered'
        /\ \A v \in Users \ {u} : accounts'[v] = accounts[v]
        /\ accounts'[u] = row
    BY <1>1, <1>4, AccountKept
  <1>6. VerifiedByMail'
    <2>1. \A v \in Users : accounts'[v].verified => accounts[v].verified
      BY <1>4, <1>5
    <2> QED
      BY <1>1, <2>1 DEF AccountsOK, VerifiedByMail
  <1>7. TypeOK'
    BY <1>1, <1>5 DEF TypeOK
  <1>8. LinksOK'
    BY <1>1, <1>5 DEF LinksOK, Created
  <1>9. \A h \in Handlers : Grounded(req[h])'
    BY <1>1, <1>5 DEF RequestsOK, Grounded, Created
  <1> QED
    BY <1>4, <1>5, <1>6, <1>7, <1>8, <1>9 DEF AccountsOK, RequestsOK

-----------------------------------------------------------------------------
(* The steps that write links.                                             *)

(* Links change, accounts do not; a new link belongs to an account, no      *)
(* consumed link becomes usable, and only stored links are mailed.          *)
LEMMA LinkKept ==
  ASSUME Base, UNCHANGED <<accounts, uses>>,
         links' \in [Links -> Link],
         \A l \in Links : links[l].consumed => links'[l].consumed,
         \A l \in Created : links'[l].user = links[l].user,
         \A l \in Created' : links'[l].user \in Registered,
         \A l \in Links : links'[l].consumed => l \in Created',
         mailed \subseteq mailed', mailed' \subseteq Created',
         \A l \in mailed' \ mailed : l \in Created
  PROVE  LinksOK' /\ AccountsOK' /\ Kept /\ mailed' \subseteq Links
  <1> USE DEF Base
  <1>1. Registered' = Registered
    BY DEF Registered
  <1>2. Created \subseteq Created'
    BY NoneIsNew DEF Created
  <1>3. Kept
    BY <1>1, <1>2 DEF Kept, Created
  <1>4. LinksOK'
    BY <1>1 DEF LinksOK
  <1>5. VerifiedByMail'
    <2> SUFFICES ASSUME NEW u \in Users, accounts[u].verified
                 PROVE  \E l \in mailed' : links'[l].user = u /\ links'[l].consumed
      BY DEF VerifiedByMail
    <2>1. PICK l \in mailed : links[l].user = u /\ links[l].consumed
      BY DEF AccountsOK, VerifiedByMail
    <2>2. l \in Created
      BY <2>1 DEF LinksOK
    <2> QED
      BY <2>1, <2>2, <1>3 DEF Kept
  <1>6. AccountsOK'
    BY <1>1, <1>5 DEF AccountsOK, UniqueEmails
  <1>7. mailed' \subseteq Links
    BY DEF Created
  <1> QED
    BY <1>3, <1>4, <1>6, <1>7

LEMMA InvalidateBase ==
  ASSUME Base, NEW h \in Handlers, Invalidate(h)
  PROVE  Base'
  <1> USE DEF Base
  <1>1. req[h].user \in Registered /\ Goto(h, "link")
        /\ UNCHANGED <<accounts, mailed, clock, uses>>
    BY DEF Invalidate, At, RequestsOK, Grounded
  <1>2. /\ links' \in [Links -> Link]
        /\ \A l \in Links : /\ links'[l].user = links[l].user
                            /\ links[l].consumed => links'[l].consumed
                            /\ links'[l].consumed => links[l].consumed \/ l \in Created
    BY DEF Invalidate, ResetLinks, TypeOK, Link
  <1>3. Created' = Created
    BY <1>2 DEF Created
  <1>4. \A l \in Created : l \in Links
    BY DEF Created
  <1>5. LinksOK' /\ AccountsOK' /\ Kept /\ mailed' \subseteq Links
    BY <1>1, <1>2, <1>3, <1>4, LinkKept DEF LinksOK
  <1>6. TypeOK'
    BY <1>1, <1>2, GotoType DEF TypeOK, Pc
  <1>7. Grounded(req[h])'
    BY <1>1, GotoType DEF Grounded, Pc, Registered
  <1> QED
    BY <1>1, <1>5, <1>6, <1>7, GotoType, RequestsKept DEF Pc

LEMMA CreateLinkBase ==
  ASSUME Base, NEW h \in Handlers, NEW l \in Links \ Created, At(h, "link"),
         links' = [links EXCEPT ![l] = NewLink(req[h].user, req[h].purpose)],
         Become(h, [req[h] EXCEPT !.pc = "mail", !.link = l]),
         UNCHANGED <<accounts, mailed, clock, uses>>
  PROVE  Base'
  <1> DEFINE u == req[h].user
             r == [req[h] EXCEPT !.pc = "mail", !.link = l]
             new == NewLink(u, req[h].purpose)
  <1> USE DEF Base
  <1>1. u \in Registered /\ u \in Users /\ u # None /\ req[h].purpose \in Purpose
    BY NoneIsNew DEF At, RequestsOK, Grounded, Registered, TypeOK, Request
  <1>2. clock + LinkTtl \in Nat
    BY AccountsAssumption DEF TypeOK
  <1>3. new \in Link /\ new.user = u /\ ~new.consumed
    BY <1>1, <1>2 DEF NewLink, Link
  <1>4. /\ links' \in [Links -> Link] /\ links'[l] = new
        /\ \A k \in Links \ {l} : links'[k] = links[k]
    BY <1>3 DEF TypeOK
  <1>5. Created' = Created \cup {l}
    BY <1>1, <1>3, <1>4 DEF Created
  <1>6. ~links[l].consumed /\ l \notin mailed
    BY DEF LinksOK
  <1>7. LinksOK' /\ AccountsOK' /\ Kept /\ mailed' \subseteq Links
    <2>1. \A k \in Links : links[k].consumed => links'[k].consumed
      BY <1>4, <1>6
    <2>2. \A k \in Created : links'[k].user = links[k].user
      BY <1>4 DEF Created
    <2>3. \A k \in Created' : links'[k].user \in Registered
      BY <1>1, <1>3, <1>4, <1>5 DEF LinksOK, Created
    <2>4. \A k \in Links : links'[k].consumed => k \in Created'
      BY <1>3, <1>4, <1>5 DEF LinksOK
    <2>5. mailed \subseteq Created'
      BY <1>5 DEF LinksOK
    <2> QED
      BY <1>4, <2>1, <2>2, <2>3, <2>4, <2>5, LinkKept
  <1>8. r \in Request /\ r.pc = "mail" /\ r.link = l
    BY DEF TypeOK, Request, Pc
  <1>9. /\ req' \in [Handlers -> Request] /\ req'[h] = r
        /\ \A g \in Handlers \ {h} : req'[g] = req[g]
    BY <1>8, BecomeType
  <1>10. TypeOK'
    BY <1>4, <1>9 DEF TypeOK
  <1>11. Grounded(req[h])'
    BY <1>5, <1>8, <1>9 DEF Grounded
  <1> QED
    BY <1>7, <1>9, <1>10, <1>11, RequestsKept

LEMMA MailBase ==
  ASSUME Base, NEW h \in Handlers, Mail(h)
  PROVE  Base'
  <1> USE DEF Base
  <1>1. /\ req[h].link \in Created /\ Done(h) /\ mailed' = mailed \cup {req[h].link}
        /\ UNCHANGED <<accounts, links, clock, uses>>
    BY DEF Mail, At, RequestsOK, Grounded
  <1>2. LinksOK' /\ AccountsOK' /\ Kept /\ mailed' \subseteq Links
    <2>1. Created' = Created
      BY <1>1 DEF Created
    <2> QED
      BY <1>1, <2>1, LinkKept DEF LinksOK, TypeOK
  <1>3. TypeOK'
    BY <1>1, <1>2, DoneType DEF TypeOK
  <1>4. Grounded(req[h])'
    BY <1>1, DoneType DEF Grounded
  <1> QED
    BY <1>1, <1>2, <1>3, <1>4, DoneType, RequestsKept

LEMMA ConsumeBase ==
  ASSUME Base, NEW h \in Handlers, Consume(h)
  PROVE  Base' /\ links'[req[h].link].consumed
  <1> DEFINE l == req[h].link
  <1> USE DEF Base
  <1>1. /\ l \in mailed /\ l \in Links /\ l \in Created
        /\ req[h].user \in Registered /\ links[l].user = req[h].user
    BY DEF Consume, At, RequestsOK, Grounded, LinksOK, Created
  <1>2. /\ Goto(h, "apply") /\ links' = [links EXCEPT ![l].consumed = TRUE]
        /\ UNCHANGED <<accounts, mailed, clock, uses>>
    BY DEF Consume
  <1>3. /\ links' \in [Links -> Link] /\ links'[l].consumed /\ links'[l].user = links[l].user
        /\ \A k \in Links \ {l} : links'[k] = links[k]
    BY <1>1, <1>2 DEF TypeOK, Link
  <1>4. Created' = Created
    BY <1>1, <1>3 DEF Created
  <1>5. LinksOK' /\ AccountsOK' /\ Kept /\ mailed' \subseteq Links
    <2>1. \A k \in Links : links[k].consumed => links'[k].consumed
      BY <1>3
    <2>2. \A k \in Created : links'[k].user = links[k].user
      BY <1>3 DEF Created
    <2>3. \A k \in Created' : links'[k].user \in Registered
      BY <1>4, <2>2 DEF LinksOK
    <2>4. \A k \in Links : links'[k].consumed => k \in Created'
      BY <1>1, <1>3, <1>4 DEF LinksOK
    <2> QED
      BY <1>2, <1>3, <1>4, <2>1, <2>2, <2>3, <2>4, LinkKept DEF LinksOK
  <1>6. TypeOK'
    BY <1>2, <1>3, GotoType DEF TypeOK, Pc
  <1>7. Grounded(req[h])'
    BY <1>1, <1>2, <1>3, GotoType DEF Grounded, Pc, Registered
  <1> QED
    BY <1>2, <1>3, <1>5, <1>6, <1>7, GotoType, RequestsKept DEF Pc

LEMMA NextBase == Base /\ [Next]_vars => Base'
  <1> SUFFICES ASSUME Base, [Next]_vars PROVE Base'
    OBVIOUS
  <1>1. ASSUME NEW h \in Handlers, Insert(h) PROVE Base'
    <2>1. CASE Done(h) /\ UNCHANGED accounts
      BY <1>1, <2>1, EndBase DEF Insert
    <2>2. CASE ~Refused(req[h].email)
      BY <1>1, <2>2, InsertBase DEF Insert, Refused
    <2> QED
      BY <1>1, <2>1, <2>2 DEF Insert
  <1>2. ASSUME NEW h \in Handlers, CreateLink(h) PROVE Base'
    BY <1>2, CreateLinkBase DEF CreateLink
  <1>3. ASSUME NEW h \in Handlers, Abort(h) PROVE Base'
    BY <1>3, EndBase DEF Abort
  <1>4. CASE UNCHANGED <<accounts, links, mailed, req, uses>> /\ clock' \in Nat
    BY <1>4 DEF Base, TypeOK, LinksOK, AccountsOK, UniqueEmails, VerifiedByMail, RequestsOK,
                Grounded, Registered, Created
  <1>5. CASE Tick \/ UNCHANGED vars
    BY <1>4, <1>5 DEF Tick, vars, Base, TypeOK
  <1> QED
    BY <1>1, <1>2, <1>3, <1>5, StartBase, AssignRoleBase, InvalidateBase, MailBase,
       ConsumeBase, ApplyBase, AdministerBase DEF Next, Administer

LEMMA InitBase == Init => Base
  <1> SUFFICES ASSUME Init PROVE Base
    OBVIOUS
  <1>1. NoAccount \in Account /\ NoAccount.email = None /\ ~NoAccount.verified
    BY DEF NoAccount, Account
  <1>2. NoLink \in Link /\ NoLink.user = None /\ ~NoLink.consumed
    BY DEF NoLink, Link, Purpose
  <1>3. Registered = {} /\ Created = {}
    BY <1>1, <1>2 DEF Init, Registered, Created
  <1>4. TypeOK
    BY <1>1, <1>2, IdleType DEF Init, TypeOK
  <1>5. LinksOK
    BY <1>2, <1>3 DEF Init, LinksOK
  <1>6. AccountsOK
    BY <1>1, <1>3 DEF Init, AccountsOK, UniqueEmails, VerifiedByMail
  <1>7. RequestsOK
    BY IdleType DEF Init, RequestsOK, Grounded
  <1> QED
    BY <1>4, <1>5, <1>6, <1>7 DEF Base

LEMMA BaseAlways == Spec => []Base
  BY InitBase, NextBase, PTL DEF Spec

(* Every reachable state is well typed.                                    *)
THEOREM TypeCorrect == Spec => []TypeOK
  <1>1. Base => TypeOK
    BY DEF Base
  <1> QED
    BY <1>1, BaseAlways, PTL

(* However registrations race, an address has one account (register).      *)
THEOREM OneAccountPerEmail == Spec => []UniqueEmails
  <1>1. Base => UniqueEmails
    BY DEF Base, AccountsOK
  <1> QED
    BY <1>1, BaseAlways, PTL

(* An account is verified only through a link that was mailed to it,        *)
(* whatever administrators do (verifyEmail, resetPassword, setUserEnabled). *)
THEOREM VerifiedThroughMail == Spec => []VerifiedByMail
  <1>1. Base => VerifiedByMail
    BY DEF Base, AccountsOK
  <1> QED
    BY <1>1, BaseAlways, PTL

-----------------------------------------------------------------------------
(* How a step moves requests.                                              *)

(* Every step but those of administrators and the clock moves one request, *)
(* from a point where it may, to the next.                                 *)
Moves(h, from, to) ==
  /\ req[h].pc \in from /\ req'[h].pc \in to
  /\ \A g \in Handlers \ {h} : req'[g] = req[g]

LEMMA StartMoves ==
  ASSUME Base, NEW h \in Handlers, RegisterFind(h) \/ ForgotFind(h) \/ UseFind(h)
  PROVE  /\ Moves(h, {"idle"}, {"insert", "invalidate", "consume"})
         /\ ~UseFind(h) => req'[h].pc # "consume"
         /\ UNCHANGED <<accounts, links, mailed, uses>>
  <1> USE DEF Base
  <1>1. CASE RegisterFind(h)
    <2>1. PICK e \in Emails : Become(h, [Idle EXCEPT !.pc = "insert", !.email = e])
      BY <1>1 DEF RegisterFind
    <2>2. req'[h].pc = "insert" /\ \A g \in Handlers \ {h} : req'[g] = req[g]
      BY <2>1 DEF Become, TypeOK, Idle
    <2> QED
      BY <1>1, <2>2 DEF RegisterFind, At, Moves
  <1>2. CASE ForgotFind(h)
    <2>1. PICK u : Become(h, [Idle EXCEPT !.pc = "invalidate", !.user = u, !.purpose = "password_reset"])
      BY <1>2 DEF ForgotFind
    <2>2. req'[h].pc = "invalidate" /\ \A g \in Handlers \ {h} : req'[g] = req[g]
      BY <2>1 DEF Become, TypeOK, Idle
    <2> QED
      BY <1>2, <2>2 DEF ForgotFind, At, Moves
  <1>3. CASE UseFind(h)
    <2>1. PICK l : Become(h, [Idle EXCEPT !.pc = "consume", !.user = links[l].user, !.link = l,
                                          !.purpose = links[l].purpose])
      BY <1>3 DEF UseFind
    <2>2. req'[h].pc = "consume" /\ \A g \in Handlers \ {h} : req'[g] = req[g]
      BY <2>1 DEF Become, TypeOK, Idle
    <2> QED
      BY <1>3, <2>2 DEF UseFind, At, Moves
  <1> QED
    BY <1>1, <1>2, <1>3

LEMMA InsertMoves ==
  ASSUME Base, NEW h \in Handlers, Insert(h)
  PROVE  /\ Moves(h, {"insert"}, {"idle", "role"})
         /\ UNCHANGED <<links, mailed, uses>>
         /\ \/ UNCHANGED accounts
            \/ /\ req'[h].pc = "role"
               /\ Registered' \subseteq Registered \cup {req'[h].user}
               /\ \A v \in Registered : accounts'[v] = accounts[v]
  <1> USE DEF Base
  <1>1. req[h].pc = "insert" /\ UNCHANGED <<links, mailed, uses>>
    BY DEF Insert, At
  <1>2. CASE Done(h) /\ UNCHANGED accounts
    BY <1>1, <1>2, DoneType DEF Moves
  <1>3. CASE ~(Done(h) /\ UNCHANGED accounts)
    <2>1. PICK u \in Users \ Registered :
            /\ accounts' = [accounts EXCEPT ![u] = [NoAccount EXCEPT !.email = req[h].email]]
            /\ Become(h, [req[h] EXCEPT !.pc = "role", !.user = u])
      BY <1>3 DEF Insert
    <2> DEFINE r == [req[h] EXCEPT !.pc = "role", !.user = u]
    <2>2. r \in Request /\ r.pc = "role" /\ r.user = u
      BY DEF TypeOK, Request, Pc
    <2>3. req'[h] = r /\ \A g \in Handlers \ {h} : req'[g] = req[g]
      BY <2>1, <2>2, BecomeType
    <2>4. \A v \in Users \ {u} : accounts'[v] = accounts[v]
      BY <2>1 DEF TypeOK
    <2>5. Registered' \subseteq Registered \cup {u} /\ \A v \in Registered : accounts'[v] = accounts[v]
      BY <2>4 DEF Registered
    <2> QED
      BY <1>1, <2>2, <2>3, <2>5 DEF Moves
  <1> QED
    BY <1>2, <1>3

LEMMA CreateLinkMoves ==
  ASSUME Base, NEW h \in Handlers, CreateLink(h)
  PROVE  Moves(h, {"link"}, {"mail"}) /\ UNCHANGED <<accounts, mailed, uses>>
  <1> USE DEF Base
  <1>1. PICK l \in Links : Become(h, [req[h] EXCEPT !.pc = "mail", !.link = l])
    BY DEF CreateLink
  <1> DEFINE r == [req[h] EXCEPT !.pc = "mail", !.link = l]
  <1>2. r \in Request /\ r.pc = "mail"
    BY DEF TypeOK, Request, Pc
  <1>3. req'[h] = r /\ \A g \in Handlers \ {h} : req'[g] = req[g]
    BY <1>1, <1>2, BecomeType
  <1> QED
    BY <1>2, <1>3 DEF CreateLink, At, Moves

LEMMA RestMoves ==
  ASSUME Base, NEW h \in Handlers
  PROVE  /\ AssignRole(h) => Moves(h, {"role"}, {"link"}) /\ UNCHANGED <<links, mailed, uses>>
         /\ Invalidate(h) => Moves(h, {"invalidate"}, {"link"}) /\ UNCHANGED <<accounts, mailed, uses>>
         /\ Mail(h) => Moves(h, {"mail"}, {"idle"}) /\ UNCHANGED <<accounts, links, uses>>
         /\ Consume(h) => Moves(h, {"consume"}, {"apply"}) /\ UNCHANGED <<accounts, mailed, uses>>
         /\ Apply(h) => Moves(h, {"apply"}, {"idle"}) /\ UNCHANGED <<links, mailed>>
         /\ Abort(h) => Moves(h, Fragile, {"idle"}) /\ UNCHANGED <<accounts, links, mailed, uses>>
  <1> USE DEF Base
  <1>1. AssignRole(h) => Moves(h, {"role"}, {"link"}) /\ UNCHANGED <<links, mailed, uses>>
    BY GotoType DEF AssignRole, At, Moves, Pc
  <1>2. Invalidate(h) => Moves(h, {"invalidate"}, {"link"}) /\ UNCHANGED <<accounts, mailed, uses>>
    BY GotoType DEF Invalidate, At, Moves, Pc
  <1>3. Mail(h) => Moves(h, {"mail"}, {"idle"}) /\ UNCHANGED <<accounts, links, uses>>
    BY DoneType DEF Mail, At, Moves
  <1>4. Consume(h) => Moves(h, {"consume"}, {"apply"}) /\ UNCHANGED <<accounts, mailed, uses>>
    BY GotoType DEF Consume, At, Moves, Pc
  <1>5. Apply(h) => Moves(h, {"apply"}, {"idle"}) /\ UNCHANGED <<links, mailed>>
    BY DoneType DEF Apply, At, Moves
  <1>6. Abort(h) => Moves(h, Fragile, {"idle"}) /\ UNCHANGED <<accounts, links, mailed, uses>>
    BY DoneType DEF Abort, Moves
  <1> QED
    BY <1>1, <1>2, <1>3, <1>4, <1>5, <1>6

-----------------------------------------------------------------------------
(* The default role.                                                       *)

(* Every account was given the role, or the request that made it is about   *)
(* to assign it.                                                            *)
Enrolled ==
  \A u \in Registered :
    \/ accounts[u].role # "never"
    \/ \E h \in Handlers : At(h, "role") /\ req[h].user = u

LEMMA EnrolledKept ==
  ASSUME Base, Enrolled, Registered' = Registered,
         \A u \in Registered : accounts[u].role # "never" => accounts'[u].role # "never",
         \A g \in Handlers : At(g, "role") => req'[g] = req[g]
  PROVE  Enrolled'
  BY DEF Enrolled, At

LEMMA NextEnrolled ==
  ASSUME "role" \notin Fragile, Base, Enrolled, [Next]_vars
  PROVE  Enrolled'
  <1>1. ASSUME NEW h \in Handlers, NEW from, NEW to, Moves(h, from, to), "role" \notin from,
               UNCHANGED accounts
        PROVE  Enrolled'
    <2>1. Registered' = Registered
      BY <1>1 DEF Registered
    <2>2. \A g \in Handlers : At(g, "role") => req'[g] = req[g]
      BY <1>1 DEF Moves, At
    <2> QED
      BY <1>1, <2>1, <2>2, EnrolledKept
  <1>2. ASSUME NEW h \in Handlers,
               \/ RegisterFind(h) \/ ForgotFind(h) \/ UseFind(h) \/ Invalidate(h)
               \/ CreateLink(h) \/ Mail(h) \/ Consume(h) \/ Abort(h)
        PROVE  Enrolled'
    BY <1>1, <1>2, StartMoves, CreateLinkMoves, RestMoves
  <1>3. ASSUME NEW h \in Handlers, Insert(h) PROVE Enrolled'
    <2>1. CASE UNCHANGED accounts
      BY <1>1, <1>3, <2>1, InsertMoves
    <2>2. CASE ~UNCHANGED accounts
      <3>1. /\ Moves(h, {"insert"}, {"idle", "role"}) /\ req'[h].pc = "role"
            /\ Registered' \subseteq Registered \cup {req'[h].user}
            /\ \A v \in Registered : accounts'[v] = accounts[v]
        BY <1>3, <2>2, InsertMoves
      <3>2. ASSUME NEW u \in Registered'
            PROVE  \/ accounts'[u].role # "never"
                   \/ \E g \in Handlers : req'[g].pc = "role" /\ req'[g].user = u
        <4>1. CASE u = req'[h].user
          BY <3>1, <4>1
        <4>2. CASE u # req'[h].user
          <5>1. u \in Registered /\ accounts'[u] = accounts[u]
            BY <3>1, <4>2
          <5>2. CASE accounts[u].role # "never"
            BY <5>1, <5>2
          <5>3. ASSUME NEW g \in Handlers, At(g, "role"), req[g].user = u
                PROVE  req'[g].pc = "role" /\ req'[g].user = u
            BY <3>1, <5>3 DEF Moves, At
          <5> QED
            BY <5>1, <5>2, <5>3 DEF Enrolled
        <4> QED
          BY <4>1, <4>2
      <3> QED
        BY <3>2 DEF Enrolled, At
    <2> QED
      BY <2>1, <2>2
  <1>4. ASSUME NEW h \in Handlers, AssignRole(h) PROVE Enrolled'
    <2> DEFINE w == req[h].user
    <2>1. /\ Base' /\ accounts'[w].role = "held"
          /\ \A v \in Users \ {w} : accounts'[v] = accounts[v]
      BY <1>4, AssignRoleBase
    <2>2. Moves(h, {"role"}, {"link"})
      BY <1>4, RestMoves
    <2>3. ASSUME NEW u \in Registered', u # w
          PROVE  \/ accounts'[u].role # "never"
                 \/ \E g \in Handlers : req'[g].pc = "role" /\ req'[g].user = u
      <3>1. u \in Registered /\ accounts'[u] = accounts[u]
        BY <2>1, <2>3 DEF Registered
      <3>2. ASSUME NEW g \in Handlers, At(g, "role"), req[g].user = u
            PROVE  req'[g].pc = "role" /\ req'[g].user = u
        BY <2>2, <2>3, <3>2 DEF Moves, At
      <3> QED
        BY <3>1, <3>2 DEF Enrolled
    <2> QED
      BY <2>1, <2>3 DEF Enrolled, At
  <1>5. ASSUME NEW h \in Handlers, Apply(h) PROVE Enrolled'
    <2>1. Moves(h, {"apply"}, {"idle"})
      BY <1>5, RestMoves
    <2>2. \A g \in Handlers : At(g, "role") => req'[g] = req[g]
      BY <2>1 DEF Moves, At
    <2> QED
      BY <1>5, <2>2, ApplyBase, EnrolledKept DEF Registered
  <1>6. ASSUME NEW u \in Users, Administer(u) PROVE Enrolled'
    <2>1. UNCHANGED req
      BY <1>6 DEF Administer, Disable, Enable, AssignAgain, Withdraw
    <2> QED
      BY <1>6, <2>1, AdministerBase, EnrolledKept DEF Registered
  <1>7. CASE UNCHANGED <<accounts, req>>
    BY <1>7 DEF Enrolled, Registered, At
  <1>8. CASE Tick \/ UNCHANGED vars
    BY <1>7, <1>8 DEF Tick, vars
  <1> QED
    BY <1>2, <1>3, <1>4, <1>5, <1>6, <1>8 DEF Next, Administer

(* Unless a registration dies before it assigns the default role, whoever   *)
(* can log in was given it, so has it until an administrator takes it away  *)
(* (register, revokeRoleFromUser).                                          *)
THEOREM RoleForAll ==
  ASSUME "role" \notin Fragile
  PROVE  Spec => []VerifiedHasRole
  <1>1. Init => Enrolled
    BY DEF Init, Enrolled, Registered, NoAccount
  <1>2. Base /\ Enrolled /\ [Next]_vars => Enrolled'
    BY NextEnrolled
  <1>3. Base /\ Enrolled => VerifiedHasRole
    BY DEF Base, AccountsOK, Enrolled, VerifiedHasRole
  <1> QED
    BY <1>1, <1>2, <1>3, BaseAlways, PTL DEF Spec

-----------------------------------------------------------------------------
(* How often links are used, and how many there are.                       *)

LEMMA Smaller ==
  ASSUME NEW S, NEW T, IsFiniteSet(S), T \subseteq S
  PROVE  /\ IsFiniteSet(T) /\ Cardinality(T) \in Nat /\ Cardinality(S) \in Nat
         /\ Cardinality(T) <= Cardinality(S)
  <1>1. T \in SUBSET S
    OBVIOUS
  <1>2. IsFiniteSet(T) /\ Cardinality(T) <= Cardinality(S)
    BY <1>1, FS_Subset
  <1> QED
    BY <1>2, FS_CardinalityType

LEMMA FewWorkers ==
  ASSUME NEW T, T \subseteq Handlers
  PROVE  /\ IsFiniteSet(T) /\ Cardinality(T) \in Nat /\ Cardinality(Handlers) \in Nat
         /\ Cardinality(T) <= Cardinality(Handlers)
  BY Smaller, AccountsAssumption

(* A worker leaves a set of workers.                                       *)
LEMMA OneLess ==
  ASSUME NEW S, S \subseteq Handlers, NEW h \in S, NEW T, T \subseteq S \ {h}
  PROVE  Cardinality(T) \in Nat /\ Cardinality(T) + 1 <= Cardinality(S)
  <1>1. IsFiniteSet(S) /\ Cardinality(S) \in Nat
    BY FewWorkers
  <1>2. IsFiniteSet(S \ {h}) /\ Cardinality(S \ {h}) = Cardinality(S) - 1
    BY <1>1, FS_RemoveElement
  <1>3. Cardinality(T) \in Nat /\ Cardinality(T) <= Cardinality(S \ {h})
    BY <1>2, Smaller
  <1> QED
    BY <1>1, <1>2, <1>3

LEMMA NextLinkUses ==
  ASSUME Base, LinkUses, [Next]_vars
  PROVE  LinkUses'
  <1> USE DEF Base
  <1> SUFFICES ASSUME NEW l \in Links
               PROVE  (uses[l] + Cardinality(Presenters(l)) <= Cardinality(Handlers))'
    BY DEF LinkUses
  <1> DEFINE P == Presenters(l)
             Q == {h \in Handlers : req'[h].link = l /\ req'[h].pc \in {"consume", "apply"}}
  <1>1. Presenters(l)' = Q
    BY DEF Presenters
  <1>2. /\ P \subseteq Handlers /\ Q \subseteq Handlers
        /\ Cardinality(P) \in Nat /\ Cardinality(Q) \in Nat /\ Cardinality(Handlers) \in Nat
    <2>1. P \subseteq Handlers /\ Q \subseteq Handlers
      BY DEF Presenters
    <2> QED
      BY <2>1, FewWorkers
  <1>3. uses[l] \in Nat /\ uses[l] + Cardinality(P) <= Cardinality(Handlers)
    BY DEF LinkUses, TypeOK
  <1>4. ASSUME Q \subseteq P, uses'[l] = uses[l]
        PROVE  uses'[l] + Cardinality(Q) <= Cardinality(Handlers)
    <2>1. Cardinality(Q) <= Cardinality(P)
      BY <1>2, <1>4, FewWorkers, Smaller
    <2> QED
      BY <1>2, <1>3, <1>4, <2>1
  <1>5. ASSUME NEW h \in Handlers, NEW from, NEW to, Moves(h, from, to),
               "consume" \notin to, "apply" \notin to, UNCHANGED uses
        PROVE  uses'[l] + Cardinality(Q) <= Cardinality(Handlers)
    <2>1. Q \subseteq P
      BY <1>5 DEF Moves, Presenters
    <2> QED
      BY <1>4, <1>5, <2>1
  <1>6. ASSUME NEW h \in Handlers,
               \/ RegisterFind(h) \/ ForgotFind(h) \/ Insert(h) \/ AssignRole(h)
               \/ Invalidate(h) \/ CreateLink(h) \/ Mail(h) \/ Abort(h)
        PROVE  uses'[l] + Cardinality(Q) <= Cardinality(Handlers)
    <2>1. CASE RegisterFind(h) \/ ForgotFind(h)
      <3>1. Moves(h, {"idle"}, {"insert", "invalidate"}) /\ UNCHANGED uses
        <4>1. ~UseFind(h)
          <5>1. req'[h].pc # "consume"
            <6>1. CASE RegisterFind(h)
              BY <6>1 DEF RegisterFind, Become, TypeOK, Idle
            <6>2. CASE ForgotFind(h)
              BY <6>2 DEF ForgotFind, Become, TypeOK, Idle
            <6> QED
              BY <2>1, <6>1, <6>2
          <5> QED
            BY <5>1 DEF UseFind, Become, TypeOK, Idle
        <4> QED
          BY <2>1, <4>1, StartMoves DEF Moves
      <3> QED
        BY <1>5, <3>1
    <2> QED
      BY <1>5, <1>6, <2>1, InsertMoves, CreateLinkMoves, RestMoves
  <1>7. ASSUME NEW h \in Handlers, UseFind(h)
        PROVE  uses'[l] + Cardinality(Q) <= Cardinality(Handlers)
    <2>1. PICK k \in mailed :
            /\ Usable(k)
            /\ Become(h, [Idle EXCEPT !.pc = "consume", !.user = links[k].user, !.link = k,
                                      !.purpose = links[k].purpose])
      BY <1>7 DEF UseFind
    <2>2. req'[h].link = k /\ (\A g \in Handlers \ {h} : req'[g] = req[g]) /\ UNCHANGED uses
      BY <1>7, <2>1 DEF UseFind, Become, TypeOK, Idle
    <2>3. CASE k = l
      <3>1. uses'[l] = 0
        BY <2>1, <2>2, <2>3 DEF Usable, LinksOK
      <3> QED
        BY <1>2, <3>1, FewWorkers
    <2>4. CASE k # l
      <3>1. Q \subseteq P
        BY <2>2, <2>4 DEF Presenters
      <3> QED
        BY <1>4, <2>2, <3>1
    <2> QED
      BY <2>3, <2>4
  <1>8. ASSUME NEW h \in Handlers, Consume(h)
        PROVE  uses'[l] + Cardinality(Q) <= Cardinality(Handlers)
    <2>1. /\ req'[h].link = req[h].link /\ req[h].pc = "consume"
          /\ (\A g \in Handlers \ {h} : req'[g] = req[g]) /\ UNCHANGED uses
      BY <1>8, GotoType DEF Consume, At, Pc
    <2>2. Q \subseteq P
      BY <2>1 DEF Presenters
    <2> QED
      BY <1>4, <2>1, <2>2
  <1>9. ASSUME NEW h \in Handlers, Apply(h)
        PROVE  uses'[l] + Cardinality(Q) <= Cardinality(Handlers)
    <2>1. /\ Moves(h, {"apply"}, {"idle"})
          /\ uses' = [uses EXCEPT ![req[h].link] = @ + 1]
      BY <1>9, RestMoves DEF Apply
    <2>2. Q \subseteq P \ {h}
      BY <2>1 DEF Moves, Presenters
    <2>3. CASE req[h].link = l
      <3>1. h \in P /\ uses'[l] = uses[l] + 1
        BY <2>1, <2>3 DEF Moves, Presenters, TypeOK
      <3>2. Cardinality(Q) + 1 <= Cardinality(P)
        BY <1>2, <2>2, <3>1, OneLess
      <3> QED
        BY <1>2, <1>3, <3>1, <3>2
    <2>4. CASE req[h].link # l
      <3>1. uses'[l] = uses[l]
        BY <2>1, <2>4 DEF TypeOK
      <3> QED
        BY <1>4, <2>2, <3>1
    <2> QED
      BY <2>3, <2>4
  <1>10. ASSUME req' = req, uses' = uses
         PROVE  uses'[l] + Cardinality(Q) <= Cardinality(Handlers)
    <2>1. Q \subseteq P /\ uses'[l] = uses[l]
      BY <1>10 DEF Presenters
    <2> QED
      BY <1>4, <2>1
  <1>11. ASSUME NEW u \in Users, Administer(u)
         PROVE  req' = req /\ uses' = uses
    BY <1>11 DEF Administer, Disable, Enable, AssignAgain, Withdraw
  <1>12. Tick \/ UNCHANGED vars => req' = req /\ uses' = uses
    BY DEF Tick, vars
  <1>13. uses'[l] + Cardinality(Q) <= Cardinality(Handlers)
    BY <1>6, <1>7, <1>8, <1>9, <1>10, <1>11, <1>12 DEF Next, Administer
  <1> QED
    BY <1>1, <1>13

(* A link changes its account at most as often as requests presented it at  *)
(* the same time, however many requests there are (verifyEmail,             *)
(* resetPassword).                                                          *)
THEOREM UsesBounded == Spec => []LinkUses
  <1>1. Init => LinkUses
    <2> SUFFICES ASSUME Init, NEW l \in Links
                 PROVE  uses[l] + Cardinality(Presenters(l)) <= Cardinality(Handlers)
      BY DEF LinkUses
    <2>1. uses[l] = 0 /\ Presenters(l) \subseteq Handlers
      BY DEF Init, Presenters
    <2> QED
      BY <2>1, FewWorkers
  <1>2. Base /\ LinkUses /\ [Next]_vars => LinkUses'
    BY NextLinkUses
  <1> QED
    BY <1>1, <1>2, BaseAlways, PTL DEF Spec

(* The bound on unconsumed reset links, of finite sets.                    *)
FewResets ==
  \A u \in Users :
    /\ IsFiniteSet(LiveResets(u))
    /\ Cardinality(LiveResets(u)) + Cardinality(Resetting(u)) <= Cardinality(Handlers)

LEMMA ResettingWorkers ==
  ASSUME NEW u
  PROVE  /\ Resetting(u) \subseteq Handlers /\ Cardinality(Resetting(u)) \in Nat
         /\ Resetting(u)' \subseteq Handlers /\ Cardinality(Resetting(u)') \in Nat
         /\ Cardinality(Resetting(u)') <= Cardinality(Handlers)
         /\ Cardinality(Handlers) \in Nat
  <1>1. Resetting(u) \subseteq Handlers /\ Resetting(u)' \subseteq Handlers
    BY DEF Resetting
  <1> QED
    BY <1>1, FewWorkers

LEMMA FewerResets ==
  ASSUME FewResets, NEW u \in Users,
         LiveResets(u)' \subseteq LiveResets(u), Resetting(u)' \subseteq Resetting(u)
  PROVE  /\ IsFiniteSet(LiveResets(u)')
         /\ Cardinality(LiveResets(u)') + Cardinality(Resetting(u)') <= Cardinality(Handlers)
  <1>1. IsFiniteSet(LiveResets(u))
        /\ Cardinality(LiveResets(u)) + Cardinality(Resetting(u)) <= Cardinality(Handlers)
    BY DEF FewResets
  <1>2. /\ IsFiniteSet(LiveResets(u)') /\ Cardinality(LiveResets(u)') \in Nat
        /\ Cardinality(LiveResets(u)) \in Nat
        /\ Cardinality(LiveResets(u)') <= Cardinality(LiveResets(u))
    BY <1>1, Smaller
  <1>3. /\ Cardinality(Resetting(u)') <= Cardinality(Resetting(u))
    BY ResettingWorkers, FewWorkers, Smaller
  <1> QED
    BY <1>1, <1>2, <1>3, ResettingWorkers

(* A request for a reset link, between the end of the old links and its own. *)
LEMMA NewResetLink ==
  ASSUME Base, FewResets, NEW h \in Handlers, CreateLink(h), NEW u \in Users
  PROVE  /\ IsFiniteSet(LiveResets(u)')
         /\ Cardinality(LiveResets(u)') + Cardinality(Resetting(u)') <= Cardinality(Handlers)
  <1> USE DEF Base
  <1>1. PICK l \in Links \ Created : links' = [links EXCEPT ![l] = NewLink(req[h].user, req[h].purpose)]
    BY DEF CreateLink
  <1>2. Moves(h, {"link"}, {"mail"})
    BY CreateLinkMoves
  <1>3. Resetting(u)' \subseteq Resetting(u) \ {h}
    BY <1>2 DEF Moves, Resetting
  <1>4. /\ links'[l].user = req[h].user /\ links'[l].purpose = req[h].purpose
        /\ \A k \in Links \ {l} : links'[k] = links[k]
    BY <1>1 DEF TypeOK, NewLink
  <1>5. LiveResets(u)' \subseteq LiveResets(u) \cup {l}
    BY <1>4 DEF LiveResets, ResetLinks, Created
  <1>6. CASE req[h].user = u /\ req[h].purpose = "password_reset"
    <2>1. h \in Resetting(u)
      BY <1>2, <1>6 DEF Moves, Resetting
    <2>2. Cardinality(Resetting(u)') + 1 <= Cardinality(Resetting(u))
      BY <1>3, <2>1, ResettingWorkers, OneLess
    <2>3. /\ IsFiniteSet(LiveResets(u)) /\ Cardinality(LiveResets(u)) \in Nat
          /\ Cardinality(LiveResets(u)) + Cardinality(Resetting(u)) <= Cardinality(Handlers)
      BY FS_CardinalityType DEF FewResets
    <2>4. /\ IsFiniteSet(LiveResets(u) \cup {l})
          /\ Cardinality(LiveResets(u) \cup {l}) <= Cardinality(LiveResets(u)) + 1
      <3>1. /\ IsFiniteSet(LiveResets(u) \cup {l})
            /\ \/ Cardinality(LiveResets(u) \cup {l}) = Cardinality(LiveResets(u))
               \/ Cardinality(LiveResets(u) \cup {l}) = Cardinality(LiveResets(u)) + 1
        BY <2>3, FS_AddElement
      <3> QED
        BY <2>3, <3>1
    <2>5. /\ IsFiniteSet(LiveResets(u)') /\ Cardinality(LiveResets(u)') \in Nat
          /\ Cardinality(LiveResets(u) \cup {l}) \in Nat
          /\ Cardinality(LiveResets(u)') <= Cardinality(LiveResets(u) \cup {l})
      BY <1>5, <2>4, Smaller
    <2> QED
      BY <2>2, <2>3, <2>4, <2>5, ResettingWorkers
  <1>7. CASE ~(req[h].user = u /\ req[h].purpose = "password_reset")
    <2>1. l \notin LiveResets(u)'
      BY <1>4, <1>7 DEF LiveResets, ResetLinks
    <2>2. LiveResets(u)' \subseteq LiveResets(u) /\ Resetting(u)' \subseteq Resetting(u)
      BY <1>3, <1>5, <2>1
    <2> QED
      BY <2>2, FewerResets
  <1> QED
    BY <1>6, <1>7

LEMMA OldLinksEnd ==
  ASSUME Base, FewResets, NEW h \in Handlers, Invalidate(h), NEW u \in Users
  PROVE  /\ IsFiniteSet(LiveResets(u)')
         /\ Cardinality(LiveResets(u)') + Cardinality(Resetting(u)') <= Cardinality(Handlers)
  <1> USE DEF Base
  <1>1. /\ \A l \in Links : /\ links'[l].user = links[l].user
                            /\ links'[l].purpose = links[l].purpose
                            /\ links[l].consumed => links'[l].consumed
                            /\ l \in ResetLinks(req[h].user) => links'[l].consumed
    BY DEF Invalidate, TypeOK, Link
  <1>2. ResetLinks(u)' = ResetLinks(u)
    BY <1>1 DEF ResetLinks, Created
  <1>3. /\ req'[h].user = req[h].user
        /\ \A g \in Handlers \ {h} : req'[g] = req[g]
    BY GotoType DEF Invalidate, Pc
  <1>4. CASE u = req[h].user
    <2>1. LiveResets(u)' = {}
      BY <1>1, <1>2, <1>4 DEF LiveResets, ResetLinks, Created
    <2> QED
      BY <2>1, FS_EmptySet, ResettingWorkers
  <1>5. CASE u # req[h].user
    <2>1. LiveResets(u)' \subseteq LiveResets(u)
      BY <1>1, <1>2 DEF LiveResets, ResetLinks, Created
    <2>2. Resetting(u)' \subseteq Resetting(u)
      BY <1>3, <1>5 DEF Resetting
    <2> QED
      BY <2>1, <2>2, FewerResets
  <1> QED
    BY <1>4, <1>5

LEMMA NextFewResets ==
  ASSUME Base, FewResets, [Next]_vars
  PROVE  FewResets'
  <1> USE DEF Base
  <1> SUFFICES ASSUME NEW u \in Users
               PROVE  /\ IsFiniteSet(LiveResets(u)')
                      /\ Cardinality(LiveResets(u)') + Cardinality(Resetting(u)')
                           <= Cardinality(Handlers)
    BY DEF FewResets
  <1> DEFINE Goal == /\ IsFiniteSet(LiveResets(u)')
                     /\ Cardinality(LiveResets(u)') + Cardinality(Resetting(u)')
                          <= Cardinality(Handlers)
  <1>1. ASSUME NEW h \in Handlers, NEW from, NEW to, Moves(h, from, to), "link" \notin to,
               links' = links
        PROVE  Goal
    <2>1. LiveResets(u)' \subseteq LiveResets(u)
      BY <1>1 DEF LiveResets, ResetLinks, Created
    <2>2. Resetting(u)' \subseteq Resetting(u)
      BY <1>1 DEF Moves, Resetting
    <2> QED
      BY <2>1, <2>2, FewerResets
  <1>2. ASSUME NEW h \in Handlers,
               \/ RegisterFind(h) \/ ForgotFind(h) \/ UseFind(h) \/ Insert(h)
               \/ Mail(h) \/ Apply(h) \/ Abort(h)
        PROVE  Goal
    BY <1>1, <1>2, StartMoves, InsertMoves, RestMoves
  <1>3. ASSUME NEW h \in Handlers, AssignRole(h) PROVE Goal
    <2>1. req[h].purpose = "verify_email"
      BY <1>3 DEF AssignRole, At, RequestsOK, Grounded
    <2>2. /\ req'[h].purpose = "verify_email" /\ links' = links
          /\ \A g \in Handlers \ {h} : req'[g] = req[g]
      BY <1>3, <2>1, GotoType DEF AssignRole, Pc
    <2>3. LiveResets(u)' \subseteq LiveResets(u)
      BY <2>2 DEF LiveResets, ResetLinks, Created
    <2>4. Resetting(u)' \subseteq Resetting(u)
      BY <2>2 DEF Resetting
    <2> QED
      BY <2>3, <2>4, FewerResets
  <1>4. ASSUME NEW h \in Handlers, Consume(h) PROVE Goal
    <2>1. Moves(h, {"consume"}, {"apply"})
      BY <1>4, RestMoves
    <2>2. \A l \in Links : /\ links'[l].user = links[l].user
                           /\ links'[l].purpose = links[l].purpose
                           /\ links[l].consumed => links'[l].consumed
      BY <1>4 DEF Consume, TypeOK, Link
    <2>3. LiveResets(u)' \subseteq LiveResets(u)
      BY <2>2 DEF LiveResets, ResetLinks, Created
    <2>4. Resetting(u)' \subseteq Resetting(u)
      BY <2>1 DEF Moves, Resetting
    <2> QED
      BY <2>3, <2>4, FewerResets
  <1>5. ASSUME links' = links, req' = req PROVE Goal
    <2>1. LiveResets(u)' \subseteq LiveResets(u) /\ Resetting(u)' \subseteq Resetting(u)
      BY <1>5 DEF LiveResets, ResetLinks, Created, Resetting
    <2> QED
      BY <2>1, FewerResets
  <1>6. ASSUME NEW v \in Users, Administer(v)
        PROVE  links' = links /\ req' = req
    BY <1>6 DEF Administer, Disable, Enable, AssignAgain, Withdraw
  <1>7. Tick \/ UNCHANGED vars => links' = links /\ req' = req
    BY DEF Tick, vars
  <1> HIDE DEF Goal
  <1>8. Goal
    BY <1>2, <1>3, <1>4, <1>5, <1>6, <1>7, NewResetLink, OldLinksEnd DEF Next, Administer, Goal
  <1> QED
    BY <1>8 DEF Goal

LEMMA FewResetsAlways == Spec => []FewResets
  <1>1. Init => FewResets
    <2> SUFFICES ASSUME Init, NEW u \in Users
                 PROVE  /\ IsFiniteSet(LiveResets(u))
                        /\ Cardinality(LiveResets(u)) + Cardinality(Resetting(u))
                             <= Cardinality(Handlers)
      BY DEF FewResets
    <2>1. LiveResets(u) = {}
      BY DEF Init, LiveResets, ResetLinks, Created, NoLink
    <2>2. Resetting(u) = {}
      BY DEF Init, Resetting, Idle
    <2> QED
      BY <2>1, <2>2, FS_EmptySet, FewWorkers
  <1>2. Base /\ FewResets /\ [Next]_vars => FewResets'
    BY NextFewResets
  <1> QED
    BY <1>1, <1>2, BaseAlways, PTL DEF Spec

(* However many reset links an account is mailed, no more of them are       *)
(* unconsumed than requests asked for one at the same time                  *)
(* (forgotPassword, invalidateForUser).                                     *)
THEOREM ResetLinksBounded == Spec => []LiveResetLinks
  <1>1. FewResets => LiveResetLinks
    BY DEF FewResets, LiveResetLinks
  <1> QED
    BY <1>1, FewResetsAlways, PTL

-----------------------------------------------------------------------------
(* Links that are of no more use, and workers on their own.                *)

(* A link that was consumed or has expired, with no request under way that  *)
(* had found it good.                                                       *)
Dead(l) == l \in Created /\ ~Usable(l) /\ Presenters(l) = {}

(* A dead link is dead for good and never changes an account again, however *)
(* often it is presented (verifyEmail, resetPassword).                      *)
DeadLinksStay == [][\A l \in Links : Dead(l) => Dead(l)' /\ uses'[l] = uses[l]]_vars

LEMMA LinksWritten ==
  ASSUME [Next]_vars
  PROVE  \/ UNCHANGED links
         \/ \E h \in Handlers : Invalidate(h) \/ Consume(h)
         \/ \E h \in Handlers : CreateLink(h)
  BY DEF Next, vars, RegisterFind, Insert, AssignRole, ForgotFind, Mail, UseFind, Apply,
         Abort, Disable, Enable, AssignAgain, Withdraw, Tick

(* Rows of links are never deleted or extended, nor made good again.        *)
LEMMA UnusableKept ==
  ASSUME Base, [Next]_vars, NEW l \in Created, ~Usable(l)
  PROVE  l \in Created' /\ ~Usable(l)'
  <1>1. l \in Links /\ links[l].expiresAt \in Nat /\ clock \in Nat
    BY DEF Created, Base, TypeOK, Link
  <1>2. clock' = clock \/ clock' = clock + 1
    BY DEF Next, vars, RegisterFind, Insert, AssignRole, ForgotFind, Invalidate, CreateLink,
           Mail, UseFind, Consume, Apply, Abort, Disable, Enable, AssignAgain, Withdraw, Tick
  <1>3. /\ links'[l].user = links[l].user /\ links'[l].expiresAt = links[l].expiresAt
        /\ links[l].consumed => links'[l].consumed
    <2>1. CASE UNCHANGED links
      BY <2>1
    <2>2. CASE \E h \in Handlers : Invalidate(h) \/ Consume(h)
      BY <1>1, <2>2 DEF Invalidate, Consume, Base, TypeOK, Link
    <2>3. CASE \E h \in Handlers : CreateLink(h)
      BY <1>1, <2>3 DEF CreateLink, Base, TypeOK
    <2> QED
      BY <2>1, <2>2, <2>3, LinksWritten
  <1> QED
    BY <1>1, <1>2, <1>3 DEF Created, Usable

(* Only a request that found the link good presents it, or uses it.         *)
LEMMA PresentersKept ==
  ASSUME Base, [Next]_vars, NEW l \in Created, ~Usable(l), Presenters(l) = {}
  PROVE  Presenters(l)' = {} /\ uses'[l] = uses[l]
  <1>1. l \in Links
    BY DEF Created
  <1>2. \A g \in Handlers : ~(req[g].link = l /\ req[g].pc \in {"consume", "apply"})
    BY DEF Presenters
  <1>3. ASSUME NEW h \in Handlers,
               \A g \in Handlers \ {h} : req'[g] = req[g],
               ~(req'[h].link = l /\ req'[h].pc \in {"consume", "apply"})
        PROVE  Presenters(l)' = {}
    BY <1>2, <1>3 DEF Presenters
  <1>4. CASE UNCHANGED <<req, uses>>
    BY <1>4 DEF Presenters
  <1>5. ASSUME NEW h \in Handlers, RegisterFind(h) \/ ForgotFind(h)
        PROVE  Presenters(l)' = {} /\ uses'[l] = uses[l]
    <2>1. req'[h].pc \in {"insert", "invalidate"}
      BY <1>5 DEF RegisterFind, ForgotFind, Become, Base, TypeOK, Idle
    <2> QED
      BY <1>3, <1>5, <2>1, StartMoves DEF Moves
  <1>6. ASSUME NEW h \in Handlers, UseFind(h)
        PROVE  Presenters(l)' = {} /\ uses'[l] = uses[l]
    <2>1. PICK k \in mailed :
            /\ Usable(k)
            /\ Become(h, [Idle EXCEPT !.pc = "consume", !.user = links[k].user, !.link = k,
                                      !.purpose = links[k].purpose])
      BY <1>6 DEF UseFind
    <2>2. req'[h].link = k
      BY <2>1 DEF Become, Base, TypeOK, Idle
    <2> QED
      BY <1>3, <1>6, <2>1, <2>2, StartMoves DEF Moves
  <1>7. ASSUME NEW h \in Handlers,
               Insert(h) \/ AssignRole(h) \/ Invalidate(h) \/ CreateLink(h) \/ Mail(h)
                 \/ Abort(h)
        PROVE  Presenters(l)' = {} /\ uses'[l] = uses[l]
    BY <1>3, <1>7, InsertMoves, RestMoves, CreateLinkMoves DEF Moves
  <1>8. ASSUME NEW h \in Handlers, Consume(h)
        PROVE  Presenters(l)' = {} /\ uses'[l] = uses[l]
    <2>1. req[h].pc = "consume" /\ req'[h].link = req[h].link
      BY <1>8, GotoType DEF Consume, At, Base, Pc
    <2> QED
      BY <1>2, <1>3, <1>8, <2>1, RestMoves DEF Moves
  <1>9. ASSUME NEW h \in Handlers, Apply(h)
        PROVE  Presenters(l)' = {} /\ uses'[l] = uses[l]
    <2>1. req[h].pc = "apply" /\ uses' = [uses EXCEPT ![req[h].link] = @ + 1]
      BY <1>9 DEF Apply, At
    <2>2. uses'[l] = uses[l]
      BY <1>1, <1>2, <2>1 DEF Base, TypeOK
    <2> QED
      BY <1>3, <1>9, <2>2, RestMoves DEF Moves
  <1>10. CASE Tick \/ UNCHANGED vars \/ \E u \in Users : Administer(u)
    BY <1>4, <1>10 DEF Tick, vars, Administer, Disable, Enable, AssignAgain, Withdraw
  <1> QED
    BY <1>5, <1>6, <1>7, <1>8, <1>9, <1>10 DEF Next, Administer

(* A link that was consumed or has expired, and that no request under way   *)
(* had found good, is never again good for anything (verifyEmail,           *)
(* resetPassword).                                                          *)
THEOREM DeadLinks == Spec => DeadLinksStay
  <1>1. Base /\ [Next]_vars =>
          [\A l \in Links : Dead(l) => Dead(l)' /\ uses'[l] = uses[l]]_vars
    BY UnusableKept, PresentersKept DEF Dead
  <1> QED
    BY <1>1, BaseAlways, PTL DEF Spec, DeadLinksStay

(* One request at a time: a link changes its account at most once, wherever *)
(* requests die, and an account has at most one reset link that is good, the *)
(* newest (verifyEmail, resetPassword, forgotPassword).                     *)
THEOREM SequentialLinks ==
  ASSUME NEW h, Handlers = {h}
  PROVE  Spec => [](/\ SingleUseLinks
                    /\ \A u \in Users : Cardinality(LiveResets(u)) <= 1)
  <1>1. Cardinality(Handlers) = 1
    BY FS_Singleton
  <1>2. ASSUME Base, LinkUses, NEW l \in Links PROVE uses[l] <= 1
    <2>1. Cardinality(Presenters(l)) \in Nat
      BY FewWorkers DEF Presenters
    <2>2. uses[l] \in Nat /\ uses[l] + Cardinality(Presenters(l)) <= 1
      BY <1>1, <1>2 DEF Base, TypeOK, LinkUses
    <2> QED
      BY <2>1, <2>2
  <1>3. ASSUME FewResets, NEW u \in Users PROVE Cardinality(LiveResets(u)) <= 1
    <2>1. Cardinality(Resetting(u)) \in Nat
      BY ResettingWorkers
    <2>2. Cardinality(LiveResets(u)) \in Nat
      BY <1>3, FS_CardinalityType DEF FewResets
    <2>3. Cardinality(LiveResets(u)) + Cardinality(Resetting(u)) <= 1
      BY <1>1, <1>3 DEF FewResets
    <2> QED
      BY <2>1, <2>2, <2>3
  <1>4. Base /\ LinkUses /\ FewResets =>
          /\ SingleUseLinks
          /\ \A u \in Users : Cardinality(LiveResets(u)) <= 1
    BY <1>2, <1>3 DEF SingleUseLinks
  <1> QED
    BY <1>4, BaseAlways, UsesBounded, FewResetsAlways, PTL
=============================================================================
