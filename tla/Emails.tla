-------------------------------- MODULE Emails --------------------------------
(***************************************************************************)
(* Names and e-mail addresses of accounts: who has which, how an address   *)
(* is verified, and how it is changed.  A link goes to an inbox and is     *)
(* opened there by whoever reads it; its secret is the key of its row.     *)
(***************************************************************************)
EXTENDS Naturals, FiniteSets

CONSTANTS Name,        \* names of users and organizations
          Address,     \* e-mail addresses
          LinkSecret,  \* secrets of verification links
          Handler,     \* requests that may be at work at the same time
          Nowhere      \* no address

ASSUME EmailsConstants == Nowhere \notin Address

VARIABLES namespace,     \* table namespaces: "free", "user" or "org"
          accountRow,    \* table users: the address and whether it is verified
          verification,  \* table email_verifications, by secret
          inbox,         \* the links that were sent to each address
          handling,      \* what each handler is doing
          proven,        \* the addresses each account has opened a link from
          deleted        \* names whose account was deleted

emailVars == <<namespace, accountRow, verification, inbox, handling, proven, deleted>>

NoAccount == [email |-> Nowhere, verified |-> FALSE]
Account == [email : Address, verified : BOOLEAN]
NoLink == [of |-> "nobody"]
Link == [of : Name, to : Address]
Waiting == [at |-> "waiting"]

Has(n) == accountRow[n] # NoAccount
Taken(a) == \E n \in Name : accountRow[n].email = a
LinksOf(n) == {s \in LinkSecret : verification[s].of = n}

\* A secret that was never mailed.
Unsent(s) == verification[s] = NoLink /\ \A a \in Address : s \notin inbox[a]

Handles(h, what) == handling' = [handling EXCEPT ![h] = what]

-----------------------------------------------------------------------------
(* Accounts.                                                               *)

\* Mutant: a refused registration keeps the name it has inserted.
KeepName(n) == namespace' = [namespace EXCEPT ![n] = "user"]
\* Without an account the transaction is rolled back, the name with it.
RollBackName(n) == namespace' = namespace

\* One transaction inserts the name, then the account; the link is sent after it.
Register(h, n, a) ==
  /\ handling[h] = Waiting
  /\ namespace[n] = "free"
  /\ IF Taken(a)
       THEN RollBackName(n) /\ UNCHANGED <<accountRow, handling>>
       ELSE /\ namespace' = [namespace EXCEPT ![n] = "user"]
            /\ accountRow' = [accountRow EXCEPT ![n] = [email |-> a, verified |-> FALSE]]
            /\ Handles(h, [at |-> "send", user |-> n, to |-> a])
  /\ UNCHANGED <<verification, inbox, proven, deleted>>

RegisterOrg(n) ==
  /\ namespace[n] = "free"
  /\ namespace' = [namespace EXCEPT ![n] = "org"]
  /\ UNCHANGED <<accountRow, verification, inbox, handling, proven, deleted>>

\* Mutant: the name goes with the account.
FreeName(n) == [namespace EXCEPT ![n] = "free"]
\* The row of namespaces has no reference to the user: it stays.
ReserveName(n) == namespace

DeleteNamedAccount(n) ==
  /\ Has(n)
  /\ accountRow' = [accountRow EXCEPT ![n] = NoAccount]
  /\ verification' = [s \in LinkSecret |-> IF s \in LinksOf(n) THEN NoLink ELSE verification[s]]
  /\ namespace' = ReserveName(n)
  /\ proven' = [proven EXCEPT ![n] = {}]
  /\ deleted' = deleted \cup {n}
  /\ UNCHANGED <<inbox, handling>>

-----------------------------------------------------------------------------
(* Links.                                                                  *)

\* The session's user is read first: the address it had is what the link is for.
Resend(h, n) ==
  /\ handling[h] = Waiting
  /\ Has(n) /\ ~accountRow[n].verified
  /\ Handles(h, [at |-> "send", user |-> n, to |-> accountRow[n].email])
  /\ UNCHANGED <<namespace, accountRow, verification, inbox, proven, deleted>>

\* The password was right and nobody had the address when this was checked.
CheckNewAddress(h, n, a) ==
  /\ handling[h] = Waiting
  /\ Has(n) /\ a # accountRow[n].email
  /\ ~Taken(a)
  /\ Handles(h, [at |-> "send", user |-> n, to |-> a])
  /\ UNCHANGED <<namespace, accountRow, verification, inbox, proven, deleted>>

\* One transaction puts the new link in place of the earlier ones of the
\* account; then it is mailed.  An account that is gone takes no row.
SendVerification(h) ==
  LET n == handling[h].user  a == handling[h].to IN
  /\ handling[h].at = "send"
  /\ IF Has(n)
       THEN \E s \in LinkSecret :
              /\ Unsent(s)
              /\ verification' = [[x \in LinkSecret |-> IF x \in LinksOf(n) THEN NoLink ELSE verification[x]]
                                    EXCEPT ![s] = [of |-> n, to |-> a]]
              /\ inbox' = [inbox EXCEPT ![a] = @ \cup {s}]
       ELSE UNCHANGED <<verification, inbox>>
  /\ Handles(h, Waiting)
  /\ UNCHANGED <<namespace, accountRow, proven, deleted>>

\* The handler stops, or the mail is not delivered.
SendFails(h) ==
  /\ handling[h].at = "send"
  /\ Handles(h, Waiting)
  /\ UNCHANGED <<namespace, accountRow, verification, inbox, proven, deleted>>

\* Mutant: whose address it is by now is not looked at.
NobodyElse(n, a) == TRUE
NotAnothers(n, a) == \A m \in Name \ {n} : accountRow[m].email # a

\* Mutant: the account is verified whatever address the link was for.
VerifyCurrent(n, a) == [accountRow EXCEPT ![n].verified = TRUE]
\* A link for another address changes it; either way it is verified.
Confirm(n, a) == [accountRow EXCEPT ![n] = [email |-> a, verified |-> TRUE]]

\* A link is opened by the reader of the inbox it went to: one transaction,
\* rolled back when another account has the address by now.
VerifyEmail(a, s) ==
  LET n == verification[s].of IN
  /\ s \in inbox[a]
  /\ verification[s] # NoLink
  /\ NotAnothers(n, verification[s].to)
  /\ accountRow' = Confirm(n, verification[s].to)
  /\ verification' = [x \in LinkSecret |-> IF x \in LinksOf(n) THEN NoLink ELSE verification[x]]
  /\ proven' = [proven EXCEPT ![n] = @ \cup {a}]
  /\ UNCHANGED <<namespace, inbox, handling, deleted>>

\* A password change, or the user, drops the pending change of address.
CancelEmailChange(n) ==
  /\ \E s \in LinksOf(n) : verification[s].to # accountRow[n].email
  /\ verification' = [s \in LinkSecret |->
                        IF s \in LinksOf(n) /\ verification[s].to # accountRow[n].email THEN NoLink ELSE verification[s]]
  /\ UNCHANGED <<namespace, accountRow, inbox, handling, proven, deleted>>

LinkExpires(s) ==
  /\ verification[s] # NoLink
  /\ verification' = [verification EXCEPT ![s] = NoLink]
  /\ UNCHANGED <<namespace, accountRow, inbox, handling, proven, deleted>>

-----------------------------------------------------------------------------
EmailsInit ==
  /\ namespace = [n \in Name |-> "free"]
  /\ accountRow = [n \in Name |-> NoAccount]
  /\ verification = [s \in LinkSecret |-> NoLink]
  /\ inbox = [a \in Address |-> {}]
  /\ handling = [h \in Handler |-> Waiting]
  /\ proven = [n \in Name |-> {}]
  /\ deleted = {}

EmailsNext ==
  \/ \E h \in Handler :
       \/ SendVerification(h) \/ SendFails(h)
       \/ \E n \in Name : Resend(h, n) \/ \E a \in Address : Register(h, n, a) \/ CheckNewAddress(h, n, a)
  \/ \E n \in Name : RegisterOrg(n) \/ DeleteNamedAccount(n) \/ CancelEmailChange(n)
  \/ \E s \in LinkSecret : LinkExpires(s) \/ \E a \in Address : VerifyEmail(a, s)

EmailsSpec == EmailsInit /\ [][EmailsNext]_emailVars

-----------------------------------------------------------------------------
EmailsTypeOK ==
  /\ namespace \in [Name -> {"free", "user", "org"}]
  /\ accountRow \in [Name -> Account \cup {NoAccount}]
  /\ verification \in [LinkSecret -> Link \cup {NoLink}]
  /\ inbox \in [Address -> SUBSET LinkSecret]
  /\ handling \in [Handler -> {Waiting} \cup [at : {"send"}, user : Name, to : Address]]
  /\ proven \in [Name -> SUBSET Address]
  /\ deleted \subseteq Name

\* An address belongs to one account, although a link may be opened long
\* after it was checked that nobody else has the address (VerifyEmail).
AddressesAreUnique ==
  \A m, n \in Name : Has(m) /\ accountRow[m].email = accountRow[n].email => m = n

\* A verified address is one the account has opened a link from, whatever
\* links are still under way for earlier addresses (SendVerification).
VerifiedWasProven == \A n \in Name : accountRow[n].verified => accountRow[n].email \in proven[n]

\* Whose address it is, is settled by links and by nothing else.
AddressesAreProven == AddressesAreUnique /\ VerifiedWasProven

\* A name that is taken belongs to an organization, to an account, or to an
\* account that was deleted: a failed registration takes no name (Register).
NamesBelongToSomebody == \A n \in Name : namespace[n] = "user" => Has(n) \/ n \in deleted

\* A name never becomes anybody else's: paths of published modules start
\* with it (DeleteAccount keeps the row of namespaces).
NamesStay == \A n \in Name : namespace[n] # "free" => namespace'[n] = namespace[n] /\ (~Has(n) => ~Has(n)')
NamesAreKept == []NamesBelongToSomebody /\ [][NamesStay]_emailVars
=============================================================================
