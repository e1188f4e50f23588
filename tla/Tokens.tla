-------------------------------- MODULE Tokens --------------------------------
(***************************************************************************)
(* API tokens and trusted publishers: a workflow's ID token is exchanged   *)
(* for a short-lived API token.  The exchange and the minting of the API   *)
(* token are two transactions, and what one user may do with a module is   *)
(* read in between.  Publishers are the ids of their rows, as in the code: *)
(* SQLite gives the id of a deleted last row out again.                    *)
(***************************************************************************)
EXTENDS Naturals, FiniteSets

CONSTANTS Publicist, Mod,
          Env,            \* environments of workflows; NoEnv is one
          NoEnv,
          IdToken,        \* ID tokens a CI system issues
          Claims,         \* what each says: environment, owner, expiry
          OwnerId,        \* ids of the repository's owner
          Caller,         \* requests that may be at work at the same time
          ApiToken,       \* rows of api_tokens
          MaxPublisher,   \* bound on ids of publishers
          MaxPublishers,  \* publishers a module may have (10 in the code)
          MaxTokens,      \* active tokens of a user (20)
          Leeway,         \* how long past its expiry an ID token verifies
          KeepUse,        \* how long past it its use is remembered
          MaxNow,         \* bound on time
          Unpinned        \* no owner recorded yet

ASSUME TokensConstants ==
  /\ NoEnv \in Env
  /\ Claims \in [IdToken -> [env : Env, owner : OwnerId, exp : Nat]]
  /\ Unpinned \notin OwnerId
  /\ Leeway \in Nat /\ KeepUse \in Nat /\ Leeway <= KeepUse
  /\ MaxPublisher \in Nat /\ MaxPublishers \in Nat /\ MaxTokens \in Nat

VARIABLES may,        \* what each user may do with each module
          publisher,  \* table trusted_publishers, by id
          token,      \* table api_tokens
          used,       \* table oidc_token_uses
          now,
          calling,    \* what each request is doing
          exchanges,  \* how often each ID token was exchanged
          late        \* tokens minted although their publisher was removed

tokenVars == <<may, publisher, token, used, now, calling, exchanges, late>>

Ids == 1..MaxPublisher
NoPublisher == [of |-> "none"]
Publisher == [of : Mod, env : Env, by : Publicist, owner : OwnerId \cup {Unpinned}]
NoToken == [state |-> "none"]
\* "from" is 0 for a personal token, and when its publisher's row is deleted.
Token == [state : {"active", "revoked", "expired"}, user : Publicist, minted : BOOLEAN, of : Mod, from : {0} \cup Ids]
Ready == [at |-> "ready"]

Publishers == {p \in Ids : publisher[p] # NoPublisher}
PublishersOf(m) == {p \in Publishers : publisher[p].of = m}
Calls(c, what) == calling' = [calling EXCEPT ![c] = what]

-----------------------------------------------------------------------------
(* Trusted publishers.                                                     *)

\* An owner of the module, or of one not yet published whoever may publish it.
CanManagePublishers(u, m) == may[u][m] = "manage"
CanPublishModule(u, m) == may[u][m] \in {"publish", "manage"}

\* Roles change behind the requests' backs.
AccessChanges(u, m) ==
  /\ \E right \in {"nothing", "publish", "manage"} \ {may[u][m]} : may' = [may EXCEPT ![u][m] = right]
  /\ UNCHANGED <<publisher, token, used, now, calling, exchanges, late>>

CheckAddPublisher(c, u, m, e) ==
  /\ calling[c] = Ready
  /\ CanManagePublishers(u, m)
  /\ Calls(c, [at |-> "add", user |-> u, of |-> m, env |-> e])
  /\ UNCHANGED <<may, publisher, token, used, now, exchanges, late>>

RoomForPublisher(m) == Cardinality(PublishersOf(m)) < MaxPublishers

\* A new row gets the largest id plus one.
NextPublisher == {n \in Ids : (n = 1 \/ n - 1 \in Publishers) /\ \A p \in Publishers : p < n}

\* One transaction; a second row for the same workflow and environment is refused.
AddPublisher(c) ==
  LET q == calling[c] IN
  /\ q.at = "add"
  /\ IF RoomForPublisher(q.of) /\ \A p \in PublishersOf(q.of) : publisher[p].env # q.env
       THEN \E n \in NextPublisher :
              publisher' = [publisher EXCEPT ![n] = [of |-> q.of, env |-> q.env, by |-> q.user, owner |-> Unpinned]]
       ELSE publisher' = publisher
  /\ Calls(c, Ready)
  /\ UNCHANGED <<may, token, used, now, exchanges, late>>

CheckRemovePublisher(c, u, p) ==
  /\ calling[c] = Ready
  /\ p \in Publishers
  /\ CanManagePublishers(u, publisher[p].of)
  /\ Calls(c, [at |-> "remove", id |-> p, user |-> u])
  /\ UNCHANGED <<may, publisher, token, used, now, exchanges, late>>

\* The tokens of publisher p when its row is deleted: the reference becomes NULL.
Forget(t, p) == [k \in ApiToken |-> IF t[k] # NoToken /\ t[k].from = p THEN [t[k] EXCEPT !.from = 0] ELSE t[k]]
Revoke(t, p) == [k \in ApiToken |-> IF t[k] # NoToken /\ t[k].from = p /\ t[k].state = "active"
                                      THEN [t[k] EXCEPT !.state = "revoked"] ELSE t[k]]

\* Mutant: the row is deleted first.
ForgetThenRevoke(t, p) == Revoke(Forget(t, p), p)
\* Its tokens are revoked before the delete clears their publisher_id.
RevokeThenForget(t, p) == Forget(Revoke(t, p), p)

RemovePublisher(c) ==
  LET p == calling[c].id IN
  /\ calling[c].at = "remove"
  /\ publisher' = [publisher EXCEPT ![p] = NoPublisher]
  /\ token' = RevokeThenForget(token, p)
  \* What an exchange has matched is removed too: the token it may still mint.
  /\ calling' = [d \in Caller |->
                   IF d = c THEN Ready
                   ELSE IF calling[d].at \in {"check", "mint"} /\ calling[d].id = p THEN [calling[d] EXCEPT !.late = TRUE]
                   ELSE calling[d]]
  /\ UNCHANGED <<may, used, now, exchanges, late>>

-----------------------------------------------------------------------------
(* ID tokens.                                                              *)

\* The signature, audience and time of the ID token are right.
VerifyIdToken(c, i, m) ==
  /\ calling[c] = Ready
  /\ now <= Claims[i].exp + Leeway
  /\ Calls(c, [at |-> "exchange", jti |-> i, of |-> m])
  /\ UNCHANGED <<may, publisher, token, used, now, exchanges, late>>

\* Mutant: uses are forgotten as soon as the ID token has expired.
PurgeExpired == {i \in used : Claims[i].exp >= now}
\* Uses are forgotten once they are too old to verify.
PurgeUses == {i \in used : Claims[i].exp + KeepUse >= now}

\* The workflow's publishers of m: one tied to the environment it runs in
\* comes first, then one that is not tied to any.
MatchPublisher(m, e) ==
  LET tied == {p \in PublishersOf(m) : publisher[p].env = e}
      loose == {p \in PublishersOf(m) : publisher[p].env = NoEnv}
  IN IF tied # {} THEN tied ELSE loose

\* Mutant: the owner recorded earlier is not compared.
AnyOwner(p, o) == TRUE
SameOwner(p, o) == publisher[p].owner \in {Unpinned, o}

\* One transaction: the use is recorded, the publisher matched and its owner
\* pinned; when there is none, or another owner, all of it is rolled back.
ExchangeGitHubToken(c) ==
  LET i == calling[c].jti  m == calling[c].of  matched == MatchPublisher(m, Claims[i].env) IN
  /\ calling[c].at = "exchange"
  /\ IF i \notin PurgeUses /\ \E p \in matched : SameOwner(p, Claims[i].owner)
       THEN \E p \in matched :
              /\ SameOwner(p, Claims[i].owner)
              /\ publisher' = [publisher EXCEPT ![p].owner = Claims[i].owner]
              /\ used' = PurgeUses \cup {i}
              /\ exchanges' = [exchanges EXCEPT ![i] = @ + 1]
              /\ Calls(c, [at |-> "check", id |-> p, of |-> m, user |-> publisher[p].by, late |-> FALSE])
       ELSE Calls(c, Ready) /\ UNCHANGED <<publisher, used, exchanges>>
  /\ UNCHANGED <<may, token, now, late>>

\* The user behind the publisher can still publish the module.
CheckPublisherUser(c) ==
  LET q == calling[c] IN
  /\ q.at = "check"
  /\ Calls(c, IF CanPublishModule(q.user, q.of) THEN [q EXCEPT !.at = "mint"] ELSE Ready)
  /\ UNCHANGED <<may, publisher, token, used, now, exchanges, late>>

\* The token refers to the publisher's row: without it the insert fails.
MintPublisherToken(c) ==
  LET q == calling[c] IN
  /\ q.at = "mint"
  /\ IF q.id \in Publishers
       THEN \E k \in ApiToken :
              /\ token[k] = NoToken
              /\ token' = [token EXCEPT ![k] = [state |-> "active", user |-> q.user, minted |-> TRUE, of |-> q.of, from |-> q.id]]
              /\ late' = IF q.late THEN late \cup {k} ELSE late
       ELSE UNCHANGED <<token, late>>
  /\ Calls(c, Ready)
  /\ UNCHANGED <<may, publisher, used, now, exchanges>>

-----------------------------------------------------------------------------
(* Personal tokens.                                                        *)

\* Tokens of the user that no publisher was given, as their rows have it.
ActiveTokens(u) == {k \in ApiToken : token[k] # NoToken /\ token[k].user = u /\ token[k].state = "active" /\ token[k].from = 0}

\* Mutant: the count is that of before the transaction.
NotCounted(u) == TRUE
RoomForToken(u) == Cardinality(ActiveTokens(u)) < MaxTokens

\* One transaction counts and inserts; a token for one module needs a role on it.
CreateApiToken(u, m) ==
  /\ CanPublishModule(u, m)
  /\ RoomForToken(u)
  /\ \E k \in ApiToken :
       /\ token[k] = NoToken
       /\ token' = [token EXCEPT ![k] = [state |-> "active", user |-> u, minted |-> FALSE, of |-> m, from |-> 0]]
  /\ UNCHANGED <<may, publisher, used, now, calling, exchanges, late>>

\* Any token of the user, also one a publisher was given.
RevokeApiToken(k) ==
  /\ token[k] # NoToken /\ token[k].state = "active"
  /\ token' = [token EXCEPT ![k].state = "revoked"]
  /\ UNCHANGED <<may, publisher, used, now, calling, exchanges, late>>

ApiTokenExpires(k) ==
  /\ token[k] # NoToken /\ token[k].state = "active"
  /\ token' = [token EXCEPT ![k].state = "expired"]
  /\ UNCHANGED <<may, publisher, used, now, calling, exchanges, late>>

\* The row of the user goes, and what refers to it: tokens and publishers.
DeleteTokensOf(u) ==
  /\ \E m \in Mod : may[u][m] # "nothing"
  /\ may' = [may EXCEPT ![u] = [m \in Mod |-> "nothing"]]
  /\ publisher' = [p \in Ids |-> IF p \in Publishers /\ publisher[p].by = u THEN NoPublisher ELSE publisher[p]]
  /\ token' = [k \in ApiToken |->
       IF token[k] = NoToken \/ token[k].user = u THEN NoToken
       ELSE IF token[k].from # 0 /\ publisher'[token[k].from] = NoPublisher THEN [token[k] EXCEPT !.from = 0]
       ELSE token[k]]
  /\ late' = {k \in late : token'[k] # NoToken}
  \* Requests of the user end: a row they refer to, or look up, is gone.
  /\ calling' = [c \in Caller |-> IF "user" \in DOMAIN calling[c] /\ calling[c].user = u THEN Ready ELSE calling[c]]
  /\ UNCHANGED <<used, now, exchanges>>

TimePasses ==
  /\ now < MaxNow
  \* A request takes less time than a use is remembered past what verifies.
  /\ \A c \in Caller : calling[c].at = "exchange" => now < Claims[calling[c].jti].exp + KeepUse
  /\ now' = now + 1
  /\ UNCHANGED <<may, publisher, token, used, calling, exchanges, late>>

CallFails(c) ==
  /\ calling[c] # Ready
  /\ Calls(c, Ready)
  /\ UNCHANGED <<may, publisher, token, used, now, exchanges, late>>

-----------------------------------------------------------------------------
TokensInit ==
  /\ may \in [Publicist -> [Mod -> {"manage"}]]
  /\ publisher = [p \in Ids |-> NoPublisher]
  /\ token = [k \in ApiToken |-> NoToken]
  /\ used = {}
  /\ now = 0
  /\ calling = [c \in Caller |-> Ready]
  /\ exchanges = [i \in IdToken |-> 0]
  /\ late = {}

TokensNext ==
  \/ \E c \in Caller :
       \/ AddPublisher(c) \/ RemovePublisher(c) \/ CallFails(c)
       \/ ExchangeGitHubToken(c) \/ CheckPublisherUser(c) \/ MintPublisherToken(c)
       \/ \E u \in Publicist, m \in Mod, e \in Env : CheckAddPublisher(c, u, m, e)
       \/ \E u \in Publicist, p \in Ids : CheckRemovePublisher(c, u, p)
       \/ \E i \in IdToken, m \in Mod : VerifyIdToken(c, i, m)
  \/ \E u \in Publicist : DeleteTokensOf(u) \/ \E m \in Mod : AccessChanges(u, m) \/ CreateApiToken(u, m)
  \/ \E k \in ApiToken : RevokeApiToken(k) \/ ApiTokenExpires(k)
  \/ TimePasses

TokensSpec == TokensInit /\ [][TokensNext]_tokenVars

-----------------------------------------------------------------------------
Call ==
  {Ready} \cup [at : {"add"}, user : Publicist, of : Mod, env : Env] \cup [at : {"remove"}, id : Ids, user : Publicist]
    \cup [at : {"exchange"}, jti : IdToken, of : Mod]
    \cup [at : {"check", "mint"}, id : Ids, of : Mod, user : Publicist, late : BOOLEAN]

TokensTypeOK ==
  /\ may \in [Publicist -> [Mod -> {"nothing", "publish", "manage"}]]
  /\ publisher \in [Ids -> Publisher \cup {NoPublisher}]
  /\ token \in [ApiToken -> Token \cup {NoToken}]
  /\ used \subseteq IdToken
  /\ now \in Nat
  /\ exchanges \in [IdToken -> Nat]
  /\ calling \in [Caller -> Call]
  /\ late \subseteq {k \in ApiToken : token[k] # NoToken}

\* An ID token is exchanged at most once, also when it is offered twice at
\* the same time, and as long as it verifies after its use was recorded
\* (ExchangeGitHubToken forgets uses).
ExchangedAtMostOnce == \A i \in IdToken : exchanges[i] <= 1

\* The owner recorded at a publisher's first use stays while the publisher
\* does: another account of the same name cannot publish.
OwnerStays ==
  \A p \in Publishers :
    publisher[p].owner # Unpinned /\ publisher'[p] # NoPublisher => publisher'[p].owner = publisher[p].owner

\* A token a publisher was given is never active without the publisher, but
\* for one that was minted late: after its publisher was removed, with the id
\* of the next one (RemovePublisher, MintPublisherToken).
MintedHaveAPublisher ==
  \A k \in ApiToken \ late : token[k] # NoToken /\ token[k].state = "active" /\ token[k].minted =>
    token[k].from \in Publishers

\* Requests that run at the same time do not pass the limits.
LimitsHold ==
  /\ \A u \in Publicist : Cardinality(ActiveTokens(u) \ late) <= MaxTokens
  /\ \A m \in Mod : Cardinality(PublishersOf(m)) <= MaxPublishers

\* Trusted publishing gives out no more than it was trusted with: one token
\* for an ID token, to the owner that was first seen, for as long as the
\* publisher stays, and within the limits.
TrustIsKept ==
  /\ [](ExchangedAtMostOnce /\ MintedHaveAPublisher /\ LimitsHold)
  /\ [][OwnerStays]_tokenVars

\* What is documented and does not hold: removing a publisher revokes any
\* tokens it has been issued.
RemovedAreRevoked == MintedHaveAPublisher /\ \A k \in late : token[k].state # "active"
=============================================================================
