# TLA+ models of gopherdex

gopherdex is a registry for Go modules: accounts and organizations, uploads of
immutable module versions, a module proxy, search, moderation, advisories and
download counts, in one Go program over SQLite and a store of zip files, and a
command line that publishes to it. These modules say what it promises, check
that with TLC on small instances, and prove the most important parts with
TLAPS for instances of any size.

    tlc -workers 2 -config MCRegistry.cfg MCRegistry         # one run
    tlapm PublishingProofs.tla                               # one module's proofs

`PROJECT.json` lists the runs, the mutants that show each property can fail,
the source lines each definition stands for, the findings, the hazards and the
theorems.

## 1. The system

One process (`cmd/gopherdexd`), one SQLite database opened with immediate
transactions (`internal/database`), one blob store (`internal/blob`). HTTP
handlers run concurrently, each in its own goroutine. A transaction is atomic
and writers take turns; but most handlers read what they need in separate
statements *before* their transaction, and do more *after* it. Nearly
everything that is hard about this program is in those two gaps; most of the
rest is in the caches in memory, whose mutex is released while a value is
fetched, and in what is left half done by a failure or a stop.

| Component | State | Operations | What is hard | What makes it correct |
|---|---|---|---|---|
| **Access control** `registry/{maintain,orgs,teams,invitations}.go`, `accounts/profile.go` | `module_roles`, `organizations`, `org_members`, `teams`, `team_members`, `team_modules`, `users` | invite, accept, decline, change, remove, leave; teams and their grants; delete an account | checks before the transaction, triggers, row ids given out again | somebody always owns an organization or a module; access is agreed to, and leaving takes it back |
| **Publishing** `registry/registry.go`, `server/upload.go` | `modules`, `versions`, zips | publish | six reads, a blob and a transaction; races, crashes, retries | a version never changes, has its zip, is published by somebody with a role |
| **Blob store** `blob/{blob,s3}.go`, `cmd/gopherdexd` | keys to bytes | put, open, copy, verify | half-written files, keys that are taken, slots for open zips | a key holds the bytes its hash names; every version has its zip, and slots come back |
| **Moderation** `registry/{trust,checks,signals}.go`, `scan` | `quarantined_at`, reports, findings | report, dismiss, quarantine, release | a quarantine beside an upload or a reindex; two administrators with one queue | under review nothing is published or found; a report is decided once |
| **Search index** `registry/search.go`, `maintain.go` | `module_meta`, `module_fts` | reindex after each change, backfill at start, pages of a search | reads before the write; failures after the commit; restarts; tiers that are ranked apart | the index says what the tables say; the pages are one list |
| **Download counts** `registry/downloads.go` | counts in memory, `downloads`, `downloads_30d` | count, flush, put back, refresh | counting while a batch is written; failed batches; days going by | each download counted once; recent counts are those of the window |
| **Accounts and sign-in** `accounts/*.go`, `server/{security,accounts}.go` | sessions, reset links, email changes, challenges, second factors, passkeys | register, log in, reset, change, confirm, delete | links and codes used twice, sign-ins beside password changes | a link or code works once; changing a password ends what was begun before |
| **API tokens, trusted publishing** `registry/publishers.go`, `oidc`, `server/publishing.go` | publishers, tokens, used ID tokens, cached keys | exchange, mint, revoke, fetch keys | two transactions, one after the other; expiry; keys that rotate | an ID token is exchanged once; removing a publisher ends its tokens; keys follow the issuer's |
| **Advisories, vulnerability database** `registry/advisories.go`, `vulndb` | advisories, cached reports and indexes | file, edit, withdraw, refresh, merge | an older answer over a newer one; ranges that overlap | withdrawn ones stay withdrawn; a copy becomes the database of now |
| **Module proxy** `goproxy`, `store`, `proxyclient`, `registry/multi.go` | the client's cache | list, latest, info, mod, zip | yanks and quarantines beside reads; three sources | an answer was true at some moment of the request |
| **Versions and paths** `module`, `gomod` | none | compare, latest, escape, parse `go.mod` | pre-releases, large numbers, comments and blocks | a total order; escaping that can be undone |
| **Dependents** `registry/dependents.go` | `requires` | record, backfill | backfill beside publishing | the newest version's requirements |
| **Listings cache** `server/listcache.go` | one cached value per list | get, refresh | one refresh at a time, failures | never older than what was shown; refreshes go on |
| **Rate limits** `ratelimit` | events per key | allow, sweep | full tables, windows | no more than twice the limit in any span of a window |
| **Mirror, mail** `mirror`, `mail` | notices under way | notify, retry, wait | notices at a stop | a server that stops leaves no notice under way |
| **Database, backup** `database`, `cmd/gopherdexd` | the file, its copies, `schema_migrations` | open, migrate, back up, prune | programs that migrate at the same time; a stop in a backup | each migration once and in order; a whole backup remains |
| **Command line** `cmd/gopherdex`, `publish` | the credentials file; a git repository | publish, login, logout | tags that move, answers that are lost, files written whole by two commands | a release is of its tag's commit; tokens go home |
| **Pages and search of two sources** `discovery`, `project`, `ranking` | cached contents | page, module, search | a cached value of before | what is hosted here is not shown as public |
| Website, rendering, benchmarks, deployment | none, or that of the above | | | |

Publishing decides with Access's tables who may publish, writes the blob store
and then the tables, and asks the index for the module's entry; yanking,
deprecation and moderation change the tables the index is made from; the
proxy's zips feed the download counts, which search sorts by. Deleting an
account reaches into every table with a user in it. A workflow's ID token
becomes an API token, with which the command line publishes.

## 2. The models

Conventions. A transaction or a statement outside of one is an action. A
handler that reads first keeps what it read in a variable of its own
(`session`, `upload`, `request`, `reader`, ...), with the next statement as
its `pc`, and any other handler's action may come between two of its own. A
call that may fail, be cut off or never be answered has an action for that.
History variables (what was served, which codes were used, who was told what)
are named as such where they are declared. Each module's header says what it
leaves out.

### Who may do what

**`Access`.** The state is the tables. A row of `org_members` or
`module_roles` is a role and whether it was accepted (`NoRow`, `Invited`,
`Accepted`); teams are their row ids, because the code keeps ids across
statements and SQLite gives the id of the last team out again (`CreateTeam`).
`CheckX` is everything a handler reads before its transaction and leaves the
operation in `session[s]`; `X` is the transaction, with the checks that are
made again inside it (`KeepsAnOwner`, `KeepsAnOrgOwner`, foreign keys);
`GiveUp` is the transaction rolling back. Handlers that are one transaction
(accept, decline, leave, create an organization) are one action of the user.
`LeaveTables` is the deletion of a row of `org_members` with the triggers of
migration 017 -- also when that row is an invitation.

**`SignIn`.** One account, several browsers. A request walks through its
handler one statement at a time: `CheckPassword` and `CreateSession`, the
challenge with its attempts, codes of the app with the guarded update of
`totp_last_step` and the two that set it back, recovery codes, passkeys and their ceremonies, password
resets and changes, the request of an e-mail change, setting up and disabling
two factors, the end of the account. `age` is "old" for what was begun with a
password that has been changed since. **`Emails`** has names, addresses and
verification links beside registration, changes and deletion. **`Tokens`** has
publishers as row ids, the exchange of an ID token and the minting of an API
token as the two transactions they are, personal tokens, their limits and
their expiry.

**`OidcKeys`.** The verifier's kept keys, a lookup that holds the mutex while
the issuer rotates keys, is slow or is down.

### What is published

**`Publishing`.** `Registry.Publish` statement by statement: quarantine, the
role (and for a new module its other major versions one by one, then its
namespace), the version, the zip, the transaction. `upload[r].pc` is the next
statement. Between any two steps run other uploads, quarantines and releases,
every action of Access (`AccessStep`), failures (`Fail`) and the death of the
process (`Crash`). `Record` does all the transaction does: the module's row
and roles, and the version; `RollBack` its refusals. Versions and zips are
model values; a zip has the `h1` hash the go command records and the hash in
its key, and two zips may share the first (`z1`, `z2`: the same files zipped
twice). That two zips never share the hash in the key is an assumption, as it
is in the code.

**`WriteOnce`** is the abstract specification: a register per version, written
at most once; a call is answered *published* by the write itself, *already* or
*conflict* when the register holds the same or other content, and *rejected*
or *failed* at any time. `ImplementsRegisters` is the refinement, with
`content[k]` the hash of version `k` and `call[r]` the request of upload `r`.

**`ClientPublish`** is `gopherdex publish`: `ResolveTag`, `ChooseToken`,
`AskWhoami` or `MintToken`, `BuildZip`, `SendUpload`, `Conclude`, while
`MoveTag` and `CheckOut` change the repository, `HandleUpload` is the
registry's work on one request, which the client may have given up, and
`RefuseUpload` is any refusal. **`Credentials`** is the file of tokens, read
whole and written whole by every command. `CommandLineSpec` in `Registry`
composes the two.

**`Moderation`** has reports, the queue as an administrator last saw it,
dismissals, quarantine and release, and the findings of the publish checks,
which are recorded after the version is committed. **`Typos`** is the check of
names, against strings one edit apart.

**`Versions`**, **`GoModFile`**: paths and their escaped form, semantic
versions with their order, the latest of a list and retractions; and a
`go.mod` file line by line. The texts are the state, which grows by a
character, a version or a line in each step, so that TLC goes through all of
them up to a bound and compares each operator with a definition of what it
should say (the precedence of semver.org, what a line closes). **`Texts`** puts
the three together.

**`Catalog`** has the rows of modules, versions and requirements, what is
listed from them (recent, feeds, namespaces, dependents, the module of an
import path), and the backfill of requirements over starts and failures.

### What is derived and served

**`SearchIndex`.** A handler (publish, yank, restore, deprecate, quarantine,
release) changes the tables (`Begin`, or `Nothing` where the code finds
nothing to change); then `ReadRow`, `ReadVersions` and `WriteEntry` are the
three statements of `reindex`. Each may fail (`IndexFails`): `Quarantine` and
`Release` answer with the error, the others only log it. `Backfill` runs
beside the handlers after every start. Two pieces of history say of what the
properties speak: a job is `alone` as long as nobody else has changed or
reindexed its module since it began, and `stale` has the modules whose last
reindexing failed, was cut off, or was not alone. **`SearchPages`** is a
search by relevance: three tiers, each ranked on its own, from which a page is
cut without ranking those before it. **`Sorting`** is what `SearchPages`,
`Catalog` and `Advisories` use for an `ORDER BY` or a `sort.Slice`.

**`Downloads`.** `Count` is the proxy's `CountN`. `Take`, `Write` or
`PutBack`, and `Refresh` are the statements of `Flush`: the goroutine takes
the counts under the mutex, writes them in one transaction, adds them back
when that fails, and once a day recomputes the recent counts of every module.
`served` and `lost` are history variables.

**`Reads`** is a reader of the module proxy, the module API, project pages and
the two searches: each request is its statements over the registry, the
directory store and the public proxy, with the caches of docs and contents and
the slots for open zips. `reader[r].seen` is a history variable: how the
module stood at each moment of the request. **`ProxyCache`** is the client of
the public proxy with its bounded cache, **`ListCache`** the cached listings,
**`RateLimit`** the limiter, **`Upstream`** the copy of vuln.go.dev,
**`Advisories`** the life of an advisory, the database made of them at every
request, and a tool that follows it by `db.json`.

**`Stopping`** is how the server stops: listener, requests, notices of the
mirror, one deadline, the counts that are written at the end, the database.
**`Storage`** has backups and their pruning, copies of the blob store, the
loss of the machine and its restoration, the move to a bucket. **`Migrations`**
is every program that opens the database applying what it knows.

### Together

**`Accounts`** (Access, SignIn, Emails, Tokens), **`Registry`** (Publishing,
ClientPublish, Credentials, Catalog, Texts, Moderation), **`Derived`** (SearchIndex,
Downloads, ListCache, Upstream, Stopping) and **`Services`** (Advisories,
Reads, OidcKeys, RateLimit, ProxyCache, SearchPages, Storage, Migrations)
conjoin the specifications of what is side by side, with the type invariant of
all of it. In such a behaviour every part takes its own steps, also at the
same moment as another's: no part changes a variable another one has, and what
its environment does to it is among its own actions.

## 3. The runs

The models that read and write the same tables are checked together
(`Access` under `Publishing`, everything over the blob store and the versions).
Those that share no table another one changes are put into one run as *parts*:
the variable `part` (or `mode`, for the models of `Publishing` and `Access`)
says which of them a behaviour works on, and the others' variables stay as
they were. So a run is the union of small systems and not their product.

| Run | Question | Parts and instance |
|---|---|---|
| `accounts` | Who may do what: is it agreed to, proven, limited, used once, and over when it was ended? | *access*: every operation one handler at a time with 2 users, an organization, a module, a team; and owners, 2 handlers who act on each other. *codes, password, app, setup, passkeys, end*: two handlers at a time, of one browser or of two. *emails*: 2 names, 2 addresses, links. *tokens*: 2 ID tokens, 2 handlers, limits of 1 |
| `publishing` | What is published: is the answer that of a register written once, is the zip there, was it allowed, is it of its tag, is it listed? | *upload*: two uploads of one version, three zips, crashes, retries, quarantines. *roles*: one upload at a time, 2 major versions, 2 versions of one, accounts deleted. *client*: 2 runs, 3 commits, tags that move twice. *credentials*, *catalog* (3 versions), *paths*, *typos*, *gomod*, *moderation* (2 reports, 2 administrators) |
| `derived` | What is computed and served from the tables: is it what they say, counted once, current in the end? How does the server stop? | *requests* (every change, one at a time, failures, a restart), *releases* (2 modules, 2 publishers, Backfill, a restart), *overlaps* (one version published, quarantined and released, two handlers at a time), *downloads* (2 modules, 3 days, a window of 2), *listings*, *upstream*, *stopping*, *zips* |
| `services` | What readers and operators get. | *editing, ranges, tool* (advisories), *reads*, *keys*, *limits*, *proxy*, *pages*, *backups*, *copies*, *migrations* |
| `access_deletion`, `access_new_major`, `codes_reused`, `publishing_race`, `publishing_major`, `search_quarantine`, `pages_matches`, `reads_review` | Findings, below. | the smallest instance that shows each |

**What they show.** Each property is stated, in words and with the code it is
about, where it is defined. The composite ones are:

- `accounts`: `SecondFactorHolds` (recovery codes are used once, and codes of
  the app but for the finding `codes_reused`; attempts are limited, recovery
  codes go with two factors), `EndedIsOver` (what was begun with an
  old password or for a deleted account ends), `AddressesAreProven`,
  `NamesAreKept`, `TrustIsKept` (an ID token is exchanged once, tokens have
  their publisher, limits hold, a pinned owner stays), `AccessIsAgreedTo`.
- `publishing`: `CatalogIsTrue` (lists agree, dependents are complete),
  `TextsMeanOneThing` (paths, versions, names and `go.mod` files, each against
  its reference), `CommandLineKeepsItsWord` (releases are of their tag, exits
  are true, tokens go home), `DecisionsAreKept` (a report is decided once and
  nothing is written over it).
- `derived`: `RequestsAreIndexed`, `ListingsBecomeCurrent`, `CopyKeepsUp`,
  `StopsInOrder`, `SlotsComeBack`; each a safety property, most with the
  liveness property that belongs to it.
- `services`: `EditsAreOrderly`, `ToolsFollow`, `ReadersSeeTheTables`,
  `KeysFollowTheIssuer`, `LimitIsKept`, `CacheIsKept`, `PagesAreOneSearch`,
  `NothingStoredIsLost`, `SchemaIsWhole`.

**Bounds.** Two owners are enough for each to remove the other, two handlers
for one to act between the other's check and commit: each check made again in
a transaction looks at one organization or one module, so further ones only
add independent copies; likewise two requests for one code, link, token or
report. Two uploads race for one version; three zips are the three ways two
archives can relate (same bytes, same files, different), and three commits, two
of them with the same files, those in which two tags can. The `roles` part needs two
major versions, for one to be asked about the other, and two versions, so that
a module is not new when the second arrives. Three versions let a list prefer a
release over a later pre-release and fall back on another when one is yanked.
Three days with a window of two let a day leave the window. Names and paths of
up to five characters over two letters, with 2 and 4 for the lengths the typo
check calls short and long, have every pair of edits; `go.mod` files of four
lines a block with an entry and a comment, or one not closed. Programs that
know three and four migrations are two releases. A clock of four steps with
keys kept for two and refetched after one lets each interval end. One counted
event per window, three ticks long, lets two windows meet. Where a bound stands for a limit of the code
(`TeamLimit` for 100, `MaxCodeAttempts` for 5, `MaxTokens`, `MaxPublishers`,
`MaxEntries`, `MaxOpen`) it is small enough to be reached; those called
`Max...` otherwise (`MaxRuns`, `MaxMoves`, `MaxCrash`, `MaxRestart`,
`MaxChanges`, `MaxCount`, `MaxDay`, ...) only keep the state space finite. The
instance of `ProxyCache` reaches the limit on bytes and not the one on
entries.

Sessions, API tokens and the handlers of `Emails` are interchangeable in
`accounts`, and so are the requests of `ProxyCache` in `services`: those runs
use symmetry, and check no liveness.

**One handler at a time** (the *access* part but for its owners mode, *roles*,
*requests*) is a restriction these parts state on purpose. `PublishersHoldARole`
needs less, and its proof says what (`OrderlySpec`): between the check of an
upload's role and its transaction nobody else creates its module, and its
user's role on it, or place in its namespace, is not taken away, unless the
account goes (registry.go:186 checks, 277 writes); and who publishes a new
major version because of a role on another one is of the namespace, because
`Publish` gives nobody else a role on what they create. In *upload*, which is
of a personal namespace, it holds without any of that.
`AccessIsAgreedTo` needs less too, and its proof says what: nobody
joins or leaves an organization, and no team comes or goes, between what
`AddTeamMember` or `SetTeamModule` read and what they write (`UndisturbedSpec`;
teams.go:234 and 319 leave that gap). `RequestsAreIndexed` needs nothing of the
kind. What the gaps do to the same promises is shown by the finding runs and
listed below.

**Deadlock** is not checked: in each run some part may really stop, when the
server has stopped, every account is deleted, or a text is as long as the bound
allows. That nobody waits for ever where the code makes somebody wait is stated
as a property instead: of slots (`SlotsComeBack`), of the stop (`StopsInOrder`),
of migrations behind SQLite's lock by `MigrationInv`, whose holder can always
go on or be killed.

**Fairness.** Only `derived` has liveness properties (`DerivedFairness`). A
goroutine that has a statement to run gets to run it (Go's scheduler, and
SQLite's busy timeout): `SearchFairness`, weak fairness of `ReadStep`,
`StopStep` and `Refreshing`. Nobody is obliged to publish, and crashes are
bounded, because a server that keeps crashing indexes nothing; statements do
not fail in *releases*: `Backfill` gives up at its first error until the next
start. The tickers go on (`Flush`, `Refreshing`), with transactions and
requests that fail only finitely often; the deadline of a stop passes. That a
listing becomes current needs that its page is asked for again and again, since
nothing else refreshes it. A request that waits for a slot gets one that is
given back again and again (`SF(Acquire)`: a Go channel serves those who wait
in order). `DatabaseChanges` is fair only so that a change that has begun is
completed: its index files are written before `db.json`, which is an assumption
about vuln.go.dev.

### Findings

- `access_deletion`: `DeleteAccount` looks for organizations without another
  owner before its transaction (profile.go:181). The other owner is demoted in
  between; the organization has no owner. README: "Refused while you're an
  organization's only owner".
- `access_new_major`: a maintainer of a module in somebody else's personal
  namespace may publish its next major version; `Publish` gives a role on the
  new module to the namespace's user or to members of an organization, so
  here to nobody. README: "A module always keeps at least one owner who has
  accepted".
- `codes_reused`: two requests set up the authenticator app and both find it
  off (security.go:311). The first turns it on; a sign-in uses a later code;
  the second sets `totp_last_step` back to the step of its own code
  (security.go:325 does not ask for `totp_enabled_at IS NULL`), and the code
  signs in again. The second confirmation also replaces the recovery codes the
  first one showed. security.go:386: "never the same one twice"; README: "TOTP
  codes can't be reused".
- `publishing_race`: two members create a module where members have no access
  of their own. Both pass `canPublish`; the first gets the creator's role, the
  second publishes a version of a module they have no role on. README:
  "Members maintain only the modules their teams (or a direct role on the
  module) cover".
- `publishing_major`: `MajorVersions` leaves out modules under review, and
  `canPublish` takes what it returns for all there are, so a member without a
  role publishes the next major version of a module while it is quarantined.
- `search_quarantine`: a handler that read the module before a quarantine
  writes its entry after it. README: "A quarantined module is hidden from its
  page (410), search".
- `pages_matches`: one word in the name, the other in the summary, and both in
  the README: no tier takes the module (search.go:399), though the total counts
  it. search.go:318: "Words match as prefixes anywhere".
- `reads_review`: `ErrQuarantined` wraps `ErrNotFound`, so a module under
  review that pkg.go.dev knows is shown as a public one (discovery.go:244).
  discovery.go:243: "A module hosted here is never shown as public."

### What the runs leave out

States the models reach, or would reach, that a document of the repository
excludes or a reader would not expect. They have no run of their own: most
repeat a shape shown above, and the models describe them so that the runs'
properties say what holds in spite of them.

Access and accounts:

- `AddTeamMember` reads the membership before its transaction (teams.go:234);
  `SetTeamModule` checks a team by name and grants by row id (teams.go:319).
  Declining an invitation fires the trigger that takes back direct roles
  (017_security_review.sql:8).
- Setting up the authenticator app in two tabs enables a secret no code of
  which was confirmed (`EnabledAppWasConfirmed`, security.go:293, 303).
- Turning the app off sets the last step to 0 (security.go:362), and the
  UPDATE that uses a code does not ask whether the app is on (security.go:404):
  a request that had matched the same code before uses it once more after.
- A reset link that two requests read before either uses it sets the password
  twice (security.go:96); the hourly count of wrong codes is read before the
  code is checked (security.go:469); a recovery code is used up though the
  change it confirmed then fails (security.go:352).
- A publisher removed between exchange and minting, with a new one that gets
  its row id, has tokens the removal did not revoke (`RemovedAreRevoked`,
  server/publishing.go:102; README.md:223).

Publishing and moderation:

- The right to publish is read before the zip is stored and is not read again
  in the transaction (registry.go:186); a retry of a success is answered "not
  found" when the module was quarantined since (registry.go:336).
- Findings of the checks and their report are written after the commit and
  lost when that fails; a retry does not record them (registry.go:356,
  checks.go:99).
- A report whose reporter's account was deleted is shown as filed by the
  checks (`AutomatedReportsAreTheChecks`, admin.html:23); releasing from an
  older page undoes a later quarantine by somebody else (trust.go:205).
- The command line's credentials file: a login to one registry beside a logout
  from another writes the removed token back.

Derived and served:

- Yanking a version again, after reindexing failed, answers that all is well
  and does not reindex (hence `stale` in `IndexIsCurrent`); two concurrent
  publishes may leave the older entry.
- `Flush` returns before the daily refresh when nothing was downloaded, so
  recent counts stay too high until somebody downloads something; hence
  `RecentNeverTooLow` is one-sided and `RecentOnceRefreshed` conditional.
- `index/modules.json` gives the highest fixed version of all ranges
  (`LatestFixed`, osv.go:209), though a later range may have no fix. This
  server's pages ask `Affects` for modules it hosts
  (server/advisories.go:327); somebody else's tool that skips versions at or
  after `fixed`, as server/advisories.go:343 does with the public database,
  would miss such an advisory. The field is left out of `Indexes`.
- A read of docs that failed is cached until it is evicted (`DocsComeBack`).
- Two changes of the advisories in one second have one `db.json`: a tool may
  miss the second (upstream.go:58). `ToolsFollow` promises that it misses none
  while `quiet`, a history variable, is true: every change so far began in a
  second nothing was written in and was over before the next, with neither a
  quarantine nor news from vuln.go.dev. Part *tool* keeps it true.
- `refetchEvery` bounds refreshes of keys only while the issuer answers
  (oidc.go:36). Interrupted backups count among those that are kept, until
  they are the oldest. Moving to a bucket as deploy/README.md describes leaves
  behind the zips published between the copy and the restart.

## 4. The proofs

Eight modules hold the theorems and the lemmas they rest on: `AccessProofs`,
`AccountsProofs` (SignIn, Emails, Tokens), `PublishingProofs` (Publishing and
the command line), `TextProofs` (Versions, Typos, GoModFile), `RegistryProofs`
(Moderation, Catalog, and `Registry` as a whole), `DerivedProofs`
(Downloads, SearchIndex, ListCache, Upstream, Stopping), `ServicesProofs`
(OidcKeys, Migrations, Storage, RateLimit, ProxyCache, Advisories, Reads,
SearchPages) and `Sums`.

**Types**

| Theorem | Says | Argument |
|---|---|---|
| `AccountsTypes` | `[]AccountsTypeOK`, of `AccountsSpec` | each part's invariant below has its type as a conjunct; Access's is inductive by itself |
| `RegistryTypes` | `[]RegistryTypeOK`, of `RegistrySpec` | `PublishingTypes`; the command line's from `ClientInv` and `CredentialsInv`; of the listings, with the invariants below, that rows are numbered without gaps and never more than `MaxRows` (`RowsAreFew`); of texts, that what was read of one belongs to what it says |
| `DerivedTypes` | `[]DerivedTypeOK`, of `DerivedSpec` | an entry shows a version because what a job has read is finitely many and not empty (`JobsAreFinite`, `EntryOfVersions`); what is marked or under review has versions (`TablesOK`); a stopping server has counted no more than the requests that began (`StopTypes`); the others follow from the invariants below |
| `ServicesTypes` | `[]ServicesTypeOK`, of `ServicesSpec` | an advisory that is written has an id in a year and a second of the clock (`AdvisoryTypes`); the table of the limiter has only what is left of it (`RemainingIsLess`); a page asked for is at most one past the last (`PagesTypes`); the others follow from the invariants below |

**Access**

| Theorem | Says | Argument |
|---|---|---|
| `AccessTypes` | the tables stay well formed | one lemma per group of actions; `AccessTypeOK` is inductive |
| `OrgsKeepAnOwner` | `[]OrgsHaveAnOwner` | every transaction that takes an owner's row ends with `KeepsAnOrgOwner`; the others leave `member` alone or accept |
| `PersonalModulesKeepAnOwner` | `PersonalModulesKeepTheirOwner` | the same for `KeepsAnOwner` and `role`, where the namespace is no organization |
| `AccessStaysAgreedTo` | `AccessIsAgreedTo`, of `UndisturbedSpec` | `TeamInv`: who is in a team, or is about to be added, has accepted membership of the team's organization; what a team may do, or is about to be granted, is a module of that organization |

**Accounts, sign-in, tokens**

| Theorem | Says | Argument |
|---|---|---|
| `SecondFactorStays`, `EndedStaysOver` | `[]SecondFactorHolds`, `[]EndedIsOver` | one invariant, `SignInInv`: what was begun with an old password is in nobody's hands who may still use it (`OldPasswordEnds`), a deleted account has no rows (`GoneTables`, `GoneFactors`), a recovery code that was used is not unused any more, and a code of the app is accepted once more than `totp_last_step` was set back, but for those of later steps than the last, which are yet to be accepted (`StepsMarked`, `FactorsInv`), and `AttemptsInv`: the codes that were tried at a challenge *and those about to be tried* are no more than were counted |
| `AddressesStayProven`, `NamesStayKept` | `[]AddressesAreProven`, `NamesAreKept` | `EmailsInv`, with `LinksGoWhereTheyVerify`: a link verifies the address it was sent to |
| `TrustStays` | `TrustIsKept` | `TokensInv`: tokens are of the publisher they were minted for, and so are calls that are about to mint one, unless it was removed meanwhile; an ID token that was exchanged is recorded as used; tokens and publishers are within their limits |

**What is published**

| Theorem | Says | Argument |
|---|---|---|
| `PublishingTypes` | `[]PublishingTypeOK` | needs `AccessTypeOK`: uploads read Access's tables |
| `ZipsStoredFirst`, `ZipsAreThere` | `[]ZipsAreStoredFirst`, `[]VersionsHaveTheirZip` | below |
| `Immutable`, `NothingUnderReview` | the action properties | `Record` writes a version only where there is none and nothing is under review; `StoreZip` writes no key that is taken |
| `RolesAreHeld` | `PublishersHoldARole`, of `OrderlySpec` | `RoleInv`: an upload past its role check creates a module in a namespace of its user's, or the module is there and the user has a role on it, or the account is gone, which the transaction's foreign key notices; who creates a module of their namespace gets a role on it, or has one by the organization (`CreatorMaintains`) |
| `PublishingImplementsRegisters` | `ImplementsRegisters` | initial states map to initial states; each step is a step of `WriteOnce` or stutters |
| `CommandLineKeeps` | `CommandLineKeepsItsWord` | `ClientInv`: a run reads one commit that its tag has named, run numbers are not given twice, an upload is of its run; `CredentialsInv`: the file has only tokens that were confirmed, for URLs that may be used |
| `DecisionsStay` | `DecisionsAreKept` | `ModerationInv`: an open report is later than the last quarantine of its module, the credit for one goes to at most one administrator and only when it is dismissed, and a version has findings and one report, or neither |
| `ListingsAreTrue` | `[]CatalogIsTrue` | `FillingInv`, and only modules with a version are under review (`HiddenHaveVersions`); releases are totally ordered (`NewerOrders`), so each module has one newest, which its feed begins with and the list has once; the pages of a namespace, joined, are the list they were cut from (`PagesAreTheList`) |
| `UsedByBecomesComplete` | `[]UsedByIsComplete`, the half of `CatalogIsTrue` about dependents | `FillingInv`: the versions that are not indexed are among those the backfill has left, while it is at work |

**Paths, versions, names, `go.mod` files**

| Theorem | Says | Argument |
|---|---|---|
| `PathsComeBack` | `[]PathsAreNotConfused` | a character more adds its escaped form to the escaped text (`EscapeMore`), and what is unescaped so far is what was read of it, but for a `!` at the end (`ComesFrom`) |
| `VersionsKeepOrder` | `[]VersionsAreOrdered` | what is compared by the first difference is an order when its elements are (`LexIsOrder`), hence texts, identifiers and versions are; a number of more digits is larger and one of as many is larger at the first difference (`NumsMean`), so comparing digits compares values; the latest so far is preceded by none that was read |
| `TyposAreFlagged` | `[]TyposAreFound` | a cell is the least its neighbours allow (`IsCell`), so it is no more than the typos that lead there, and as many lead there as it says (`TyposApart`); a name one typo away differs in one place, before and after which the table goes along a diagonal (`SameGoOn`) |
| `GoModIsReadRight` | `[]GoModIsRead` | what `ReadLine` has after each line is what the lines so far say (`SoFar`): the block is the one that is open, the comments kept are those directly above, and what was read is of the lines that say it |
| `TextsMean` | `[]TextsMeanOneThing`, of `TextsSpec` | the four |

**What is derived**

| Theorem | Says | Argument |
|---|---|---|
| `SearchFollowsTheTables` | `[]RequestsAreIndexed` | `SearchInv`: who is alone on a module is (`AloneIsAlone`), and has read what its tables still say (`ReadIsTrue`); a quarantine that worked holds until the next change (`QuarantineHolds`) |
| `DownloadsCountedOnce` | `[]CountedOnce` | `CountInv`: a batch is empty unless it is being written |
| `RecentIsRecent` | `[]RecentOnceRefreshed` | `RecentInv`: the refresh that was done was not of a later day, and neither is one under way |
| `RecentIsAFloor` | `[]RecentNeverTooLow` | `FloorInv`; a batch adds to a module's recent count what it adds to the days of its window, and a day that leaves the window takes something from it |
| `ListingsNeverGoBack` | `ServedNeverGoesBack` | `ListInv`: at most one refresh, and it has nothing older than the kept value |
| `CopyAgesHonestly` | `[](CopyIsNoOlderThanItsTime /\ ReportIsNoOlder)` | `UpstreamInv`: what a refresh or a page has fetched is no older than the time it fetched before it |
| `StopsWithNothingLeft` | the three invariants of `StopsInOrder` | `StopInv`: what has ended at each stage of the stop |

**What readers, operators and tools get**

| Theorem | Says | Argument |
|---|---|---|
| `KeysTypes`, `TrustFollowsTheIssuer` | `[]KeysTypeOK`, `[]KeysFollowTheIssuer` | `KeysInv`: no time lies in the future, the kept set and a set on its way are what was published when they were asked for, and a lookup that uses the kept set is young enough |
| `SchemaStaysWhole` | `[]SchemaIsWhole` | `MigrationInv`: who looks at or applies a migration holds the lock, applies one that is not there, and comes to it after all earlier ones |
| `StorageKeepsAll` | `NothingStoredIsLost` | `StorageInv`: versions have their zip where the server looks; a copy has what it has read; a backup that is whole has only versions whose zips are in the directory while that is in use; when files are pruned the newest is whole |
| `TheLimitIsKept` | `[]LimitIsKept` | `LimitInv`, with `RateKept`: a bucket counts what was allowed since its start, at most `Limit`; what was allowed in a window before any bucket's start is at most `Limit` too, so any span of a window has at most twice that |
| `TheCacheIsKept` | `[]CacheIsKept` | `CacheInv`: `bytes` is the sum of the sizes of what is kept, and an answer on its way was the proxy's after it was asked for |
| `EditsStayOrderly` | `EditsAreOrderly` | `EditInv`: the numbers of a year's advisories are those up to how many there are (`Numbered`), so the next is free; a handler's row stays that row |
| `ToolsKeepUp` | `[]ToolsFollow` | two halves. `ToolInv`, while it is `quiet`: a handler that writes is the first to write in its second, so the newest time of the database grows; a report the tool has is a row as it is, or as it was before a later change. `FormsInv`: the ranges of a row are those of a form that was accepted; events that are sorted begin with the one that introduced (`InRangeOfTwo`), and the last event at or below a version decides |
| `ReadersAreToldTheTruth` | `[]ReadersSeeTheTables` | `ReadsInv`: how each module stands now is among what every reader at work has seen, and what a reader has in hand was true of something it has seen |
| `SlotsAreReturned` | `[](SlotsAreCounted /\ slots <= MaxOpen)` | `SlotsInv`: those who hold a slot are counted |
| `PagesStayOneSearch` | `[]PagesAreOneSearch` | `PagesInv`: what was shown is the first so many of one list, the three tiers one after the other (`AllTiers`); a page that skips over tiers is cut from that list (`SearchIsCut`), which is in order and has everything a tier has once (`AllInOneList`) |

That every version has its zip is not inductive by itself: `Record` writes a
row without looking at the store. `ZipsAreStoredFirst` adds the two facts that
make it so: an upload that has come to its transaction has its zip in the
store, whoever put it there, and the bytes behind a key are those its hash
names, so a key taken by somebody else's upload holds the right bytes.
Likewise "accepted keys are fresh" needs to know *when* the kept set was
asked for and not only what is in it: a slow answer is as old as its question.
That the registry has what `gopherdex publish` says it has is not inductive
without `UploadsAreOfRuns`: an upload the client gave up may be handled long
after, and then it is of a run that has ended. And that a challenge takes at
most `MaxCodeAttempts` codes is not inductive when only those that were tried
are counted: two requests may both be past the guarded update and before the
code.

Sums and counts (`CountedOnce`, recent counts, allowed requests, bytes kept) are
folds, which no installed prover unfolds. `Sums` proves what is needed of them:
the sum over no keys, that a key more adds its value, that sums are compared
key by key. It also proves that finitely many elements can be put in an order
and then are a sequence that has each of them once (`SortedIs`), which is all
that the models use of `ORDER BY` and `sort.Slice` (module `Sorting`), and that
pages cut from a sequence one after the other are the sequence
(`PagesAreTheList`). And it proves that a fold over a sequence goes through
one step after the other (`FoldIs`), from which the theorems about texts are
had by looking at the first step, character or line at which they would fail: a
fold of the community modules is a recursion over sets of places, and
`FoldExists` shows that there is a function which follows it. A statement about every finite set cannot be had from the library's
induction theorems, which take a predicate as parameter; the proofs of `Sums`
take the least counterexample, or one with the fewest elements, instead (`WFMin` of `NAT <`),
which needs no such parameter.

The theorems hold for any number of users, handlers, modules, versions, zips,
days, downloads, runs, commits, programs, migrations, keys, clients, readers,
administrators, reports and advisories, and for texts, lists of versions and
files of any length, over any letters, marks and lines; the bounds named
`Max...` occur in them as parameters, of which clocks and row counts are at
least 1. They assume the modules' own `ASSUME`s -- users and organizations have
different names, hashes in keys do not collide, a kept set may be refetched
before it expires, the letters of paths are not marks and no `!`, `/`, `.` or
`-`, numbers and identifiers are sequences of characters, and the fields of a
line of `go.mod` are strings and not empty, readers and the keys of the cache
are finitely many (`Cardinality` and sums mean nothing of infinite sets), the
clock of `RateLimit` is longer than a window -- which TLC evaluates in the
runs. The two theorems about owners assume besides that nobody deletes an
account (`"DeleteAccount" \notin Operations`), and need to: `access_deletion`
is the counterexample without it, and for modules deleting the only owner's
account is allowed. `AccessStaysAgreedTo` is about `UndisturbedSpec`,
`RolesAreHeld` about `OrderlySpec`, and `ToolsKeepUp` has `quiet` in what it
states: section 3 says why each is needed. `publishing_race` is a behaviour
`OrderlySpec` leaves out, and so is the creator from outside of
`access_new_major`; those of the *roles* part it has.

Only model-checked:

- the liveness properties of `derived`, since TLAPS proves nothing about
  fairness and `ENABLED`; of `ListingsBecomeCurrent`, `CopyKeepsUp`,
  `StopsInOrder` and `SlotsComeBack` the safety halves are proved.

No module declares a `RECURSIVE` operator.

## 5. What is left

In this order.

1. `Durability`: the database with `synchronous(NORMAL)`, whose last commits a
   power failure may take, beside blobs that are synced but whose directory is
   not. It composes with `Publishing`'s store and `Storage`'s backups.
2. The audit log: which changes must have an entry, and which transactions
   write it beside them.
3. The rules of `scan`, and the order of results that `ranking` makes of two
   searches, as operators against a reference.

## 6. Not modelled

Rendering, routing, forms, feeds, badges and documentation: they keep no state
of the registry or only read it (what they read, and when, is in `Reads` and
`Catalog`). Benchmarks, test helpers and deployment: they are not part of the
running registry. The rules that look into a zip (`scan`), the signatures of
the S3 client and of ID tokens, hashes and passwords: functions whose results
the models take as given. The text of notices, and the mail that is sent and
forgotten. A power failure, which takes commits that were answered: the models
have the process die, and the machine be lost with all it has. User ids that
SQLite gives out again after an account is deleted (`SignIn` has one account
and one life of it). Each component's note in `PROJECT.json` says what of it
is left out.
