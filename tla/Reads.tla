------------------------------- MODULE Reads -------------------------------
(***************************************************************************)
(* What readers get while a module is published, yanked, reviewed and      *)
(* released: the module proxy, the module API, project pages and the two   *)
(* searches over hosted and public modules.  A request is a sequence of    *)
(* statements; tables and caches change in between, and its client may go  *)
(* away.  Zips come from a blob store that lets MaxOpen of them be open.   *)
(*                                                                         *)
(* A module has one version here.  Left out: what the directory store and  *)
(* the public proxy answer for a module that is theirs, and the go.mod and *)
(* dates the module API adds, whose failure is a warning and no more.      *)
(***************************************************************************)
EXTENDS Naturals, FiniteSets

CONSTANTS ModPath,    \* module paths somebody asks for
          OurPath,    \* those under this registry's module host
          StorePath,  \* those in the directory of modules
          Reader,     \* requests at work at the same time
          MaxOpen,    \* S3: how many zips may be open
          NotCached

ASSUME ReadsConstants ==
  /\ OurPath \subseteq ModPath
  /\ StorePath \subseteq ModPath
  /\ IsFiniteSet(Reader)
  /\ MaxOpen \in Nat \ {0}

VARIABLES hosted,    \* tables modules and versions
          inReview,  \* modules.quarantined_at
          docs,      \* discovery's cache of docs
          content,   \* the project pages' cache of what is in a zip
          found,     \* the cache of pkg.go.dev's results
          slots,     \* download slots taken
          reader

tables == <<hosted, inReview>>
caches == <<docs, content, found>>
readsVars == <<tables, caches, slots, reader>>

ProxyKind == {"list", "latest", "mod", "zip", "head"}
SearchKind == {"search", "api search", "public search"}
ReadKind == ProxyKind \cup {"module", "page"} \cup SearchKind

\* A module under review is hidden, whatever versions it has.
StandingOf(h, review) ==
  [m \in ModPath |-> IF m \notin OurPath \/ h[m] = "missing" THEN "missing"
                  ELSE IF m \in review THEN "hidden" ELSE h[m]]
Standing == StandingOf(hosted, inReview)

NoReader == [pc |-> "idle"]
Holding(r) == reader[r].pc \in {"download", "reading"}

\* Where a request goes on, and with what answer it ends.
Goes(r, pc) == reader' = [reader EXCEPT ![r].pc = pc]
Ends(r, answer) == reader' = [reader EXCEPT ![r].pc = "done", ![r].answer = answer]

From(origin) == [from |-> origin, docs |-> NotCached]
NotThere == From("nowhere")
Failed == From("error")

\* The client of r asks for m: a page when it is one of ours.  "seen" is a
\* history variable: how every module has stood since.
AskForModule(r, kind, m) ==
  /\ reader[r] = NoReader
  /\ kind = "page" => m \in OurPath
  /\ reader' = [reader EXCEPT ![r] =
       [pc |-> CASE kind = "page" -> "page" [] kind = "public search" -> "public"
                [] kind \in SearchKind -> "hosted" [] OTHER -> "source",
        kind |-> kind, mod |-> m, answer |-> NotThere,
        seen |-> [n \in ModPath |-> {Standing[n]}], down |-> FALSE,
        hits |-> {}, public |-> {}, left |-> {}]]
  /\ UNCHANGED <<tables, caches, slots>>

At(r, pc) == reader[r].pc = pc
Mod(r) == reader[r].mod
Is(r, kinds) == reader[r].kind \in kinds

-----------------------------------------------------------------------------
(* One module: Multi, and the statements of Registry.                      *)

Absent(m) == Standing[m] = "missing"

AfterSource(r) == IF Is(r, {"list", "latest", "module", "module latest"}) THEN "versions" ELSE "row"

\* Multi.source: the first source that has the module; the module API goes
\* on to the public proxy, but not with a path of this registry.
Source(r) ==
  /\ At(r, "source")
  /\ LET m == Mod(r) IN
       \/ Absent(m) /\ m \in StorePath /\ Ends(r, From("store"))
       \/ /\ Absent(m) /\ m \notin StorePath
          /\ \/ Is(r, {"module"}) /\ m \notin OurPath /\ (Ends(r, From("public")) \/ Ends(r, Failed))
             \/ ~(Is(r, {"module"}) /\ m \notin OurPath) /\ Ends(r, NotThere)
       \/ ~Absent(m) /\ Standing[m] = "hidden" /\ Ends(r, NotThere)
       \/ ~Absent(m) /\ Standing[m] # "hidden" /\ Goes(r, AfterSource(r))
  /\ UNCHANGED <<tables, caches, slots>>

\* Registry.Versions.  Without an installable version @latest is not found;
\* the module API asks for it when the list is empty, from the start.
ReadVersionList(r) ==
  /\ At(r, "versions")
  /\ LET s == Standing[Mod(r)] IN
       \/ s = "hidden" /\ Ends(r, NotThere)
       \/ s # "hidden" /\ Is(r, {"list"}) /\ Ends(r, From("registry"))
       \/ s = "installable" /\ Is(r, {"latest", "module latest"}) /\ Goes(r, "row")
       \/ s = "installable" /\ Is(r, {"module"}) /\ Goes(r, "docs")
       \/ s = "yanked" /\ Is(r, {"latest", "module latest"}) /\ Ends(r, NotThere)
       \/ s = "yanked" /\ Is(r, {"module"})
            /\ reader' = [reader EXCEPT ![r].pc = "source", ![r].kind = "module latest"]
  /\ UNCHANGED <<tables, caches, slots>>

\* The API shows its module, with these docs; what it just read it keeps.
ShowsModule(r, text) ==
  /\ reader' = [reader EXCEPT ![r].pc = "done", ![r].answer = [from |-> "registry", docs |-> text]]
  /\ docs' = [docs EXCEPT ![Mod(r)] = text]

\* A request whose zip cannot be had: the module API is answered without
\* docs, and that there are none is what it keeps.
WithoutZip(r, answer) ==
  \/ Is(r, {"module", "module latest"}) /\ ShowsModule(r, "failed")
  \/ ~Is(r, {"module", "module latest"}) /\ Ends(r, answer) /\ docs' = docs

\* Registry.publishedVersion, and the go.mod in its row.
ReadVersionRow(r) ==
  /\ At(r, "row")
  /\ \/ Standing[Mod(r)] = "hidden" /\ ~Is(r, {"module latest"}) /\ WithoutZip(r, NotThere)
     \/ Standing[Mod(r)] = "hidden" /\ Is(r, {"module latest"}) /\ Ends(r, NotThere) /\ docs' = docs
     \/ /\ Standing[Mod(r)] # "hidden"
        /\ docs' = docs
        /\ \/ Is(r, {"latest", "mod"}) /\ Ends(r, From("registry"))
           \/ Is(r, {"module latest"}) /\ reader' = [reader EXCEPT ![r].pc = "docs", ![r].kind = "module"]
           \/ Is(r, {"zip", "head", "module", "page"}) /\ Goes(r, "acquire")
  /\ UNCHANGED <<tables, content, found, slots>>

-----------------------------------------------------------------------------
(* Docs and pages, which are kept once they were made from the zip.        *)

\* Service.localDocs; VersionFS chooses the source once more.
FindDocs(r) ==
  /\ At(r, "docs")
  /\ \/ docs[Mod(r)] # NotCached /\ ShowsModule(r, docs[Mod(r)])
     \/ docs[Mod(r)] = NotCached /\ Goes(r, "docs source") /\ docs' = docs
  /\ UNCHANGED <<tables, content, found, slots>>

DocsSource(r) ==
  /\ At(r, "docs source")
  /\ \/ Standing[Mod(r)] = "hidden" /\ ShowsModule(r, "failed")
     \/ Standing[Mod(r)] # "hidden" /\ Goes(r, "row") /\ docs' = docs
  /\ UNCHANGED <<tables, content, found, slots>>

\* Mutant: a page that was made before is shown again.
PageFromCache(r) ==
  /\ At(r, "page")
  /\ \/ content[Mod(r)] # NotCached /\ Ends(r, From("registry"))
     \/ content[Mod(r)] = NotCached
          /\ IF Standing[Mod(r)] \in {"missing", "hidden"} THEN Ends(r, NotThere) ELSE Goes(r, "row")
  /\ UNCHANGED <<tables, caches, slots>>

\* Service.Page: the module first, then what is in its zip.
ReadModule(r) ==
  /\ At(r, "page")
  /\ \/ Standing[Mod(r)] \in {"missing", "hidden"} /\ Ends(r, NotThere)
     \/ Standing[Mod(r)] \notin {"missing", "hidden"} /\ Goes(r, "content")
  /\ UNCHANGED <<tables, caches, slots>>

\* Service.content reads the module again when it has to open the zip.
FindContent(r) ==
  /\ At(r, "content")
  /\ \/ content[Mod(r)] # NotCached /\ Ends(r, From("registry"))
     \/ content[Mod(r)] = NotCached /\ Standing[Mod(r)] = "hidden" /\ Ends(r, NotThere)
     \/ content[Mod(r)] = NotCached /\ Standing[Mod(r)] # "hidden" /\ Goes(r, "row")
  /\ UNCHANGED <<tables, caches, slots>>

-----------------------------------------------------------------------------
(* Zips.                                                                   *)

Acquire(r) ==
  /\ At(r, "acquire")
  /\ slots < MaxOpen
  /\ slots' = slots + 1
  /\ Goes(r, "download")
  /\ UNCHANGED <<tables, caches>>

Download(r) ==
  /\ At(r, "download")
  /\ Goes(r, "reading")
  /\ UNCHANGED <<tables, caches, slots>>

DownloadFails(r) ==
  /\ At(r, "download")
  /\ slots' = slots - 1
  /\ \/ Is(r, {"module"})
          /\ reader' = [reader EXCEPT ![r].pc = "done", ![r].down = TRUE, ![r].answer = [from |-> "registry", docs |-> "failed"]]
          /\ docs' = [docs EXCEPT ![Mod(r)] = "failed"]
     \/ ~Is(r, {"module"}) /\ Ends(r, Failed) /\ docs' = docs
  /\ UNCHANGED <<tables, content, found>>

\* Mutant: nobody closes the zip of a HEAD request, which is not written.
CloseWritten(r) == slots' = IF Is(r, {"head"}) THEN slots ELSE slots - 1
Close(r) == slots' = slots - 1

\* The zip is sent, or docs or a page are made from it; then it is closed.
UseZip(r) ==
  /\ At(r, "reading")
  /\ Close(r)
  /\ \/ Is(r, {"module"}) /\ ShowsModule(r, "made") /\ content' = content
     \/ Is(r, {"page"}) /\ Ends(r, From("registry")) /\ content' = [content EXCEPT ![Mod(r)] = "made"] /\ docs' = docs
     \/ Is(r, {"zip", "head"}) /\ Ends(r, From("registry")) /\ UNCHANGED <<docs, content>>
  /\ UNCHANGED <<tables, found>>

\* The client goes away, which cancels the request; an open zip is closed.
ClientLeaves(r) ==
  /\ reader[r].pc \notin {"idle", "done"}
  /\ slots' = IF Holding(r) THEN slots - 1 ELSE slots
  /\ reader' = [reader EXCEPT ![r] = NoReader]
  /\ UNCHANGED <<tables, caches>>

Answered(r) ==
  /\ At(r, "done")
  /\ reader' = [reader EXCEPT ![r] = NoReader]
  /\ UNCHANGED <<tables, caches, slots>>

-----------------------------------------------------------------------------
(* Searches, for text that every module matches.                           *)

\* pkg.go.dev lists what its proxy was asked for once: any path that was
\* ever published.
OnPkgGoDev == {m \in ModPath : m \notin OurPath \/ hosted[m] # "missing"}

\* Registry.Search; that the index is current is module SearchIndex.
SearchHosted(r) ==
  /\ At(r, "hosted")
  /\ reader' = [reader EXCEPT ![r].pc = "public", ![r].hits = {m \in ModPath : Standing[m] = "installable"}]
  /\ UNCHANGED <<tables, caches, slots>>

Merge(hits, public) == public \ hits

\* unifiedSearch: the results of pkg.go.dev are kept for a while; without
\* them only hosted modules are shown.
SearchPublic(r) ==
  /\ At(r, "public") /\ Is(r, {"search"})
  /\ \E public \in IF found = NotCached THEN SUBSET OnPkgGoDev ELSE {found} :
       /\ reader' = [reader EXCEPT ![r].pc = "done", ![r].answer = From("registry"),
                                   ![r].public = Merge(reader[r].hits, public)]
       /\ found' = public
  /\ UNCHANGED <<tables, docs, content, slots>>

PublicSearchFails(r) ==
  /\ At(r, "public") /\ Is(r, SearchKind)
  /\ Is(r, {"search"}) => found = NotCached
  /\ Ends(r, From("registry"))
  /\ UNCHANGED <<tables, caches, slots>>

\* Service.Search, which may be asked for public modules only, asks the
\* index each time, then looks up, one by one, what it found.
AskIndex(r) ==
  /\ At(r, "public") /\ Is(r, {"api search", "public search"})
  /\ \E public \in SUBSET OnPkgGoDev :
       reader' = [reader EXCEPT ![r].pc = "look up", ![r].left = public \ reader[r].hits]
  /\ UNCHANGED <<tables, caches, slots>>

\* Mutant: the module is not looked up here.
ShowFound(r, m) ==
  reader' = [reader EXCEPT ![r].left = @ \ {m}, ![r].public = @ \cup {m}]

\* Multi.Latest decides: what it finds, or fails to say, is not shown.
ShowUnlessHosted(r, m) ==
  reader' = [reader EXCEPT ![r].left = @ \ {m},
                           ![r].public = IF Standing[m] = "installable" \/ (Standing[m] = "missing" /\ m \in StorePath)
                                         THEN @ ELSE @ \cup {m}]

LookUp(r) ==
  /\ At(r, "look up")
  /\ \/ \E m \in reader[r].left : ShowUnlessHosted(r, m)
     \/ reader[r].left = {} /\ Ends(r, From("registry"))
  /\ UNCHANGED <<tables, caches, slots>>

ResultsExpire ==
  /\ found # NotCached
  /\ found' = NotCached
  /\ UNCHANGED <<tables, docs, content, slots, reader>>

-----------------------------------------------------------------------------
(* What happens to modules meanwhile, and who sees it.                     *)

Becomes(h, review) ==
  /\ hosted' = h
  /\ inReview' = review
  /\ reader' = [r \in Reader |->
       IF reader[r].pc \in {"idle", "done"} THEN reader[r]
       ELSE [reader[r] EXCEPT !.seen = [m \in ModPath |-> @[m] \cup {StandingOf(h, review)[m]}]]]
  /\ UNCHANGED <<caches, slots>>

PublishModule(m) == hosted[m] = "missing" /\ Becomes([hosted EXCEPT ![m] = "installable"], inReview)
YankVersion(m) == hosted[m] = "installable" /\ Becomes([hosted EXCEPT ![m] = "yanked"], inReview)
UnyankVersion(m) == hosted[m] = "yanked" /\ Becomes([hosted EXCEPT ![m] = "installable"], inReview)
QuarantineModule(m) == hosted[m] # "missing" /\ m \notin inReview /\ Becomes(hosted, inReview \cup {m})
ReleaseModule(m) == m \in inReview /\ Becomes(hosted, inReview \ {m})

\* The caches are bounded: what was not asked for lately is dropped.
Evict(m) ==
  /\ docs[m] # NotCached \/ content[m] # NotCached
  /\ docs' = [docs EXCEPT ![m] = NotCached]
  /\ content' = [content EXCEPT ![m] = NotCached]
  /\ UNCHANGED <<tables, found, slots, reader>>

ReadsInit ==
  /\ hosted = [m \in OurPath |-> "missing"]
  /\ inReview = {}
  /\ docs = [m \in ModPath |-> NotCached]
  /\ content = [m \in ModPath |-> NotCached]
  /\ found = NotCached
  /\ slots = 0
  /\ reader = [r \in Reader |-> NoReader]

ModuleStep(r) ==
  \/ Source(r) \/ ReadVersionList(r) \/ ReadVersionRow(r) \/ FindDocs(r) \/ DocsSource(r)
  \/ ReadModule(r) \/ FindContent(r)
  \/ Acquire(r) \/ Download(r) \/ DownloadFails(r) \/ UseZip(r)
SearchStep(r) ==
  \/ SearchHosted(r) \/ SearchPublic(r) \/ PublicSearchFails(r) \/ AskIndex(r) \/ LookUp(r)
ReadStep(r) == ModuleStep(r) \/ SearchStep(r)

Moderation == \E m \in OurPath : PublishModule(m) \/ YankVersion(m) \/ UnyankVersion(m) \/ QuarantineModule(m) \/ ReleaseModule(m)

ReadsNext ==
  \/ \E r \in Reader :
       \/ \E kind \in ReadKind, m \in ModPath : AskForModule(r, kind, m)
       \/ ReadStep(r) \/ ClientLeaves(r) \/ Answered(r)
  \/ Moderation
  \/ \E m \in ModPath : Evict(m)
  \/ ResultsExpire

\* Every statement and download ends, and the channel that counts the
\* downloads serves those who wait in turn.
ReadsFairness == \A r \in Reader : WF_readsVars(ReadStep(r)) /\ SF_readsVars(Acquire(r))
ReadsSpec == ReadsInit /\ [][ReadsNext]_readsVars /\ ReadsFairness

-----------------------------------------------------------------------------
(* Properties.                                                             *)

Sight == {"missing", "hidden", "installable", "yanked"}

ReadsTypeOK ==
  /\ hosted \in [OurPath -> Sight \ {"hidden"}]
  /\ inReview \subseteq OurPath
  /\ docs \in [ModPath -> {NotCached, "made", "failed"}]
  /\ content \in [ModPath -> {NotCached, "made"}]
  /\ found \in {NotCached} \cup SUBSET ModPath
  /\ slots \in 0..MaxOpen

Seen(r) == reader[r].seen[Mod(r)]
Done(r, kinds) == At(r, "done") /\ Is(r, kinds)

\* Every answer of the proxy, of the module API and of project pages was
\* true of the module at some moment of the request, though it is put
\* together from several statements, several sources and caches: what is
\* served was on show, with an installable version where one is resolved;
\* another source answers only for what this registry has not.
AnswersWereTrue ==
  \A r \in Reader : Done(r, ReadKind \ SearchKind) =>
    LET from == reader[r].answer.from IN
      /\ from = "registry" => Seen(r) \cap {"installable", "yanked"} # {}
      /\ from = "registry" /\ Is(r, {"latest", "module"}) => "installable" \in Seen(r)
      /\ from \in {"store", "public"} => "missing" \in Seen(r)
      /\ from = "public" => Mod(r) \notin OurPath
      /\ from = "nowhere" => Seen(r) # {"installable"}
      /\ from = "nowhere" /\ ~Is(r, {"latest", "module", "module latest"}) => Seen(r) \cap {"missing", "hidden"} # {}

\* A module that is hosted here, and was all the while, is never shown as a
\* public one.
HostedIsNotPublic ==
  \A r \in Reader : Done(r, SearchKind) =>
    \A m \in reader[r].public : reader[r].seen[m] # {"installable"}

\* What readers are shown is what the tables said, of pages and of searches.
ReadersSeeTheTables == AnswersWereTrue /\ HostedIsNotPublic

\* Whoever asks gets an answer, or leaves.
ReadsEnd == \A r \in Reader : reader[r].pc \notin {"idle", "done"} ~> reader[r].pc \in {"idle", "done"}

\* The download slots that are taken are those of requests that read a zip:
\* none is lost, and so nobody waits for one for ever.
SlotsAreCounted == slots = Cardinality({r \in Reader : Holding(r)})
SlotsComeBack == [](SlotsAreCounted /\ slots <= MaxOpen) /\ ReadsEnd

\* What is documented and does not hold: search does not show a module under
\* review (README.md: "hidden from its page (410), search, listings, ...").
ReviewHidesFromSearch ==
  \A r \in Reader : Done(r, SearchKind) =>
    \A m \in reader[r].hits \cup reader[r].public : reader[r].seen[m] # {"hidden"}

\* What is documented and does not hold: releasing a module restores
\* everything.  Docs are missing only from an answer to a request that met
\* the review, or a download that failed, itself.
DocsComeBack ==
  \A r \in Reader : Done(r, {"module"}) /\ reader[r].answer.docs = "failed" =>
    "hidden" \in Seen(r) \/ reader[r].down
=============================================================================
