--------------------------- MODULE ClientPublish ---------------------------
(***************************************************************************)
(* "gopherdex publish": a release is built from a git tag and sent to the  *)
(* registry.  Every git command reads the repository anew, and somebody    *)
(* may tag, move tags and commit while publish is running; requests and    *)
(* answers are lost, and the registry may still work on an upload that the *)
(* client has given up.                                                    *)
(***************************************************************************)
EXTENDS Naturals, FiniteSets

CONSTANTS GitCommit,    \* commits of the author's repository
          Tagged,    \* versions that may be tagged
          ModPathAt, \* the module that go.mod declares at each commit
          FilesAt,   \* the hash of the module's files at each commit
          Runner,    \* places where publish is run: a shell, a workflow
          TokensOf,  \* where each of them may get its API token from
          MaxRuns,   \* bound: how often publish is run
          MaxMoves,  \* bound: changes of the repository
          NoCommit

ASSUME ClientConstants ==
  /\ NoCommit \notin GitCommit
  /\ DOMAIN ModPathAt = GitCommit /\ DOMAIN FilesAt = GitCommit
  /\ TokensOf \in [Runner -> SUBSET {"own", "workflow", "none"}]
  /\ MaxRuns \in Nat /\ MaxMoves \in Nat

VARIABLES tag,     \* refs/tags: the commit each version's tag names, if there is one
          head,    \* the commit that is checked out
          named,   \* history: what each tag has named
          release, \* the registry's versions: the commits they were made from, and say
          job,     \* what each run of publish knows
          uploads, \* on their way, or being worked on by the registry
          runs, moves

repositoryVars == <<tag, head, named, moves>>
clientVars == <<repositoryVars, release, job, uploads, runs>>

PathsDeclared == {ModPathAt[c] : c \in GitCommit}
NoRelease == [files |-> NoCommit, says |-> NoCommit]
Released(m, v) == release[<<m, v>>] # NoRelease

NotRun == [pc |-> "none", run |-> 0, version |-> "", token |-> "none", dry |-> FALSE,
           commit |-> NoCommit, zip |-> NoCommit, stored |-> NoCommit]
Finished == {"none", "ok", "checked", "conflict", "error"}
RunAt(p, pc) == job[p].pc = pc
RunGoes(p, pc) == job' = [job EXCEPT ![p].pc = pc]
RunOnly == UNCHANGED <<repositoryVars, release, uploads, runs>>

-----------------------------------------------------------------------------
(* The author's repository.                                                *)

MoveTag(v, c) ==
  /\ moves < MaxMoves /\ tag[v] # c
  /\ moves' = moves + 1
  /\ tag' = [tag EXCEPT ![v] = c]
  /\ named' = named \cup {<<v, c>>}
  /\ UNCHANGED <<head, release, job, uploads, runs>>

CheckOut(c) ==
  /\ moves < MaxMoves /\ head # c
  /\ moves' = moves + 1
  /\ head' = c
  /\ UNCHANGED <<tag, named, release, job, uploads, runs>>

-----------------------------------------------------------------------------
(* One run of publish.                                                     *)

\* The release tags of the commit that is checked out.
TagsAtHead == {v \in Tagged : tag[v] = head}

\* The version to publish is named, or it is that of the only release tag of
\* the commit that is checked out (versionAtHEAD).  The token is one that is
\* saved or in the environment, or comes from a workflow's identity.
StartPublish(p, v, source, dry, byName) ==
  /\ runs < MaxRuns /\ job[p].pc \in Finished
  /\ byName \/ TagsAtHead = {v}
  /\ runs' = runs + 1
  /\ job' = [job EXCEPT ![p] = [NotRun EXCEPT !.pc = "resolve", !.run = runs', !.version = v,
                                                    !.token = source, !.dry = dry]]
  /\ UNCHANGED <<repositoryVars, release, uploads>>

\* rev-parse: the commit that the tag names, from here on.
ResolveTag(p) ==
  /\ RunAt(p, "resolve")
  /\ LET c == tag[job[p].version] IN
       job' = [job EXCEPT ![p].pc = IF c = NoCommit THEN "error" ELSE "token", ![p].commit = c]
  /\ RunOnly

\* go.mod is read from the commit, and so the module is the one it declares.
ModuleOf(j) == ModPathAt[j.commit]

\* Without a token only a dry run goes on; a dry run asks for no ID token.
ChooseToken(p) ==
  /\ RunAt(p, "token")
  /\ RunGoes(p, CASE job[p].token = "own" -> "whoami"
               [] job[p].dry -> "build"
               [] job[p].token = "workflow" -> "mint"
               [] OTHER -> "error")
  /\ RunOnly

\* The registry knows the token and its user's address is verified; or it
\* does not, or does not answer.
AskWhoami(p) ==
  /\ RunAt(p, "whoami")
  /\ \E next \in {"build", "error"} : RunGoes(p, next)
  /\ RunOnly

\* The audience, the ID token and the registry's token in exchange for it:
\* each request may fail.  The token is for the module of go.mod.
MintToken(p) ==
  /\ RunAt(p, "mint")
  /\ \E next \in {"build", "error"} : RunGoes(p, next)
  /\ RunOnly

\* Mutant: the zip is made from what the tag names now.
BuildFromTag(p) ==
  /\ RunAt(p, "build")
  /\ job' = [job EXCEPT ![p].pc = IF job[p].dry THEN "checked" ELSE "upload", ![p].zip = tag[job[p].version]]
  /\ RunOnly

\* The zip is made from the commit, and a dry run ends.
BuildZip(p) ==
  /\ RunAt(p, "build")
  /\ job' = [job EXCEPT ![p].pc = IF job[p].dry THEN "checked" ELSE "upload", ![p].zip = job[p].commit]
  /\ RunOnly

UploadOf(j) == [run |-> j.run, path |-> ModuleOf(j), version |-> j.version,
                zip |-> j.zip, commit |-> j.commit]

SendUpload(p) ==
  /\ RunAt(p, "upload")
  /\ uploads' = uploads \cup {UploadOf(job[p])}
  /\ RunGoes(p, "sent")
  /\ UNCHANGED <<repositoryVars, release, runs>>

\* The connection breaks or the time is over, before the registry has the
\* whole upload or after.
GiveUpUpload(p) ==
  /\ RunAt(p, "sent")
  /\ RunGoes(p, "error")
  /\ uploads' \in {uploads, {u \in uploads : u.run # job[p].run}}
  /\ UNCHANGED <<repositoryVars, release, runs>>

\* The answer says which files the registry has.
Conclude(p) ==
  /\ RunAt(p, "answered")
  /\ RunGoes(p, IF FilesAt[job[p].stored] = FilesAt[job[p].zip] THEN "ok" ELSE "error")
  /\ RunOnly

-----------------------------------------------------------------------------
(* The registry: what Publishing shows of an upload, in one step.          *)

\* Whoever sent the upload learns the outcome, unless it has given up.
AnswerRuns(u, pc, stored) ==
  job' = [p \in Runner |-> IF RunAt(p, "sent") /\ job[p].run = u.run
                            THEN [job[p] EXCEPT !.pc = pc, !.stored = stored] ELSE job[p]]

Handled(u) == uploads' = uploads \ {u} /\ UNCHANGED <<repositoryVars, runs>>

\* No right to publish, a zip that is not the module's, a failure.
RefuseUpload(u) ==
  /\ Handled(u)
  /\ AnswerRuns(u, "error", NoCommit)
  /\ UNCHANGED release

\* Mutant: the version is replaced by what comes later.
ReplaceRelease(u) ==
  /\ Handled(u)
  /\ ModPathAt[u.zip] = u.path
  /\ release' = [release EXCEPT ![<<u.path, u.version>>] = [files |-> u.zip, says |-> u.commit]]
  /\ AnswerRuns(u, "answered", u.zip)

HandleUpload(u) ==
  /\ Handled(u)
  /\ ModPathAt[u.zip] = u.path
  /\ IF Released(u.path, u.version)
     THEN LET stored == release[<<u.path, u.version>>].files IN
          /\ AnswerRuns(u, IF FilesAt[stored] = FilesAt[u.zip] THEN "answered" ELSE "conflict", stored)
          /\ UNCHANGED release
     ELSE /\ release' = [release EXCEPT ![<<u.path, u.version>>] = [files |-> u.zip, says |-> u.commit]]
          /\ AnswerRuns(u, "answered", u.zip)

-----------------------------------------------------------------------------
ClientInit ==
  /\ tag = [v \in Tagged |-> NoCommit]
  /\ head \in GitCommit
  /\ named = {}
  /\ release = [k \in PathsDeclared \X Tagged |-> NoRelease]
  /\ job = [p \in Runner |-> NotRun]
  /\ uploads = {} /\ runs = 0 /\ moves = 0

RunStep(p) ==
  \/ \E v \in Tagged, source \in TokensOf[p], dry, byName \in BOOLEAN :
       StartPublish(p, v, source, dry, byName)
  \/ ResolveTag(p) \/ ChooseToken(p) \/ AskWhoami(p) \/ MintToken(p) \/ BuildZip(p)
  \/ SendUpload(p) \/ GiveUpUpload(p) \/ Conclude(p)

ClientNext ==
  \/ \E v \in Tagged, c \in GitCommit : MoveTag(v, c)
  \/ \E c \in GitCommit : CheckOut(c)
  \/ \E p \in Runner : RunStep(p)
  \/ \E u \in uploads : HandleUpload(u) \/ RefuseUpload(u)

ClientSpec == ClientInit /\ [][ClientNext]_clientVars

-----------------------------------------------------------------------------
ClientTypeOK ==
  /\ tag \in [Tagged -> GitCommit \cup {NoCommit}]
  /\ release \in [PathsDeclared \X Tagged -> [files : GitCommit \cup {NoCommit}, says : GitCommit \cup {NoCommit}]]
  /\ \A p \in Runner : job[p].run \in 0..runs /\ {job[p].commit, job[p].zip} \subseteq GitCommit \cup {NoCommit}
  /\ \A u \in uploads : u.run \in 1..runs

\* What the registry has was made from one commit, the one it says, which
\* the version's tag has named and whose go.mod declares the module --
\* however tags move while releases are made of them.
ReleasesAreTagged ==
  \A k \in DOMAIN release : release[k] # NoRelease =>
    LET r == release[k] IN
    /\ <<k[2], r.says>> \in named
    /\ FilesAt[r.files] = FilesAt[r.says]
    /\ ModPathAt[r.says] = k[1]

\* A run that ends well leaves the files of its tag in the registry, whether
\* this upload brought them or an earlier one whose answer was lost; and one
\* that ends with a conflict has other files than the registry.
ExitsAreTrue ==
  \A p \in Runner :
    LET j == job[p] IN
    LET same == FilesAt[release[<<ModuleOf(j), j.version>>].files] = FilesAt[j.commit] IN
    RunAt(p, "ok") \/ RunAt(p, "conflict") => Released(ModuleOf(j), j.version) /\ (same <=> RunAt(p, "ok"))

\* The command line keeps its word about releases.
PublishKeepsItsWord == ReleasesAreTagged /\ ExitsAreTrue
=============================================================================
