---------------------------- MODULE Credentials ----------------------------
(***************************************************************************)
(* The credentials file of the command line: the API token of each         *)
(* registry, and the default registry.  Every command reads the whole file *)
(* and those that change it write a whole new one in its place, without a  *)
(* lock; a command may be interrupted, and others run at the same time.    *)
(***************************************************************************)
EXTENDS FiniteSets

CONSTANTS Host, Loopback, \* registries' hosts, and those of this machine
          Tok,            \* API tokens
          KnownAt,          \* the tokens that the registry at each URL knows
          Written,        \* what users write for registries
          Cmd,            \* commands that run at the same time
          NoUrl, NoTok

Url == [scheme : {"https", "http"}, host : Host]

\* A URL with a slash at its end or without.
Spelling == [scheme : {"https", "http"}, host : Host, slash : BOOLEAN]

ASSUME CredentialsConstants ==
  /\ Loopback \subseteq Host
  /\ NoUrl \notin Url /\ NoTok \notin Tok
  /\ KnownAt \in [Url -> SUBSET Tok]
  /\ Written \subseteq Spelling

VARIABLES file,   \* credentials.json
          cmd,    \* what each command is doing, and the file it is to write
          request \* the request of the last step: which token went where, and whether it was saved

credentialVars == <<file, cmd, request>>

NoFile == [default |-> NoUrl, tokens |-> [url \in Url |-> NoTok]]
NoCmd == [pc |-> "none"]
CommandEnds(p) == cmd' = [cmd EXCEPT ![p] = NoCmd]
CommandEnded(p) == cmd[p].pc = "none"
NoRequest == request' = {}

\* Mutant: http is good enough for every host.
AnyScheme(raw) == TRUE
Allowed(raw) == raw.scheme = "https" \/ raw.host \in Loopback
Normalize(raw) == [scheme |-> raw.scheme, host |-> raw.host]

\* --registry, $GOPHERDEX_REGISTRY or the saved default.
Resolved(raws) == IF raws = {} THEN {file.default} \ {NoUrl} ELSE {Normalize(raw) : raw \in {r \in raws : Allowed(r)}}

-----------------------------------------------------------------------------
\* login reads the file, then asks who the token belongs to.
BeginLogin(p, raws, t) ==
  /\ CommandEnded(p)
  /\ \E url \in Resolved(raws) :
       cmd' = [cmd EXCEPT ![p] = [pc |-> "ask", url |-> url, token |-> t, old |-> file]]
  /\ NoRequest /\ UNCHANGED file

WithToken(f, url, t) == [default |-> url, tokens |-> [f.tokens EXCEPT ![url] = t]]

AskWho(p) ==
  LET c == cmd[p] IN
  /\ c.pc = "ask"
  /\ request' = {[url |-> c.url, token |-> c.token, saved |-> FALSE]}
  /\ IF c.token \in KnownAt[c.url]
     THEN cmd' = [cmd EXCEPT ![p] = [pc |-> "save", new |-> WithToken(c.old, c.url, c.token)]]
     ELSE CommandEnds(p)
  /\ UNCHANGED file

\* Mutant: the default stays.
KeepDefault(f, url) == [f EXCEPT !.tokens[url] = NoTok]
WithoutToken(f, url) ==
  [default |-> IF f.default = url THEN NoUrl ELSE f.default,
   tokens |-> [f.tokens EXCEPT ![url] = NoTok]]

BeginLogout(p, raws) ==
  /\ CommandEnded(p)
  /\ \E url \in Resolved(raws) :
       /\ file.tokens[url] # NoTok
       /\ cmd' = [cmd EXCEPT ![p] = [pc |-> "save", new |-> WithoutToken(file, url)]]
  /\ NoRequest /\ UNCHANGED file

\* The new file is written beside the old one and takes its name.
SaveConfig(p) ==
  /\ cmd[p].pc = "save"
  /\ file' = cmd[p].new
  /\ CommandEnds(p)
  /\ NoRequest

\* A request or a write fails, or the command is interrupted.
CommandFails(p) ==
  /\ ~CommandEnded(p)
  /\ CommandEnds(p)
  /\ NoRequest /\ UNCHANGED file

\* Mutant: the token of the default registry is used for any.
TokenOfDefault(url) == IF file.default = NoUrl THEN NoTok ELSE file.tokens[file.default]
TokenFor(url) == file.tokens[url]

\* whoami, publish, yank and unyank with a saved token.
UseToken(p, raws) ==
  /\ CommandEnded(p)
  /\ \E url \in Resolved(raws) :
       /\ TokenFor(url) # NoTok
       /\ request' = {[url |-> url, token |-> TokenFor(url), saved |-> TRUE]}
  /\ UNCHANGED <<file, cmd>>

CredentialsInit == file = NoFile /\ cmd = [p \in Cmd |-> NoCmd] /\ request = {}

CredentialsNext ==
  \E p \in Cmd :
    \/ \E raws \in {{}} \cup {{raw} : raw \in Written} :
         \/ \E t \in Tok : BeginLogin(p, raws, t)
         \/ BeginLogout(p, raws) \/ UseToken(p, raws)
    \/ AskWho(p) \/ SaveConfig(p) \/ CommandFails(p)

CredentialsSpec == CredentialsInit /\ [][CredentialsNext]_credentialVars

-----------------------------------------------------------------------------
CredentialFile == [default : Url \cup {NoUrl}, tokens : [Url -> Tok \cup {NoTok}]]

CredentialsTypeOK ==
  /\ file \in CredentialFile
  /\ request \subseteq [url : Url, token : Tok, saved : BOOLEAN]
  /\ \A p \in Cmd : cmd[p].pc = "save" => cmd[p].new \in CredentialFile

\* Whatever commands run at the same time and stop in the middle: the
\* default registry has a token; a saved token is one that its registry has
\* confirmed, and goes to no other; and none travels in the clear.
TokensGoHome ==
  /\ file.default # NoUrl => file.tokens[file.default] # NoTok
  /\ \A url \in Url : file.tokens[url] \in KnownAt[url] \cup {NoTok}
  /\ \A s \in request : /\ s.url.scheme = "https" \/ s.url.host \in Loopback
                        /\ s.saved => s.token \in KnownAt[s.url]
=============================================================================
