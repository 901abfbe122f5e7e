----------------------------- MODULE AuthConfig -----------------------------
(***************************************************************************)
(* The credentials in ~/.lrc.toml: who reads, renews and writes them.      *)
(* appcore/auth_recovery.go, appui (setup, ensure, ui), setup, config.     *)
(*                                                                         *)
(* A review whose API key is refused creates a new one, with a refreshed   *)
(* session if need be; `lrc ensure` and `lrc setup` probe the session and  *)
(* renew it; the handlers of `lrc ui` share a session in memory.  All of   *)
(* them read the whole file and replace it, without a lock.                *)
(*                                                                         *)
(* Sessions and API keys are numbered as the servers mint them.  A refresh *)
(* token serves once.  A server is its api_url; 0 is the empty string.     *)
(* Names, e-mail addresses and backups of the file are left out.           *)
(***************************************************************************)
EXTENDS Naturals, Sequences

CONSTANTS
  Client,         \* commands, and handlers of the UI
  AuthPlans,      \* what each of them may be: a kind with its url or org, or NoPlan
  Files,          \* what the file may hold at first; it may name session 1 and key 2
  MaxFailures,      \* bound: calls and writes that fail
  MaxExpiries     \* bound: access tokens that expire

Handlers == {"list", "proxy", "status", "org", "reauth"}
AuthKinds == {"review", "ensure", "setup"} \cup Handlers
LineKeys == {"api_key", "api_url", "org_id", "jwt", "refresh_token", "begin", "table", "end"}

\* A file lrc has written names no credential twice.
ASSUME AuthAssumption ==
  /\ "free" \notin Client
  /\ AuthPlans \subseteq [Client -> [kind : AuthKinds \cup {"none"}, url : Nat, org : Nat]]
  /\ Files \subseteq Seq([k : LineKeys, v : Nat])
  /\ \A f \in Files : \A i, j \in DOMAIN f :
       f[i].k \in {"jwt", "refresh_token"} => f[i].v <= 1 /\ (f[j].k = f[i].k => j = i)
  /\ MaxFailures \in Nat /\ MaxExpiries \in Nat

VARIABLES
  file,           \* the lines of ~/.lrc.toml; <<>> is no file
  minted,         \* the sessions and keys the servers have given out: their server and org
  live,           \* the access tokens that are accepted
  fresh,          \* the refresh tokens that are accepted
  keys,           \* the API keys that are accepted
  ai,             \* the servers with an AI connector
  ui,             \* the UI server's session, and whether it is up
  mutex,          \* the handler in refreshAccessToken, or "free"
  cl,             \* of each client: where it is and what it holds
  fails,          \* how many calls and writes have failed
  past            \* history: overlaps, writes that failed, expiries, refreshes

authVars == <<file, minted, live, fresh, keys, ai, ui, mutex, cl, fails, past>>
server == <<minted, live, fresh, keys, ai>>

Cloud == 1
NoPlan == [kind |-> "none", url |-> 0, org |-> 0]
NoUI == [up |-> FALSE, url |-> 0, jwt |-> 0, refresh |-> 0, org |-> 0]
NoJob == [ups |-> <<>>, next |-> "done", else |-> "failed"]

-----------------------------------------------------------------------------
(* The file.  A line is a key with its value; "begin" .. "end" is the      *)
(* managed section, "table" the head of a connector in it, which has an    *)
(* api_key line of its own.                                                *)

Line(k, v) == [k |-> k, v |-> v]
ConnectorKey == 99
FirstAt(lines, P(_)) == CHOOSE i \in DOMAIN lines : P(lines[i]) /\ \A j \in 1..(i - 1) : ~P(lines[j])
\* UpsertQuotedConfigValue: the first line that has the key, wherever it stands, or a new last one.
UpsertQuotedConfigValue(lines, k, v) ==
  LET Has(l) == l.k = k IN
  IF \E i \in DOMAIN lines : Has(lines[i]) THEN [lines EXCEPT ![FirstAt(lines, Has)].v = v]
  ELSE Append(lines, Line(k, v))
\* Everything between the markers; without an end, to the end of the file.
StripManagedAIConnectorsSection(lines) ==
  LET Begins(l) == l.k = "begin"
      b == FirstAt(lines, Begins)
      Ends(l) == l.k = "end"
      rest == SubSeq(lines, b, Len(lines))
  IN IF ~\E i \in DOMAIN lines : Begins(lines[i]) THEN lines
     ELSE SubSeq(lines, 1, b - 1) \o
          (IF \E i \in DOMAIN rest : Ends(rest[i])
           THEN SubSeq(rest, FirstAt(rest, Ends) + 1, Len(rest)) ELSE <<>>)
RenderManagedAIConnectorsSection(connectors) ==
  <<Line("begin", 0)>>
    \o (IF connectors THEN <<Line("table", 0), Line("api_key", ConnectorKey)>> ELSE <<>>)
    \o <<Line("end", 0)>>
\* What a load finds: keys below the head of a table belong to the table, and a key that is
\* there twice is an error.
Top(lines) ==
  LET Heads(l) == l.k = "table" IN
  IF \E i \in DOMAIN lines : Heads(lines[i]) THEN SubSeq(lines, 1, FirstAt(lines, Heads) - 1) ELSE lines
Parses(lines) == \A i, j \in DOMAIN Top(lines) : Top(lines)[i].k = Top(lines)[j].k => i = j
Value(lines, k) ==
  LET Has(l) == l.k = k IN
  IF \E i \in DOMAIN Top(lines) : Has(Top(lines)[i]) THEN Top(lines)[FirstAt(Top(lines), Has)].v ELSE 0
APIURL(lines) == IF Value(lines, "api_url") = 0 THEN Cloud ELSE Value(lines, "api_url")

\* The updates of one write, one after the other; "connectors" replaces the section.
Updated(lines, u) ==
  IF u[1] = "connectors"
  THEN StripManagedAIConnectorsSection(lines) \o RenderManagedAIConnectorsSection(u[2] = 1)
  ELSE UpsertQuotedConfigValue(lines, u[1], u[2])
Edited(lines, ups) ==
  LET upto[n \in 0..Len(ups)] == IF n = 0 THEN lines ELSE Updated(upto[n - 1], ups[n])
  IN upto[Len(ups)]
NonEmpty(u) == IF u[2] # 0 THEN <<u>> ELSE <<>>

-----------------------------------------------------------------------------
AuthInit ==
  /\ file \in Files
  /\ minted = <<[url |-> Cloud, org |-> 0], [url |-> Cloud, org |-> 1]>>
  /\ live \in {{}, {1}} /\ fresh = {1} /\ keys \in {{}, {2}}
  /\ ai \in {{}, {Cloud}}
  /\ ui = NoUI /\ mutex = "free" /\ fails = 0
  /\ \E plan \in AuthPlans :
       cl = [c \in Client |-> [plan |-> plan[c], pc |-> "wait", url |-> Cloud, jwt |-> 0, refresh |-> 0,
                               org |-> 0, key |-> 0, buf |-> <<>>, job |-> NoJob, tries |-> 0]]
  /\ past = [met |-> FALSE, lost |-> FALSE, keyless |-> FALSE,
             expired |-> IF live = {} THEN 1 ELSE 0, refreshed |-> 0]

KindOf(c)   == cl[c].plan.kind
Is(c, pc) == cl[c].pc = pc
To(c, pc) == cl' = [cl EXCEPT ![c].pc = pc]
Active    == {c \in Client : cl[c].pc \notin {"wait", "done", "failed"}}
\* A write: what it changes, where the client goes on, and where when it fails.
Saving(c, ups, next, else) ==
  [cl[c] EXCEPT !.pc = "save", !.job = [ups |-> ups, next |-> next, else |-> else]]
Fault == fails < MaxFailures /\ fails' = fails + 1
Mint(more) == minted' = minted \o more
Session(url) == [url |-> url, org |-> 0]
New == Len(minted) + 1

\* A client starts.  It clashes with one that is running, and a command with a UI that is up.
Began(c) ==
  past' = [past EXCEPT !.met = @ \/ Active # {} \/ (ui.up /\ KindOf(c) \notin Handlers)]

-----------------------------------------------------------------------------
(* Reading and replacing the file.                                         *)

SaveReads(c) ==
  /\ Is(c, "save")
  /\ cl' = [cl EXCEPT ![c].pc = "replace", ![c].buf = file]
  /\ UNCHANGED <<file, server, ui, mutex, fails, past>>
SaveWrites(c) ==
  /\ Is(c, "replace")
  /\ LET job == cl[c].job IN
     \/ /\ file' = Edited(cl[c].buf, job.ups)
        /\ cl' = [cl EXCEPT ![c].pc = job.next, ![c].buf = <<>>, ![c].job = NoJob]
        /\ UNCHANGED <<fails, past>>
     \/ /\ Fault
        /\ cl' = [cl EXCEPT ![c].pc = job.else, ![c].buf = <<>>, ![c].job = NoJob]
        /\ past' = [past EXCEPT !.lost = TRUE]
        /\ UNCHANGED file
  /\ UNCHANGED <<server, ui, mutex>>

-----------------------------------------------------------------------------
(* A review: submitReviewWithRecovery, recoverAPIKeyAndTokens.  Polling    *)
(* recovers in the same way.                                               *)

BeginReview(c) ==
  /\ Is(c, "wait") /\ KindOf(c) = "review"
  /\ cl' = [cl EXCEPT ![c].pc = IF Parses(file) /\ Value(file, "api_key") # 0 THEN "submit" ELSE "failed",
                      ![c].url = APIURL(file), ![c].jwt = Value(file, "jwt"),
                      ![c].refresh = Value(file, "refresh_token"), ![c].org = Value(file, "org_id"),
                      ![c].key = Value(file, "api_key")]
  /\ Began(c)
  /\ UNCHANGED <<file, server, ui, mutex, fails>>
\* One recovery: a key that is refused again is an error.
SubmitReview(c) ==
  /\ cl[c].pc \in {"submit", "retry"}
  /\ \/ cl[c].key \in keys /\ To(c, "done") /\ UNCHANGED fails
     \/ /\ cl[c].key \notin keys /\ UNCHANGED fails
        /\ To(c, IF Is(c, "submit") /\ cl[c].org # 0 THEN "create" ELSE "failed")
     \/ Fault /\ To(c, "failed")
  /\ UNCHANGED <<file, server, ui, mutex, past>>
\* Refused (and not failed) once, with a refresh token: the session is refreshed.
CreateKey(c) ==
  /\ cl[c].pc \in {"create", "create2"}
  /\ \/ /\ cl[c].jwt \in live
        /\ Mint(<<[url |-> cl[c].url, org |-> cl[c].org]>>) /\ keys' = keys \cup {New}
        /\ cl' = [cl EXCEPT ![c] = [Saving(c, <<<<"api_key", New>>>>, "retry", "failed") EXCEPT !.key = New]]
        /\ UNCHANGED fails
     \/ /\ cl[c].jwt \notin live
        /\ To(c, IF Is(c, "create") /\ cl[c].jwt # 0 /\ cl[c].refresh # 0 THEN "refresh" ELSE "failed")
        /\ UNCHANGED <<minted, keys, fails>>
     \/ Fault /\ To(c, "failed") /\ UNCHANGED <<minted, keys>>
  /\ UNCHANGED <<file, live, fresh, ai, ui, mutex, past>>
\* The new session is saved before it is used.
\* Mutant: it is saved with the key only, when there is one.
SavedWithKey(c, next, else) == [cl[c] EXCEPT !.pc = next]
SavedTokens(c, next, else) ==
  Saving(c, <<<<"jwt", New>>, <<"refresh_token", New>>>>, next, else)
RefreshSession(c) ==
  /\ cl[c].pc \in {"refresh", "prefresh"}
  /\ LET next == IF Is(c, "refresh") THEN "create2" ELSE "probe2"
         else == IF Is(c, "refresh") THEN "failed" ELSE "notready" IN
     \/ /\ cl[c].refresh \in fresh
        /\ Mint(<<Session(cl[c].url)>>)
        /\ live' = live \cup {New} /\ fresh' = (fresh \ {cl[c].refresh}) \cup {New}
        /\ cl' = [cl EXCEPT ![c] = [SavedTokens(c, next, else) EXCEPT !.jwt = New, !.refresh = New]]
        /\ UNCHANGED fails
     \/ cl[c].refresh \notin fresh /\ To(c, else) /\ UNCHANGED <<minted, live, fresh, fails>>
     \/ Fault /\ To(c, else) /\ UNCHANGED <<minted, live, fresh>>
  /\ UNCHANGED <<file, keys, ai, ui, mutex, past>>

-----------------------------------------------------------------------------
(* `lrc ensure` and `lrc setup`: runSetupPreflight.                        *)

\* The api_url of a setup: its target or the one of the file, by flag or answer; without either,
\* a file that is there ends it.
SetupURLs(c) == {cl[c].plan.url} \cup (IF file = <<>> THEN {} ELSE {APIURL(file)})
BeginPreflight(c) ==
  /\ Is(c, "wait") /\ KindOf(c) \in {"ensure", "setup"}
  /\ \/ \E url \in IF KindOf(c) = "ensure" THEN {cl[c].plan.url} ELSE SetupURLs(c) :
          LET usable == /\ file # <<>> /\ Parses(file) /\ APIURL(file) = url
                        /\ Value(file, "jwt") # 0 /\ Value(file, "org_id") # 0
          IN cl' = [cl EXCEPT ![c].pc = IF usable THEN "probe" ELSE "notready",
                              ![c].url = url, ![c].jwt = Value(file, "jwt"),
                              ![c].refresh = Value(file, "refresh_token"),
                              ![c].org = Value(file, "org_id"), ![c].key = Value(file, "api_key")]
     \/ KindOf(c) = "setup" /\ file # <<>> /\ To(c, "failed")
  /\ Began(c)
  /\ UNCHANGED <<file, server, ui, mutex, fails>>
ProbeSession(c) ==
  /\ cl[c].pc \in {"probe", "probe2"}
  /\ \/ cl[c].jwt \in live /\ To(c, IF cl[c].key = 0 THEN "pkey" ELSE "ready") /\ UNCHANGED fails
     \/ /\ cl[c].jwt \notin live /\ UNCHANGED fails
        /\ To(c, IF Is(c, "probe") /\ cl[c].refresh # 0 THEN "prefresh" ELSE "notready")
     \/ Fault /\ To(c, "notready")
  /\ UNCHANGED <<file, server, ui, mutex, past>>
RecoverKey(c) ==
  /\ Is(c, "pkey")
  /\ \/ /\ cl[c].jwt \in live
        /\ Mint(<<[url |-> cl[c].url, org |-> cl[c].org]>>) /\ keys' = keys \cup {New}
        /\ cl' = [cl EXCEPT ![c] = [Saving(c, <<<<"org_id", cl[c].org>>, <<"api_key", New>>>>, "ready", "notready")
                                     EXCEPT !.key = New]]
        /\ UNCHANGED fails
     \/ cl[c].jwt \notin live /\ To(c, "notready") /\ UNCHANGED <<minted, keys, fails>>
     \/ Fault /\ To(c, "notready") /\ UNCHANGED <<minted, keys>>
  /\ UNCHANGED <<file, live, fresh, ai, ui, mutex, past>>
\* ensureReviewReady wants a session and a connector; RunSetup offers to reuse what is there.
EnsureEnds(c) ==
  /\ KindOf(c) = "ensure" /\ cl[c].pc \in {"ready", "notready"}
  /\ To(c, IF Is(c, "ready") /\ cl[c].url \in ai THEN "done" ELSE "failed")
  /\ UNCHANGED <<file, server, ui, mutex, fails, past>>
SetupChooses(c) ==
  /\ KindOf(c) = "setup" /\ cl[c].pc \in {"ready", "notready"}
  /\ \E again \in {Is(c, "notready"), TRUE} :
       cl' = [cl EXCEPT ![c].pc = IF again THEN "login" ELSE IF cl[c].url \in ai THEN "done" ELSE "gemini",
                        ![c].tries = IF again THEN 0 ELSE 10]   \* 10: no login, nothing to write
  /\ UNCHANGED <<file, server, ui, mutex, fails, past>>

-----------------------------------------------------------------------------
(* Logging in, and the rest of a setup: RunSetup, handleReauthenticate.    *)

Credentials(c, s, k) == [cl[c] EXCEPT !.jwt = s, !.refresh = s, !.org = 1, !.key = k]
\* persistReauthSessionToConfig leaves an api_url that is there alone.
ReauthUpdates(c, lines) ==
  (IF Value(lines, "api_url") = 0 THEN <<<<"api_url", cl[c].url>>>> ELSE <<>>)
    \o <<<<"api_key", New + 1>>, <<"org_id", 1>>, <<"jwt", New>>, <<"refresh_token", New>>>>
\* A session, then a key for the first organization; the session may be all there is.
Login(c) ==
  /\ Is(c, "login")
  /\ \/ /\ Mint(<<Session(cl[c].url), [url |-> cl[c].url, org |-> 1]>>)
        /\ live' = live \cup {New} /\ fresh' = fresh \cup {New} /\ keys' = keys \cup {New + 1}
        /\ cl' = [cl EXCEPT ![c] =
                   IF KindOf(c) = "setup" THEN [Credentials(c, New, New + 1) EXCEPT !.pc = "gemini"]
                   ELSE [Credentials(c, New, New + 1) EXCEPT !.pc = "save",
                           !.job = [ups |-> ReauthUpdates(c, file), next |-> "adopt", else |-> "failed"]]]
        /\ UNCHANGED fails
     \/ Fault /\ To(c, "failed") /\ UNCHANGED <<minted, live, fresh, keys>>
     \/ /\ Fault /\ To(c, "failed") /\ Mint(<<Session(cl[c].url)>>)
        /\ live' = live \cup {New} /\ fresh' = fresh \cup {New} /\ UNCHANGED keys
  /\ UNCHANGED <<file, ai, ui, mutex, past>>
\* promptGeminiKey: three attempts.
Gemini(c) ==
  /\ Is(c, "gemini")
  /\ \/ To(c, "connector")
     \/ LET tries == cl[c].tries + 1 IN
        cl' = [cl EXCEPT ![c].tries = tries, ![c].pc = IF tries \in {3, 13} THEN "failed" ELSE "gemini"]
     \/ To(c, "failed")
  /\ UNCHANGED <<file, server, ui, mutex, fails, past>>
\* WriteConfigWithOptions writes every key.
\* Mutant: the api_url of a file that has one is kept.
KeepsURL(c) == <<<<"api_key", cl[c].key>>, <<"org_id", cl[c].org>>, <<"jwt", cl[c].jwt>>,
                 <<"refresh_token", cl[c].refresh>>>>
WriteConfig(c) ==
  <<<<"api_key", cl[c].key>>, <<"api_url", cl[c].url>>, <<"org_id", cl[c].org>>, <<"jwt", cl[c].jwt>>,
    <<"refresh_token", cl[c].refresh>>>>
\* The connector, its helper (which may fail) and, after a login, the file.
Connector(c) ==
  /\ Is(c, "connector")
  /\ \/ /\ cl[c].jwt \in live /\ ai' = ai \cup {cl[c].url} /\ UNCHANGED fails
        /\ IF cl[c].tries >= 10 THEN To(c, "done")
           ELSE cl' = [cl EXCEPT ![c] = Saving(c, WriteConfig(c), "done", "failed")]
     \/ cl[c].jwt \notin live /\ To(c, "failed") /\ UNCHANGED <<ai, fails>>
     \/ Fault /\ To(c, "failed") /\ UNCHANGED ai
  /\ UNCHANGED <<file, minted, live, fresh, keys, ui, mutex, past>>

-----------------------------------------------------------------------------
(* `lrc ui`.                                                               *)

\* The server loads the file when it starts.
UIStart ==
  /\ ~ui.up /\ \E c \in Client : Is(c, "wait") /\ KindOf(c) \in Handlers
  /\ ui' = IF Parses(file)
           THEN [up |-> TRUE, url |-> APIURL(file), jwt |-> Value(file, "jwt"),
                 refresh |-> Value(file, "refresh_token"), org |-> Value(file, "org_id")]
           ELSE [NoUI EXCEPT !.up = TRUE, !.url = Cloud]
  /\ past' = [past EXCEPT !.met = @ \/ Active # {}]
  /\ UNCHANGED <<file, server, mutex, cl, fails>>
UIStop ==
  /\ ui.up /\ Active = {}
  /\ ui' = NoUI
  /\ UNCHANGED <<file, server, mutex, cl, fails, past>>
\* A handler reads the session under the mutex.  The organizations need no organization.
BeginHandler(c) ==
  /\ Is(c, "wait") /\ KindOf(c) \in Handlers /\ ui.up /\ mutex = "free"
  /\ LET signedOut == ui.jwt = 0 \/ (KindOf(c) \in {"list", "proxy"} /\ ui.org = 0) IN
     cl' = [cl EXCEPT ![c].pc = IF KindOf(c) = "reauth" THEN "login" ELSE IF signedOut THEN "failed" ELSE "ask",
                      ![c].url = ui.url, ![c].jwt = ui.jwt, ![c].org = ui.org]
  /\ Began(c)
  /\ UNCHANGED <<file, server, ui, mutex, fails>>
\* What follows an answer.  The list of connectors is saved; other requests are passed on; a
\* status asks for the organizations, then for the connectors; a switch goes on to switch.
Listed(c)  == Saving(c, <<<<"connectors", IF cl[c].url \in ai THEN 1 ELSE 0>>>>, "done", "done")
Proxied(c) == [cl[c] EXCEPT !.pc = "done"]
Checked(c) == [cl[c] EXCEPT !.pc = IF cl[c].tries = 1 \/ cl[c].org = 0 THEN "done" ELSE "ask", !.tries = 1]
Answered(c) ==
  CASE KindOf(c) = "list"   -> Listed(c)
    [] KindOf(c) = "proxy"  -> Proxied(c)
    [] KindOf(c) = "status" -> Checked(c)
    [] OTHER -> [cl[c] EXCEPT !.pc = "switch"]
\* A status that cannot have the organizations asks for the connectors all the same.
Unanswered(c) ==
  IF KindOf(c) = "status" /\ cl[c].tries = 0 /\ cl[c].org # 0
  THEN [cl[c] EXCEPT !.pc = "ask", !.tries = 1] ELSE [cl[c] EXCEPT !.pc = "failed"]
\* proxyJSONRequest: what is refused is refreshed and asked once more.
Ask(c) ==
  /\ cl[c].pc \in {"ask", "again"}
  /\ \/ cl[c].jwt \in live /\ cl' = [cl EXCEPT ![c] = Answered(c)] /\ UNCHANGED fails
     \/ /\ cl[c].jwt \notin live /\ UNCHANGED fails
        /\ cl' = [cl EXCEPT ![c] = IF Is(c, "ask") THEN [cl[c] EXCEPT !.pc = "expired"] ELSE Unanswered(c)]
     \/ Fault /\ cl' = [cl EXCEPT ![c] = Unanswered(c)]
  /\ UNCHANGED <<file, server, ui, mutex, past>>
\* refreshAccessToken: another handler may have refreshed the session since.
\* Mutant: the token that failed is not compared with the session's.
NoneRefreshed(c) == FALSE
Refreshed(c) == ui.jwt # cl[c].jwt
EnterRefresh(c) ==
  /\ Is(c, "expired") /\ mutex = "free"
  /\ \/ Refreshed(c) /\ cl' = [cl EXCEPT ![c].pc = "again", ![c].jwt = ui.jwt] /\ UNCHANGED mutex
     \/ /\ ~Refreshed(c) /\ ui.refresh = 0
        /\ cl' = [cl EXCEPT ![c] = Unanswered(c)] /\ UNCHANGED mutex
     \/ ~Refreshed(c) /\ ui.refresh # 0 /\ mutex' = c /\ To(c, "urefresh")
  /\ UNCHANGED <<file, server, ui, fails, past>>
\* The session is renewed under the mutex, and saved as far as it can be.
UIRefresh(c) ==
  /\ Is(c, "urefresh")
  /\ \/ /\ ui.refresh \in fresh
        /\ Mint(<<Session(ui.url)>>)
        /\ live' = live \cup {New} /\ fresh' = (fresh \ {ui.refresh}) \cup {New}
        /\ ui' = [ui EXCEPT !.jwt = New, !.refresh = New]
        /\ cl' = [cl EXCEPT ![c] = [SavedTokens(c, "leave", "leave") EXCEPT !.jwt = New]]
        /\ past' = [past EXCEPT !.refreshed = @ + 1]
        /\ UNCHANGED <<fails, mutex>>
     \/ /\ ui.refresh \notin fresh /\ cl' = [cl EXCEPT ![c] = Unanswered(c)] /\ mutex' = "free"
        /\ UNCHANGED <<minted, live, fresh, ui, fails, past>>
     \/ /\ Fault /\ cl' = [cl EXCEPT ![c] = Unanswered(c)] /\ mutex' = "free"
        /\ UNCHANGED <<minted, live, fresh, ui, past>>
  /\ UNCHANGED <<file, keys, ai>>
LeaveRefresh(c) ==
  /\ Is(c, "leave") /\ mutex' = "free"
  /\ cl' = [cl EXCEPT ![c].pc = "again", ![c].jwt = ui.jwt]
  /\ UNCHANGED <<file, server, ui, fails, past>>
\* handleSetOrgContext: the session's organization, a key for it, the file.  Without a key the
\* organization is saved all the same.
SwitchOrg(c) ==
  /\ Is(c, "switch") /\ mutex = "free"
  /\ ui' = [ui EXCEPT !.org = cl[c].plan.org]
  /\ cl' = [cl EXCEPT ![c].pc = "orgkey", ![c].org = cl[c].plan.org, ![c].jwt = ui.jwt]
  /\ UNCHANGED <<file, server, mutex, fails, past>>
OrgUpdates(c, key) == NonEmpty(<<"org_id", cl[c].org>>) \o NonEmpty(<<"api_key", key>>)
SwitchKey(c) ==
  /\ Is(c, "orgkey")
  /\ \/ /\ cl[c].jwt \in live
        /\ Mint(<<[url |-> cl[c].url, org |-> cl[c].org]>>) /\ keys' = keys \cup {New}
        /\ cl' = [cl EXCEPT ![c] = [Saving(c, OrgUpdates(c, New), "done", "failed") EXCEPT !.key = New]]
        /\ UNCHANGED <<fails, past>>
     \/ /\ \/ cl[c].jwt \notin live /\ UNCHANGED fails
           \/ Fault
        /\ cl' = [cl EXCEPT ![c] = Saving(c, OrgUpdates(c, 0), "done", "failed")]
        /\ past' = [past EXCEPT !.keyless = TRUE]
        /\ UNCHANGED <<minted, keys>>
  /\ UNCHANGED <<file, live, fresh, ai, ui, mutex>>
\* handleReauthenticate: the file first, then the session in memory.
Adopt(c) ==
  /\ Is(c, "adopt") /\ mutex = "free"
  /\ ui' = [ui EXCEPT !.url = cl[c].url, !.jwt = cl[c].jwt, !.refresh = cl[c].refresh, !.org = cl[c].org]
  /\ To(c, "done")
  /\ UNCHANGED <<file, server, mutex, fails, past>>

-----------------------------------------------------------------------------
\* An access token expires.
Expire ==
  /\ past.expired < MaxExpiries
  /\ \E n \in live : live' = live \ {n}
  /\ past' = [past EXCEPT !.expired = @ + 1]
  /\ UNCHANGED <<file, minted, fresh, keys, ai, ui, mutex, cl, fails>>

AuthNext ==
  \/ \E c \in Client :
       \/ SaveReads(c) \/ SaveWrites(c)
       \/ BeginReview(c) \/ SubmitReview(c) \/ CreateKey(c) \/ RefreshSession(c)
       \/ BeginPreflight(c) \/ ProbeSession(c) \/ RecoverKey(c) \/ EnsureEnds(c) \/ SetupChooses(c)
       \/ Login(c) \/ Gemini(c) \/ Connector(c)
       \/ BeginHandler(c) \/ Ask(c) \/ EnterRefresh(c) \/ UIRefresh(c) \/ LeaveRefresh(c)
       \/ SwitchOrg(c) \/ SwitchKey(c) \/ Adopt(c)
  \/ UIStart \/ UIStop \/ Expire

AuthSpec == AuthInit /\ [][AuthNext]_authVars

-----------------------------------------------------------------------------
(* Properties.                                                             *)

\* Nothing is running, nothing has overlapped and every write has succeeded.
Quiet == Active = {} /\ ~past.met /\ ~past.lost

\* However a session is renewed, and whatever fails after that, the refresh token in the file is
\* one the server still takes: the user is never signed out by a renewal.
SessionKept == (Quiet /\ Value(file, "refresh_token") # 0) => Value(file, "refresh_token") \in fresh

\* The credentials in the file are of the server it names, and the key is one of the organization
\* it names, unless a switch of organization could not have a key.
CredentialsAgree ==
  Quiet =>
    /\ \A k \in {"jwt", "refresh_token", "api_key"} :
         Value(file, k) # 0 => minted[Value(file, k)].url = APIURL(file)
    /\ (Value(file, "api_key") # 0 /\ Value(file, "org_id") # 0 /\ ~past.keyless)
         => minted[Value(file, "api_key")].org = Value(file, "org_id")

\* Requests of the UI that are refused for the same expired token renew the session once.
OneRefreshPerExpiry == past.refreshed <= past.expired
=============================================================================
