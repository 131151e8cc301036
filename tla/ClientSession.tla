---------------------------- MODULE ClientSession ----------------------------
(***************************************************************************)
(* Who is logged in: the sessions the server keeps in memory, the token    *)
(* and the cookie the browser keeps, the page or the login form the client *)
(* shows, and the requests under way, each with the credential it was sent *)
(* with.                                                                   *)
(***************************************************************************)
EXTENDS Naturals, FiniteSets

CONSTANTS
  MaxLogins,  \* bound: logins that succeed
  MaxFailed,  \* maxFailedLoginAttempts
  MaxSent     \* bound: requests of the page under way at once

ASSUME SessionAssumption ==
  MaxLogins \in Nat \ {0} /\ MaxFailed \in Nat \ {0} /\ MaxSent \in Nat \ {0}

(* Requests that outlive the page: nobody aborts them.  A sync asks for the status once it has
   succeeded and the tab has been refreshed, "synced", and once it or that has failed, "unsynced". *)
Syncing == {"sync", "synced", "unsynced"}
Lasting == Syncing \cup {"overview", "update", "delete"}
Kind == Lasting \cup {"filters", "events", "identities", "analysis", "models", "status", "pricing"}

VARIABLES
  valid,    \* the sessions of the SessionManager
  created,  \* how many it has created
  attempts, \* failedAttempts of the client's address
  token,    \* of localStorage, 0 without one
  cookie,   \* of the browser, 0 without one
  app,      \* authState
  asked,    \* the check of the session, or the login, that is under way
  sent      \* the requests of the page

sessionVars == <<valid, created, attempts, token, cookie, app, asked, sent>>
serverVars == <<valid, created, attempts>>

Session == 1..MaxLogins
Credentials == 0..MaxLogins
Answer == {"pending", "ok", "refused", "error"}
NotSent == [cred |-> 0, answer |-> "idle"]
Due == [cred |-> 0, answer |-> "due"]  \* sent as soon as the tab has been refreshed
Ask == [for : {"nothing", "session", "login"}, session : Credentials, answer : Answer]
NotAsked == [for |-> "nothing", session |-> 0, answer |-> "ok"]

SessionTypeOK ==
  /\ valid \subseteq Session /\ created \in Credentials /\ attempts \in 0..MaxFailed
  /\ token \in Credentials /\ cookie \in Credentials
  /\ app \in {"closed", "checking", "unauthenticated", "authenticated"}
  /\ asked \in Ask
  /\ sent \in [Kind -> {NotSent, Due} \cup [cred : Credentials, answer : Answer]]

(* buildHeaders and extractToken: the token goes before the cookie. *)
Credential == IF token # 0 THEN token ELSE cookie

(* The browser may remember earlier logins. *)
SessionInit ==
  /\ created = MaxLogins - 1 /\ valid \in SUBSET (1..created) /\ attempts = 0
  /\ cookie \in 0..created /\ token \in {0, cookie}
  /\ app = "closed" /\ asked = NotAsked
  /\ sent = [k \in Kind |-> NotSent]

-----------------------------------------------------------------------------
(* The server. *)

(* A session ends, and with it the life of its cookie. *)
SessionExpires(s) ==
  /\ s \in valid
  /\ valid' = valid \ {s}
  /\ cookie' \in {cookie} \cup (IF cookie = s THEN {0} ELSE {})
  /\ UNCHANGED <<created, attempts, token, app, asked, sent>>

(* Sessions are lost with the process. *)
ServerRestarts ==
  /\ valid # {} \/ attempts > 0
  /\ valid' = {} /\ attempts' = 0
  /\ UNCHANGED <<created, token, cookie, app, asked, sent>>

(* authHandler.middleware; any handler may fail. *)
ServeRequest(k) ==
  /\ sent[k].answer = "pending"
  /\ \E a \in {"error", IF sent[k].cred \in valid THEN "ok" ELSE "refused"} :
       sent' = [sent EXCEPT ![k].answer = a]
  /\ UNCHANGED <<serverVars, token, cookie, app, asked>>

(* authHandler.getSession. *)
ServeSession ==
  /\ asked.for = "session" /\ asked.answer = "pending"
  /\ asked' = [asked EXCEPT !.answer = IF asked.session \in valid THEN "ok" ELSE "refused"]
  /\ UNCHANGED <<serverVars, token, cookie, app, sent>>

(* Another failed attempt; beyond maxFailedLoginAttempts it is not even counted. *)
RecordFailedAttempt == attempts' = IF attempts < MaxFailed THEN attempts + 1 ELSE attempts

(* authHandler.login with the wrong password: 401, or 429. *)
ServeWrongPassword ==
  /\ asked.for = "login" /\ asked.answer = "pending"
  /\ RecordFailedAttempt
  /\ asked' = [asked EXCEPT !.answer = IF attempts < MaxFailed THEN "refused" ELSE "error"]
  /\ UNCHANGED <<valid, created, token, cookie, app, sent>>

(* authHandler.login with the right one: no number of failed attempts is in its way. *)
ServeLogin ==
  /\ asked.for = "login" /\ asked.answer = "pending" /\ created < MaxLogins
  /\ created' = created + 1 /\ valid' = valid \cup {created + 1} /\ attempts' = 0
  /\ asked' = [asked EXCEPT !.session = created + 1, !.answer = "ok"]
  /\ UNCHANGED <<token, cookie, app, sent>>

(* The network, or the proxy before the server, fails. *)
ConnectionFails ==
  /\ asked.for # "nothing" /\ asked.answer = "pending"
  /\ asked' = [asked EXCEPT !.answer = "error"]
  /\ UNCHANGED <<serverVars, token, cookie, app, sent>>

-----------------------------------------------------------------------------
(* The client. *)

(* loadSession: the page is opened, or loaded again. *)
OpenApp ==
  /\ app # "checking" /\ asked = NotAsked
  /\ app' = "checking"
  /\ asked' = [for |-> "session", session |-> Credential, answer |-> "pending"]
  /\ sent' = [k \in Kind |-> NotSent]
  /\ UNCHANGED <<serverVars, token, cookie>>

(* getSession: anything but a session that is valid leads to the login form. *)
SessionChecked ==
  /\ asked.for = "session" /\ asked.answer # "pending"
  /\ app' = IF asked.answer = "ok" THEN "authenticated" ELSE "unauthenticated"
  /\ token' = IF asked.answer = "ok" THEN token ELSE 0
  /\ asked' = NotAsked
  /\ UNCHANGED <<serverVars, cookie, sent>>

SubmitLogin ==
  /\ app = "unauthenticated" /\ asked = NotAsked
  /\ asked' = [for |-> "login", session |-> 0, answer |-> "pending"]
  /\ UNCHANGED <<serverVars, token, cookie, app, sent>>

(* login and handleLogin: a cookie that has come is kept although the answer fails. *)
LoginAnswered ==
  /\ asked.for = "login" /\ asked.answer # "pending"
  /\ \/ /\ asked.answer = "ok"
        /\ cookie' = asked.session /\ token' = asked.session
        /\ app' = "authenticated"
     \/ /\ cookie' \in {cookie, IF asked.answer = "ok" THEN asked.session ELSE cookie}
        /\ token' = 0
        /\ app' = "unauthenticated"
  /\ asked' = NotAsked
  /\ UNCHANGED <<serverVars, sent>>

(* apiFetch. *)
Sent == [cred |-> Credential, answer |-> "pending"]

Send(k) ==
  /\ app = "authenticated" /\ sent[k] = NotSent
  /\ Cardinality({l \in Kind : sent[l] # NotSent}) < MaxSent
  /\ sent' = [sent EXCEPT ![k] = Sent]
  /\ UNCHANGED <<serverVars, token, cookie, app, asked>>

FetchUsageOverview == Send("overview")
FetchUsageEventFilterOptions == Send("filters")
FetchUsageEvents == Send("events")
FetchUsageIdentities == Send("identities")
FetchUsageAnalysis == Send("analysis")
FetchUsedModels == Send("models")
FetchStatus == Send("status")
TriggerSync == (\A k \in Syncing : sent[k] = NotSent) /\ Send("sync")
FetchPricing == Send("pricing")
UpdatePricing == Send("update")
DeletePricing == Send("delete")

(* The page is not refused: its data are stored, or an error is shown. *)
RequestAnswered(k) ==
  /\ sent[k].answer \in IF k = "sync" THEN {} ELSE IF k = "synced" THEN {"ok"} ELSE {"ok", "error"}
  /\ sent' = [sent EXCEPT ![k] = NotSent]
  /\ UNCHANGED <<serverVars, token, cookie, app, asked>>

(* syncCpaData: whatever has become of the page, it refreshes the tab and asks for the status;
   and when the sync or that status fails, it asks for the status at once, to show the error. *)
SyncAnswered ==
  /\ sent["sync"].answer = "ok"
  /\ sent' = [sent EXCEPT !["sync"] = NotSent, !["synced"] = Due]
  /\ UNCHANGED <<serverVars, token, cookie, app, asked>>

RefreshStatus ==
  /\ sent["synced"] = Due
  /\ sent' = [sent EXCEPT !["synced"] = Sent]
  /\ UNCHANGED <<serverVars, token, cookie, app, asked>>

SyncFails(k) ==
  /\ k \in {"sync", "synced"} /\ sent[k].answer = "error"
  /\ sent' = [sent EXCEPT ![k] = NotSent, !["unsynced"] = Sent]
  /\ UNCHANGED <<serverVars, token, cookie, app, asked>>

(* The second status is allowed to fail: of its 401 the page is not told. *)
SyncStatusRefused ==
  /\ sent["unsynced"].answer = "refused"
  /\ token' = 0
  /\ sent' = [sent EXCEPT !["unsynced"] = NotSent]
  /\ UNCHANGED <<serverVars, cookie, app, asked>>

(* A newer load has aborted it, before or after parseApiError has seen the 401. *)
RequestAborted(k) ==
  /\ k \notin Lasting \ {"overview"} /\ sent[k] # NotSent
  /\ sent' = [sent EXCEPT ![k] = NotSent]
  /\ token' \in {token, IF sent[k].answer = "refused" THEN 0 ELSE token}
  /\ UNCHANGED <<serverVars, cookie, app, asked>>

(* Mutant: the 401 clears the token and is otherwise an error like another. *)
RequestRefusedQuietly(k) ==
  /\ sent[k].answer = "refused"
  /\ token' = 0
  /\ sent' = [sent EXCEPT ![k] = NotSent]
  /\ UNCHANGED <<serverVars, cookie, app, asked>>

(* onAuthRequired: the page goes, and with it the requests that it can abort.  This also
   happens to a page that has been logged in again since the request was sent. *)
RequestRefused(k) ==
  /\ k # "unsynced" /\ sent[k].answer = "refused"
  /\ token' = 0
  /\ app' = "unauthenticated"
  /\ sent' = [l \in Kind |-> IF l = k \/ l \notin Lasting THEN NotSent ELSE sent[l]]
  /\ UNCHANGED <<serverVars, cookie, asked>>

Requests ==
  \/ FetchUsageOverview \/ FetchUsageEventFilterOptions \/ FetchUsageEvents
  \/ FetchUsageIdentities \/ FetchUsageAnalysis \/ FetchUsedModels
  \/ TriggerSync \/ FetchPricing \/ UpdatePricing \/ DeletePricing

AnswerOf(k) ==
  \/ ServeRequest(k) \/ RequestAnswered(k) \/ RequestRefused(k) \/ SyncFails(k)
  \/ k = "sync" /\ SyncAnswered
  \/ k = "unsynced" /\ SyncStatusRefused

SessionNext ==
  \/ \E s \in Session : SessionExpires(s)
  \/ ServerRestarts \/ ServeSession \/ ServeWrongPassword \/ ServeLogin \/ ConnectionFails
  \/ OpenApp \/ SessionChecked \/ SubmitLogin \/ LoginAnswered
  \/ Requests \/ FetchStatus
  \/ RefreshStatus
  \/ \E k \in Kind : AnswerOf(k) \/ RequestAborted(k)

SessionSpec == SessionInit /\ [][SessionNext]_sessionVars

(***************************************************************************)
(* The page polls the status every 30 s; a request is answered in the end; *)
(* of the polls, some are answered by a server that does not fail and are  *)
(* not overtaken by the next one before their answer is read.              *)
(***************************************************************************)
SessionFairness ==
  /\ WF_sessionVars(ServeSession \/ SessionChecked)
  /\ SF_sessionVars(FetchStatus)
  /\ \A k \in Kind : WF_sessionVars(AnswerOf(k))
  /\ SF_sessionVars(ServeRequest("status") /\ sent'["status"].answer # "error")
  /\ SF_sessionVars(RequestRefused("status"))

-----------------------------------------------------------------------------
(* Properties. *)

(***************************************************************************)
(* A client whose own session has ended, whatever others are valid, is     *)
(* shown the login form in the end, or goes on with a credential that is   *)
(* valid, such as the cookie once the token has been dropped: nothing that *)
(* is aborted, lost, swallowed or answered late leaves it on a page that   *)
(* nothing fills.                                                          *)
(***************************************************************************)
SessionEndShown ==
  [](app = "authenticated" /\ Credential \notin valid
       => <>(app = "unauthenticated" \/ Credential \in valid))
=============================================================================
