----------------------------- MODULE DocusignAuth -----------------------------
(***************************************************************************)
(* The authorisation of one DocuSign integration (shared/docusign,         *)
(* docusign-integration).  The access token is kept in MongoDB for every   *)
(* process and in static maps for this one; the decorator of every method  *)
(* that calls DocuSign first fetches a new token when the cached one is    *)
(* due.  A handler is cut at each of its awaits, and between two steps of  *)
(* it another request's handler may run.                                   *)
(*                                                                         *)
(* A token is due (past expiresAt) 15 minutes before DocuSign lets it      *)
(* expire.  A handler is taken to last less than those 15 minutes.         *)
(***************************************************************************)
EXTENDS Naturals

CONSTANTS
  MaxTokens,  \* bound on the tokens DocuSign issues
  Request,    \* HTTP requests that may be in flight at the same time
  Failures    \* may DocuSign refuse a call?

ASSUME DocusignAuthAssumption ==
  /\ MaxTokens \in Nat
  /\ Failures \in BOOLEAN

Token == 1..MaxTokens
NoToken == 0

VARIABLES
  token,     \* DocuSign: each token unissued, fresh, due or expired
  accepted,  \* DocuSign: the tokens for which it has answered getUserInfo
  stored,    \* accessToken of the integration in MongoDB
  cached,    \* _jwtAuthConfig
  header,    \* the Authorization header of the apiClient
  account,   \* are accountId, _baseUrl and envelopeApi set?
  headers,   \* _headers, with which documents are fetched and uploaded
  req,       \* per request: where its handler is
  booted     \* has onModuleInit ended?

static == <<cached, header, account, headers>>
vars == <<token, accepted, stored, static, req, booted>>

\* pc: where the handler is; goal: what it refreshes the token for; t: the token
\* it was granted or asks about; save: is t to be saved after getUserInfo?; init:
\* is setAuthConfig to be called once more (isInitAuthConfig)?; old: the tokens
\* that were due already when the handler began.
Idle == [pc |-> "idle", goal |-> "call", t |-> NoToken,
         save |-> FALSE, init |-> FALSE, old |-> {}]

Init ==
  /\ token = [t \in Token |-> "unissued"]
  /\ accepted = {}
  /\ stored = NoToken
  /\ cached = NoToken /\ header = NoToken /\ account = FALSE /\ headers = NoToken
  /\ req = [r \in Request |-> Idle]
  /\ booted = FALSE

----------------------------------------------------------------------------

At(r, pc) == req[r].pc = pc
Become(r, rec) == req' = [req EXCEPT ![r] = rec] /\ UNCHANGED booted
Finish(r) == req' = [req EXCEPT ![r] = Idle] /\ booted' = TRUE
Started == [Idle EXCEPT !.old = {t \in Token : token[t] \in {"due", "expired"}}]

\* The authorisation is in place: on to the DocuSign call, if there is one.
Proceed(r) ==
  IF req[r].goal = "call" THEN Become(r, [req[r] EXCEPT !.pc = "call"]) ELSE Finish(r)

\* setAuthConfig up to its await: the header is set, getUserInfo asked about t.
SetAuthConfig(r, t, rec) ==
  /\ header' = t
  /\ Become(r, [rec EXCEPT !.pc = "userInfo", !.t = t])

\* A stored token that was just cached: getNewAccessTokenIfExpired, then setAuthConfig.
Adopt(r, rec) ==
  /\ cached' = stored
  /\ IF token[stored] = "fresh"
     THEN SetAuthConfig(r, stored, rec)
     ELSE Become(r, [rec EXCEPT !.pc = "token", !.init = TRUE]) /\ UNCHANGED header

\* onModuleInit, before the first request is served.
Boot(r) ==
  /\ ~booted /\ \A o \in Request : At(o, "idle")
  /\ IF stored = NoToken
     THEN Finish(r) /\ UNCHANGED <<cached, header>>
     ELSE Adopt(r, [Started EXCEPT !.goal = "boot"])
  /\ UNCHANGED <<token, accepted, stored, account, headers>>

\* Fault: a token is used until DocuSign has let it expire.
StartCallLate(r) ==
  /\ booted /\ At(r, "idle")
  /\ Become(r, [Started EXCEPT !.pc = IF cached = NoToken THEN "find" ELSE "call"])
  /\ UNCHANGED <<token, accepted, stored, static>>

\* Fault: requests are served while onModuleInit is still running.
StartCallUnbooted(r) ==
  /\ At(r, "idle")
  /\ Become(r, [Started EXCEPT !.pc = IF cached = NoToken THEN "find" ELSE "call"])
  /\ UNCHANGED <<token, accepted, stored, static>>

\* preCheckValidAuthConfig, before a DocuSign call.
StartCall(r) ==
  /\ booted /\ At(r, "idle")
  /\ Become(r, [Started EXCEPT !.pc = CASE cached = NoToken -> "find"
                                        [] cached # NoToken /\ token[cached] = "fresh" -> "call"
                                        [] OTHER -> "token"])
  /\ UNCHANGED <<token, accepted, stored, static>>

\* Nothing was cached: the integration is read; without a token the call is refused.
Find(r) ==
  /\ At(r, "find")
  /\ IF stored = NoToken
     THEN Finish(r) /\ UNCHANGED <<cached, header>>
     ELSE Adopt(r, req[r])
  /\ UNCHANGED <<token, accepted, stored, account, headers>>

\* addDocusignAccessTokenAfterConsent, once it has found the integration.
StartConsent(r) ==
  /\ booted /\ At(r, "idle")
  /\ Become(r, [Started EXCEPT !.pc = "token", !.goal = "consent"])
  /\ UNCHANGED <<token, accepted, stored, static>>

\* requestJWTUserToken answers.
RequestToken(r) ==
  /\ At(r, "token")
  /\ \E t \in Token :
       /\ token[t] = "unissued"
       /\ token' = [token EXCEPT ![t] = "fresh"]
       /\ Become(r, [req[r] EXCEPT !.pc = "update", !.t = t])
  /\ UNCHANGED <<accepted, stored, static>>

\* Fault: the token is stored before DocuSign was asked about it.
UpdateAccessTokenFirst(r) ==
  /\ At(r, "update")
  /\ cached' = req[r].t
  /\ stored' = req[r].t
  /\ SetAuthConfig(r, req[r].t, req[r])
  /\ UNCHANGED <<token, accepted, account, headers>>

\* updateAccessToken has read the integration: updateJwtAuthConfig.
UpdateAccessToken(r) ==
  /\ At(r, "update")
  /\ cached' = req[r].t
  /\ SetAuthConfig(r, req[r].t, [req[r] EXCEPT !.save = TRUE])
  /\ UNCHANGED <<token, accepted, stored, account, headers>>

\* getUserInfo answers: the rest of setAuthConfig, which takes the token for
\* _headers from the cache as it is by now.
UserInfo(r) ==
  /\ At(r, "userInfo")
  /\ accepted' = accepted \cup {req[r].t}
  /\ account' = TRUE
  /\ headers' = cached
  /\ IF req[r].save THEN Become(r, [req[r] EXCEPT !.pc = "save"]) ELSE Proceed(r)
  /\ UNCHANGED <<token, stored, cached, header>>

\* The rest of updateAccessToken; setAuthConfig again where its caller asks for it.
Save(r) ==
  /\ At(r, "save")
  /\ stored' = req[r].t
  /\ IF req[r].init
     THEN SetAuthConfig(r, cached, [req[r] EXCEPT !.save = FALSE, !.init = FALSE])
     ELSE Proceed(r) /\ UNCHANGED header
  /\ UNCHANGED <<token, accepted, cached, account, headers>>

\* The DocuSign calls of the decorated method.
Call(r) == At(r, "call") /\ Finish(r) /\ UNCHANGED <<token, accepted, stored, static>>

\* DocuSign refuses: the exception ends the handler; onModuleInit swallows it.
Refuse(r) ==
  /\ Failures /\ req[r].pc \in {"token", "userInfo"}
  /\ Finish(r)
  /\ UNCHANGED <<token, accepted, stored, static>>

\* addDocusignIntegration for a known type: the token is unset, the cache is kept.
AddCredentials ==
  /\ booted /\ stored # NoToken
  /\ stored' = NoToken
  /\ UNCHANGED <<token, accepted, static, req, booted>>

\* Another process has refreshed the token.
Elsewhere ==
  /\ \E t \in Token :
       /\ token[t] = "unissued"
       /\ token' = [token EXCEPT ![t] = "fresh"]
       /\ accepted' = accepted \cup {t}
       /\ stored' = t
  /\ UNCHANGED <<static, req, booted>>

\* The process dies: its static maps and its requests are lost.
Restart ==
  /\ booted
  /\ cached' = NoToken /\ header' = NoToken /\ account' = FALSE /\ headers' = NoToken
  /\ req' = [r \in Request |-> Idle]
  /\ booted' = FALSE
  /\ UNCHANGED <<token, accepted, stored>>

\* Time passes.  A handler that began before t was due ends before t expires.
Due(t) ==
  /\ token[t] = "fresh"
  /\ token' = [token EXCEPT ![t] = "due"]
  /\ UNCHANGED <<accepted, stored, static, req, booted>>

Expire(t) ==
  /\ token[t] = "due"
  /\ \A r \in Request : At(r, "idle") \/ t \in req[r].old
  /\ token' = [token EXCEPT ![t] = "expired"]
  /\ UNCHANGED <<accepted, stored, static, req, booted>>

Step ==
  \/ \E r \in Request :
       \/ Boot(r) \/ StartCall(r) \/ Find(r) \/ StartConsent(r)
       \/ RequestToken(r) \/ UpdateAccessToken(r) \/ UserInfo(r) \/ Save(r)
       \/ Call(r)
  \/ AddCredentials \/ Elsewhere \/ Restart
  \/ \E t \in Token : Due(t) \/ Expire(t)

Next == Step \/ \E r \in Request : Refuse(r)

Spec == Init /\ [][Next]_vars

----------------------------------------------------------------------------

Issued == {t \in Token : token[t] # "unissued"}
Handler == [pc : {"idle", "find", "token", "update", "userInfo", "save", "call"},
            goal : {"call", "consent", "boot"}, t : Token \cup {NoToken},
            save : BOOLEAN, init : BOOLEAN, old : SUBSET Token]

\* Only tokens DocuSign has issued are cached, stored or in a header, and before the
\* process is booted only the handler that boots it is under way.
TypeOK ==
  /\ token \in [Token -> {"unissued", "fresh", "due", "expired"}]
  /\ accepted \subseteq Issued
  /\ {stored, cached, header, headers} \subseteq Issued \cup {NoToken}
  /\ account \in BOOLEAN /\ booted \in BOOLEAN
  /\ req \in [Request -> Handler]
  /\ ~booted => \A r \in Request : At(r, "idle") \/ req[r].goal = "boot"

\* Neither the api client's header nor _headers holds an expired token when a
\* DocuSign call is made (the refresh 15 minutes ahead of the expiry).
CallHasLiveToken ==
  \A r \in Request : At(r, "call") =>
    \A t \in {header, headers} \ {NoToken} : token[t] # "expired"

\* When a DocuSign call is made, the account, the envelope api and both headers
\* are set, and neither header holds an expired token.
CallIsAuthorised ==
  CallHasLiveToken /\ \A r \in Request : At(r, "call") =>
    account /\ NoToken \notin {header, headers}

\* A token reaches MongoDB, where every process takes it from, only after DocuSign
\* has accepted it, even when getUserInfo fails or two handlers refresh at once.
StoredTokenWasAccepted == stored # NoToken => stored \in accepted

\* What makes TypeOK and StoredTokenWasAccepted inductive: the token a handler was
\* granted or asks about is issued; while it is asked about, or about to be stored,
\* some token is cached; it is stored only when it was accepted.
HandlerTokens ==
  \A r \in Request :
    /\ req[r].pc \in {"update", "userInfo", "save"} => req[r].t \in Issued
    /\ req[r].pc \in {"userInfo", "save"} => cached # NoToken
    /\ At(r, "save") => req[r].t \in accepted

=============================================================================
