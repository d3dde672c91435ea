-------------------------- MODULE DocusignAuthProofs --------------------------
(***************************************************************************)
(* Theorems about DocusignAuth, for any number of tokens and of concurrent *)
(* requests, whether or not DocuSign refuses calls; and about its monitor: *)
(* what requests that come one at a time can rely on.                      *)
(***************************************************************************)
EXTENDS MCDocusignAuthMonitored, TLAPS

IInv == TypeOK /\ HandlerTokens /\ StoredTokenWasAccepted

LEMMA IdleType == Idle \in Handler
  BY DEF Idle, Handler

LEMMA InvInit == Init => IInv
<1> SUFFICES ASSUME Init PROVE IInv
  OBVIOUS
<1>1. TypeOK
  BY IdleType DEF Init, TypeOK, Idle, At, Issued
<1>2. HandlerTokens /\ StoredTokenWasAccepted
  BY DEF Init, HandlerTokens, StoredTokenWasAccepted, Idle, At
<1> QED BY <1>1, <1>2 DEF IInv

\* No token is number NoToken.
LEMMA NoTokenIsNone == NoToken \notin Token
  BY DocusignAuthAssumption DEF NoToken, Token

\* What a handler may become: a well-typed record whose token, if it is in use, is
\* issued, and accepted if it is about to be stored.
Sound(rec) ==
  /\ rec \in Handler
  /\ rec.pc \in {"update", "userInfo", "save"} => rec.t \in Issued'
  /\ rec.pc \in {"userInfo", "save"} => cached' # NoToken
  /\ rec.pc = "save" => rec.t \in accepted'

\* Tokens are never taken back, nor is an acceptance, nor is the cache emptied.
Grows ==
  /\ Issued \subseteq Issued'
  /\ accepted \subseteq accepted'
  /\ cached # NoToken => cached' # NoToken

\* The part of the invariant about the handlers, when one of them moves.
LEMMA HandlerStep ==
  ASSUME IInv, Grows, NEW r \in Request, NEW rec, Sound(rec),
         req' = [req EXCEPT ![r] = rec]
  PROVE  req' \in [Request -> Handler] /\ HandlerTokens'
<1>1. req' \in [Request -> Handler]
  BY DEF IInv, TypeOK, Sound
<1>2. ASSUME NEW o \in Request PROVE Sound(req'[o])
  <2>1. CASE o = r
    BY <2>1 DEF IInv, TypeOK
  <2>2. CASE o # r
    BY <2>2 DEF IInv, TypeOK, HandlerTokens, Sound, Grows, At
  <2> QED BY <2>1, <2>2
<1> QED BY <1>1, <1>2 DEF Sound, HandlerTokens, At

LEMMA IdleIsSound == Sound(Idle)
  BY DEF Sound, Idle, Handler

LEMMA StartedIsSound ==
  ASSUME NEW pc \in {"find", "token", "call"}, NEW goal \in {"call", "consent", "boot"}
  PROVE  Sound([Started EXCEPT !.pc = pc, !.goal = goal])
  BY DEF Sound, Started, Idle, Handler

----------------------------------------------------------------------------

\* What a step of a handler has to show for the invariant: the tokens it leaves in
\* the caches, and the record it becomes.
LEMMA StepByHandler ==
  ASSUME IInv, Grows, NEW r \in Request, NEW rec, Sound(rec),
         req' = [req EXCEPT ![r] = rec],
         token' \in [Token -> {"unissued", "fresh", "due", "expired"}],
         accepted' \subseteq Issued',
         {stored', cached', header', headers'} \subseteq Issued' \cup {NoToken},
         account' \in BOOLEAN,
         stored' # NoToken => stored' \in accepted',
         booted' \in BOOLEAN, booted' \/ (~booted /\ rec.goal = "boot")
  PROVE  IInv'
<1>1. req' \in [Request -> Handler] /\ HandlerTokens'
  BY HandlerStep
<1>2. ASSUME ~booted', NEW o \in Request PROVE At(o, "idle")' \/ req'[o].goal = "boot"
  BY <1>2 DEF IInv, TypeOK, At
<1>3. TypeOK'
  BY <1>1, <1>2 DEF TypeOK
<1> QED BY <1>1, <1>3 DEF IInv, StoredTokenWasAccepted

\* A handler that ends.
LEMMA StepByFinish ==
  ASSUME IInv, NEW r \in Request, Finish(r), UNCHANGED <<token, accepted, stored, static>>
  PROVE  IInv'
<1>1. Grows
  BY DEF Grows, static, Issued
<1> QED BY <1>1, IdleIsSound, StepByHandler
           DEF Finish, IInv, TypeOK, StoredTokenWasAccepted, static, Issued

\* setAuthConfig asks about an issued token while one is cached.
LEMMA SetIsSound ==
  ASSUME NEW rec \in Handler, NEW t \in Issued', cached' # NoToken
  PROVE  Sound([rec EXCEPT !.pc = "userInfo", !.t = t])
  BY DEF Sound, Handler, Issued

LEMMA BootStep == ASSUME IInv, NEW r \in Request, Boot(r) PROVE IInv'
<1>1. CASE stored = NoToken
  <2>1. Finish(r) /\ UNCHANGED <<token, accepted, stored, static>>
    BY <1>1 DEF Boot, static
  <2> QED BY <2>1, StepByFinish
<1>2. CASE stored # NoToken
  <2> DEFINE rec == [Started EXCEPT !.goal = "boot"]
  <2>1. rec \in Handler /\ rec.goal = "boot"
    BY DEF Started, Idle, Handler
  <2>2. /\ cached' = stored /\ stored \in Issued /\ Grows /\ Issued' = Issued
        /\ UNCHANGED <<token, accepted, stored, account, headers>>
        /\ ~booted
    BY <1>2 DEF Boot, Adopt, IInv, TypeOK, Grows, Issued
  <2>3. CASE token[stored] = "fresh"
    <3> DEFINE new == [rec EXCEPT !.pc = "userInfo", !.t = stored]
    <3>1. header' = stored /\ req' = [req EXCEPT ![r] = new] /\ UNCHANGED booted
      BY <1>2, <2>3 DEF Boot, Adopt, SetAuthConfig, Become
    <3>2. Sound(new) /\ new.goal = "boot"
      BY <1>2, <2>1, <2>2, SetIsSound DEF Handler
    <3> QED BY <2>2, <3>1, <3>2, StepByHandler DEF IInv, TypeOK, StoredTokenWasAccepted
  <2>4. CASE token[stored] # "fresh"
    <3> DEFINE new == [rec EXCEPT !.pc = "token", !.init = TRUE]
    <3>1. header' = header /\ req' = [req EXCEPT ![r] = new] /\ UNCHANGED booted
      BY <1>2, <2>4 DEF Boot, Adopt, Become
    <3>2. Sound(new) /\ new.goal = "boot"
      BY <2>1 DEF Sound, Handler
    <3> QED BY <2>2, <3>1, <3>2, StepByHandler DEF IInv, TypeOK, StoredTokenWasAccepted
  <2> QED BY <2>3, <2>4
<1> QED BY <1>1, <1>2

LEMMA FindStep == ASSUME IInv, NEW r \in Request, Find(r) PROVE IInv'
<1>1. CASE stored = NoToken
  <2>1. Finish(r) /\ UNCHANGED <<token, accepted, stored, static>>
    BY <1>1 DEF Find, static
  <2> QED BY <2>1, StepByFinish
<1>2. CASE stored # NoToken
  <2>1. req[r] \in Handler /\ (booted \/ req[r].goal = "boot")
    BY DEF Find, At, IInv, TypeOK
  <2>2. /\ cached' = stored /\ stored \in Issued /\ Grows /\ Issued' = Issued
        /\ UNCHANGED <<token, accepted, stored, account, headers>>
    BY <1>2 DEF Find, Adopt, IInv, TypeOK, Grows, Issued
  <2>3. CASE token[stored] = "fresh"
    <3> DEFINE new == [req[r] EXCEPT !.pc = "userInfo", !.t = stored]
    <3>1. header' = stored /\ req' = [req EXCEPT ![r] = new] /\ UNCHANGED booted
      BY <1>2, <2>3 DEF Find, Adopt, SetAuthConfig, Become
    <3>2. Sound(new) /\ new.goal = req[r].goal
      BY <1>2, <2>1, <2>2, SetIsSound DEF Handler
    <3> QED BY <2>1, <2>2, <3>1, <3>2, StepByHandler DEF IInv, TypeOK, StoredTokenWasAccepted
  <2>4. CASE token[stored] # "fresh"
    <3> DEFINE new == [req[r] EXCEPT !.pc = "token", !.init = TRUE]
    <3>1. header' = header /\ req' = [req EXCEPT ![r] = new] /\ UNCHANGED booted
      BY <1>2, <2>4 DEF Find, Adopt, Become
    <3>2. Sound(new) /\ new.goal = req[r].goal
      BY <2>1 DEF Sound, Handler
    <3> QED BY <2>1, <2>2, <3>1, <3>2, StepByHandler DEF IInv, TypeOK, StoredTokenWasAccepted
  <2> QED BY <2>3, <2>4
<1> QED BY <1>1, <1>2

\* A handler that only moves, the caches and MongoDB unchanged.
LEMMA StepByMove ==
  ASSUME IInv, NEW r \in Request, NEW rec, Sound(rec), Become(r, rec),
         UNCHANGED <<token, accepted, stored, static>>, booted \/ rec.goal = "boot"
  PROVE  IInv'
<1>1. Grows
  BY DEF Grows, static, Issued
<1> QED BY <1>1, StepByHandler DEF Become, IInv, TypeOK, StoredTokenWasAccepted, static, Issued

LEMMA StartStep ==
  ASSUME IInv, NEW r \in Request, StartCall(r) \/ StartConsent(r)
  PROVE  IInv'
<1>1. CASE StartCall(r)
  <2> DEFINE pc == CASE cached = NoToken -> "find"
                     [] cached # NoToken /\ token[cached] = "fresh" -> "call"
                     [] OTHER -> "token"
             rec == [Started EXCEPT !.pc = pc]
  <2>1. pc \in {"find", "token", "call"}
    OBVIOUS
  <2>2. Sound(rec)
    BY <2>1 DEF Sound, Started, Idle, Handler
  <2>3. Become(r, rec) /\ UNCHANGED <<token, accepted, stored, static>> /\ booted
    BY <1>1 DEF StartCall
  <2> QED BY <2>2, <2>3, StepByMove
<1>2. CASE StartConsent(r)
  <2>1. Sound([Started EXCEPT !.pc = "token", !.goal = "consent"])
    BY StartedIsSound
  <2> QED BY <1>2, <2>1, StepByMove DEF StartConsent
<1> QED BY <1>1, <1>2

LEMMA RequestTokenStep == ASSUME IInv, NEW r \in Request, RequestToken(r) PROVE IInv'
<1>1. PICK t \in Token : /\ token[t] = "unissued"
                          /\ token' = [token EXCEPT ![t] = "fresh"]
                          /\ Become(r, [req[r] EXCEPT !.pc = "update", !.t = t])
  BY DEF RequestToken
<1> DEFINE rec == [req[r] EXCEPT !.pc = "update", !.t = t]
<1>2. /\ token' \in [Token -> {"unissued", "fresh", "due", "expired"}]
      /\ t \in Issued' /\ Issued \subseteq Issued' /\ Grows
      /\ UNCHANGED <<accepted, stored, cached, header, account, headers>>
  BY <1>1 DEF RequestToken, IInv, TypeOK, Issued, Grows, static
<1>3. Sound(rec) /\ (booted \/ rec.goal = "boot")
  BY <1>2 DEF Sound, IInv, TypeOK, Handler, RequestToken, At
<1> QED BY <1>1, <1>2, <1>3, StepByHandler DEF Become, IInv, TypeOK, StoredTokenWasAccepted

LEMMA UpdateStep == ASSUME IInv, NEW r \in Request, UpdateAccessToken(r) PROVE IInv'
<1> DEFINE t == req[r].t
           rec == [req[r] EXCEPT !.save = TRUE]
           new == [rec EXCEPT !.pc = "userInfo", !.t = t]
<1>1. rec \in Handler /\ (booted \/ new.goal = "boot")
  BY DEF UpdateAccessToken, IInv, TypeOK, At, Handler
<1>2. /\ t \in Issued /\ Issued' = Issued /\ cached' = t /\ header' = t
      /\ UNCHANGED <<token, accepted, stored, account, headers, booted>>
      /\ req' = [req EXCEPT ![r] = new]
  BY DEF UpdateAccessToken, SetAuthConfig, Become, IInv, HandlerTokens, At, Issued
<1>3. t # NoToken /\ Grows
  BY <1>2, NoTokenIsNone DEF Grows, Issued
<1>4. Sound(new)
  BY <1>1, <1>2, <1>3, SetIsSound
<1> QED BY <1>1, <1>2, <1>3, <1>4, StepByHandler DEF IInv, TypeOK, StoredTokenWasAccepted

\* On to the DocuSign call, or the end.
LEMMA ProceedIsSound ==
  ASSUME IInv, NEW r \in Request, ~At(r, "idle"), Proceed(r)
  PROVE  \E rec \in Handler : /\ req' = [req EXCEPT ![r] = rec] /\ Sound(rec)
                              /\ booted' \in BOOLEAN
                              /\ booted' \/ (~booted /\ rec.goal = "boot")
<1>1. CASE req[r].goal = "call"
  <2>1. booted /\ Become(r, [req[r] EXCEPT !.pc = "call"])
    BY <1>1 DEF IInv, TypeOK, Proceed
  <2>2. Sound([req[r] EXCEPT !.pc = "call"])
    BY DEF IInv, TypeOK, Sound, Handler
  <2> QED BY <2>1, <2>2 DEF Become, Sound
<1>2. CASE req[r].goal # "call"
  BY <1>2, IdleIsSound, IdleType DEF Proceed, Finish
<1> QED BY <1>1, <1>2

LEMMA UserInfoStep == ASSUME IInv, NEW r \in Request, UserInfo(r) PROVE IInv'
<1>1. /\ req[r].t \in Issued /\ Issued' = Issued /\ accepted' = accepted \cup {req[r].t}
      /\ account' = TRUE /\ headers' = cached /\ Grows
      /\ UNCHANGED <<token, stored, cached, header>>
  BY DEF UserInfo, IInv, HandlerTokens, At, Issued, Grows
<1>2. PICK rec \in Handler : /\ req' = [req EXCEPT ![r] = rec] /\ Sound(rec)
                             /\ booted' \in BOOLEAN
                             /\ booted' \/ (~booted /\ rec.goal = "boot")
  <2>1. CASE req[r].save
    <3> DEFINE rec == [req[r] EXCEPT !.pc = "save"]
    <3>1. Become(r, rec) /\ rec \in Handler
      BY <2>1 DEF UserInfo, IInv, TypeOK, Handler
    <3>2. Sound(rec)
      BY <1>1, <3>1 DEF Sound, Handler, IInv, TypeOK, HandlerTokens, UserInfo, At
    <3>3. booted \/ rec.goal = "boot"
      BY DEF UserInfo, At, IInv, TypeOK, Handler
    <3> QED BY <3>1, <3>2, <3>3 DEF Become, IInv, TypeOK
  <2>2. CASE ~req[r].save
    BY <2>2, ProceedIsSound DEF UserInfo, At
  <2> QED BY <2>1, <2>2
<1> QED BY <1>1, <1>2, StepByHandler DEF IInv, TypeOK, StoredTokenWasAccepted

LEMMA SaveStep == ASSUME IInv, NEW r \in Request, Save(r) PROVE IInv'
<1>1. /\ req[r].t \in accepted /\ req[r].t \in Issued /\ Issued' = Issued
      /\ stored' = req[r].t /\ cached \in Issued /\ cached # NoToken /\ Grows
      /\ UNCHANGED <<token, accepted, cached, account, headers>>
  BY DEF Save, IInv, TypeOK, HandlerTokens, At, Issued, Grows
<1>2. CASE req[r].init
  <2> DEFINE rec == [req[r] EXCEPT !.save = FALSE, !.init = FALSE]
             new == [rec EXCEPT !.pc = "userInfo", !.t = cached]
  <2>1. rec \in Handler /\ (booted \/ new.goal = "boot")
    BY DEF Save, IInv, TypeOK, At, Handler
  <2>2. header' = cached /\ req' = [req EXCEPT ![r] = new] /\ UNCHANGED booted
    BY <1>2 DEF Save, SetAuthConfig, Become
  <2>3. Sound(new)
    BY <1>1, <2>1, SetIsSound
  <2> QED BY <1>1, <2>1, <2>2, <2>3, StepByHandler DEF IInv, TypeOK
<1>3. CASE ~req[r].init
  <2>1. UNCHANGED header
    BY <1>3 DEF Save
  <2>2. PICK rec \in Handler : /\ req' = [req EXCEPT ![r] = rec] /\ Sound(rec)
                               /\ booted' \in BOOLEAN
                               /\ booted' \/ (~booted /\ rec.goal = "boot")
    BY <1>3, ProceedIsSound DEF Save, At
  <2> QED BY <1>1, <2>1, <2>2, StepByHandler DEF IInv, TypeOK
<1> QED BY <1>2, <1>3

\* Everything that happens outside the handlers of this process.
LEMMA OutsideStep ==
  ASSUME IInv, AddCredentials \/ Elsewhere \/ Restart \/ \E t \in Token : Due(t) \/ Expire(t)
  PROVE  IInv'
<1>1. CASE AddCredentials
  BY <1>1 DEF AddCredentials, static, IInv, TypeOK, HandlerTokens, StoredTokenWasAccepted, At, Issued
<1>2. CASE Elsewhere
  <2>1. PICK t \in Token : /\ token[t] = "unissued"
                           /\ token' = [token EXCEPT ![t] = "fresh"]
                           /\ accepted' = accepted \cup {t}
                           /\ stored' = t
    BY <1>2 DEF Elsewhere
  <2>2. /\ token' \in [Token -> {"unissued", "fresh", "due", "expired"}]
        /\ t \in Issued' /\ Issued \subseteq Issued'
        /\ UNCHANGED <<cached, header, account, headers, req, booted>>
    BY <1>2, <2>1 DEF Elsewhere, static, IInv, TypeOK, Issued
  <2> QED BY <2>1, <2>2 DEF IInv, TypeOK, HandlerTokens, StoredTokenWasAccepted, At
<1>3. CASE Restart
  BY <1>3, IdleType DEF Restart, IInv, TypeOK, HandlerTokens, StoredTokenWasAccepted, At, Idle, Issued
<1>4. ASSUME NEW t \in Token, Due(t) \/ Expire(t) PROVE IInv'
  <2>1. /\ token' \in [Token -> {"unissued", "fresh", "due", "expired"}]
        /\ Issued' = Issued
        /\ UNCHANGED <<accepted, stored, cached, header, account, headers, req, booted>>
    BY <1>4 DEF Due, Expire, static, IInv, TypeOK, Issued
  <2> QED BY <2>1 DEF IInv, TypeOK, HandlerTokens, StoredTokenWasAccepted, At
<1> QED BY <1>1, <1>2, <1>3, <1>4

LEMMA InvStep == ASSUME IInv, [Next]_vars PROVE IInv'
<1>1. ASSUME NEW r \in Request, Call(r) \/ Refuse(r) PROVE IInv'
  BY <1>1, StepByFinish DEF Call, Refuse
<1>2. CASE UNCHANGED vars
  BY <1>2 DEF vars, static, IInv, TypeOK, HandlerTokens, StoredTokenWasAccepted, At, Issued
<1> QED
  BY <1>1, <1>2, BootStep, FindStep, StartStep, RequestTokenStep, UpdateStep, UserInfoStep,
     SaveStep, OutsideStep DEF Next, Step

\* Only issued tokens reach the caches and MongoDB, whatever handlers race.
THEOREM TypeCorrect == Spec => []TypeOK
<1>1. IInv => TypeOK
  BY DEF IInv
<1> QED BY <1>1, InvInit, InvStep, PTL DEF Spec

\* With any number of requests refreshing at once, refused calls and restarts, a token
\* is stored for the other processes only after DocuSign accepted it.
THEOREM StoredIsAccepted == Spec => []StoredTokenWasAccepted
<1>1. IInv => StoredTokenWasAccepted
  BY DEF IInv
<1> QED BY <1>1, InvInit, InvStep, PTL DEF Spec

(***************************************************************************)
(* Requests one at a time, and a DocuSign that accepts: the static maps    *)
(* agree with each other between the requests, and the token a handler is  *)
(* about to use was not yet due when the handler began, so that it does    *)
(* not expire before the handler ends.                                     *)
(***************************************************************************)
InPlace == cached # NoToken /\ account /\ header = cached /\ headers = cached

AtRest == cached = NoToken \/ InPlace

Lasts(h, t) == t \in Token /\ t \notin h.old /\ token[t] # "expired"

\* What holds of a handler h that is under way alone.
Alone(h) ==
  /\ \A t \in h.old : token[t] \in {"due", "expired"}
  /\ h.pc = "find" => AtRest
  /\ h.pc \in {"update", "userInfo", "save"} => Lasts(h, h.t)
  /\ h.pc \in {"userInfo", "save"} => cached = h.t /\ header = h.t
  /\ h.pc \in {"save", "call"} => InPlace
  /\ h.pc = "call" => Lasts(h, cached)

Whole ==
  /\ (\A r \in Request : At(r, "idle")) => AtRest
  /\ \A r \in Request : ~At(r, "idle") => Alone(req[r])

MonitoredInv ==
  /\ IInv
  /\ disturbed \in BOOLEAN
  /\ ~disturbed => ~Overlap /\ Whole

\* The same for a handler, the others being idle.
Solo(r) == (At(r, "idle") => AtRest) /\ (~At(r, "idle") => Alone(req[r]))

OthersIdle(r) == \A s \in Request : s # r => At(s, "idle")

LEMMA WholeAlone == ASSUME Whole, NEW r \in Request, OthersIdle(r) PROVE Solo(r)
BY DEF Whole, Solo, OthersIdle

LEMMA AloneWhole == ASSUME NEW r \in Request, Solo(r)', OthersIdle(r)' PROVE Whole'
<1>1. (\A s \in Request : At(s, "idle"))' => AtRest'
  BY DEF Solo
<1>2. ASSUME NEW s \in Request, ~At(s, "idle")' PROVE Alone(req[s])'
  BY <1>2 DEF Solo, OthersIdle
<1> QED BY <1>1, <1>2 DEF Whole

\* A handler that ends leaves the static maps as it found them.
LEMMA FinishSolo ==
  ASSUME IInv, NEW r \in Request, Finish(r), UNCHANGED static, AtRest PROVE Solo(r)'
<1>1. At(r, "idle")'
  BY DEF Finish, IInv, TypeOK, At, Idle
<1>2. AtRest'
  BY DEF AtRest, InPlace, static
<1> QED BY <1>1, <1>2 DEF Solo

\* The tokens that are due when a handler begins.
LEMMA StartedFacts ==
  /\ Started \in Handler /\ Started.init = FALSE /\ Started.save = FALSE
  /\ Started.old = {t \in Token : token[t] \in {"due", "expired"}}
BY DEF Started, Idle, Handler

LEMMA StartCallSolo ==
  ASSUME IInv, NEW r \in Request, Solo(r), StartCall(r) PROVE Solo(r)'
<1> DEFINE pc == CASE cached = NoToken -> "find"
                   [] cached # NoToken /\ token[cached] = "fresh" -> "call"
                   [] OTHER -> "token"
<1>1. /\ AtRest /\ UNCHANGED <<token, cached, header, account, headers>>
      /\ cached # NoToken => cached \in Token
  BY DEF StartCall, Solo, static, IInv, TypeOK, Issued
<1>2. req'[r].pc = pc /\ req'[r].old = {t \in Token : token[t] \in {"due", "expired"}}
  BY StartedFacts DEF StartCall, Become, IInv, TypeOK, Handler
<1>3. Alone(req[r])'
  BY <1>1, <1>2 DEF Alone, Lasts, AtRest, InPlace
<1>4. ~At(r, "idle")'
  BY <1>2 DEF At
<1> QED BY <1>3, <1>4 DEF Solo

LEMMA StartConsentSolo ==
  ASSUME IInv, NEW r \in Request, StartConsent(r) PROVE Solo(r)'
<1>1. /\ req'[r].pc = "token" /\ req'[r].old = {t \in Token : token[t] \in {"due", "expired"}}
      /\ token' = token
  BY StartedFacts DEF StartConsent, Become, IInv, TypeOK, Handler
<1>2. Alone(req[r])'
  BY <1>1 DEF Alone
<1> QED BY <1>1, <1>2 DEF Solo, At

\* A stored token that is adopted is fresh and in the header, or a new one is asked for.
LEMMA AdoptSolo ==
  ASSUME IInv, NEW r \in Request, NEW rec \in Handler, Adopt(r, rec), stored # NoToken,
         \A t \in rec.old : token[t] \in {"due", "expired"}, token' = token
  PROVE  Solo(r)'
<1>1. stored \in Token /\ cached' = stored
  BY DEF Adopt, IInv, TypeOK, Issued
<1>2. CASE token[stored] = "fresh"
  <2>0. req'[r] = [rec EXCEPT !.pc = "userInfo", !.t = stored] /\ header' = stored
    BY <1>2 DEF Adopt, SetAuthConfig, Become, IInv, TypeOK
  <2>1. req'[r].pc = "userInfo" /\ req'[r].t = stored /\ req'[r].old = rec.old
    BY <2>0 DEF Handler
  <2>2. Alone(req[r])'
    BY <1>1, <1>2, <2>0, <2>1 DEF Alone, Lasts
  <2> QED BY <2>1, <2>2 DEF Solo, At
<1>3. CASE token[stored] # "fresh"
  <2>0. req'[r] = [rec EXCEPT !.pc = "token", !.init = TRUE]
    BY <1>3 DEF Adopt, Become, IInv, TypeOK
  <2>1. req'[r].pc = "token" /\ req'[r].old = rec.old
    BY <2>0 DEF Handler
  <2>2. Alone(req[r])'
    BY <2>1 DEF Alone
  <2> QED BY <2>1, <2>2 DEF Solo, At
<1> QED BY <1>2, <1>3

LEMMA BootSolo ==
  ASSUME IInv, NEW r \in Request, Solo(r), Boot(r) PROVE Solo(r)'
<1>1. AtRest
  BY DEF Boot, Solo
<1>2. CASE stored = NoToken
  BY <1>1, <1>2, FinishSolo DEF Boot, static
<1>3. CASE stored # NoToken
  <2> DEFINE rec == [Started EXCEPT !.goal = "boot"]
  <2>1. /\ rec \in Handler /\ \A t \in rec.old : token[t] \in {"due", "expired"}
    BY StartedFacts DEF Handler
  <2>2. Adopt(r, rec) /\ token' = token
    BY <1>3 DEF Boot
  <2> HIDE DEF rec
  <2> QED BY <1>3, <2>1, <2>2, AdoptSolo
<1> QED BY <1>2, <1>3

LEMMA FindSolo ==
  ASSUME IInv, NEW r \in Request, Solo(r), Find(r) PROVE Solo(r)'
<1>1. Alone(req[r]) /\ AtRest /\ req[r] \in Handler
  BY DEF Find, Solo, At, Alone, IInv, TypeOK
<1>2. CASE stored = NoToken
  BY <1>1, <1>2, FinishSolo DEF Find, static
<1>3. CASE stored # NoToken
  <2>1. Adopt(r, req[r]) /\ token' = token
    BY <1>3 DEF Find
  <2> QED BY <1>1, <1>3, <2>1, AdoptSolo DEF Alone
<1> QED BY <1>2, <1>3

LEMMA RequestTokenSolo ==
  ASSUME IInv, NEW r \in Request, Solo(r), RequestToken(r) PROVE Solo(r)'
<1>1. Alone(req[r]) /\ req[r] \in Handler
  BY DEF RequestToken, Solo, At, IInv, TypeOK
<1>2. PICK t \in Token : /\ token[t] = "unissued"
                         /\ token' = [token EXCEPT ![t] = "fresh"]
                         /\ Become(r, [req[r] EXCEPT !.pc = "update", !.t = t])
  BY DEF RequestToken
<1>3. req'[r].pc = "update" /\ req'[r].t = t /\ req'[r].old = req[r].old
  BY <1>1, <1>2 DEF Become, IInv, TypeOK, Handler
<1>4. t \notin req[r].old /\ \A u \in req[r].old : token'[u] \in {"due", "expired"}
  BY <1>1, <1>2 DEF Alone, IInv, TypeOK, Handler
<1>5. token'[t] = "fresh"
  BY <1>2 DEF IInv, TypeOK
<1>6. Alone(req[r])'
  BY <1>3, <1>4, <1>5 DEF Alone, Lasts
<1> QED BY <1>3, <1>6 DEF Solo, At

LEMMA UpdateAccessTokenSolo ==
  ASSUME IInv, NEW r \in Request, Solo(r), UpdateAccessToken(r) PROVE Solo(r)'
<1>1. Alone(req[r]) /\ req[r].pc = "update" /\ token' = token
  BY DEF UpdateAccessToken, Solo, At
<1>2. /\ req'[r].pc = "userInfo" /\ req'[r].t = req[r].t /\ req'[r].old = req[r].old
      /\ cached' = req[r].t /\ header' = req[r].t
  BY DEF UpdateAccessToken, SetAuthConfig, Become, IInv, TypeOK, Handler
<1>3. Alone(req[r])'
  BY <1>1, <1>2 DEF Alone, Lasts
<1> QED BY <1>2, <1>3 DEF Solo, At

\* With everything in place a handler goes on to its call, or ends.
LEMMA ProceedSolo ==
  ASSUME IInv, NEW r \in Request, Proceed(r), InPlace', token' = token,
         \A t \in req[r].old : token[t] \in {"due", "expired"},
         cached' \in Token, cached' \notin req[r].old, token[cached'] # "expired"
  PROVE  Solo(r)'
<1>1. CASE req[r].goal = "call"
  <2>1. req'[r].pc = "call" /\ req'[r].old = req[r].old
    BY <1>1 DEF Proceed, Become, IInv, TypeOK, Handler
  <2>2. Alone(req[r])'
    BY <2>1 DEF Alone, Lasts
  <2> QED BY <2>1, <2>2 DEF Solo, At
<1>2. CASE req[r].goal # "call"
  <2>1. At(r, "idle")'
    BY <1>2 DEF Proceed, Finish, IInv, TypeOK, At, Idle
  <2> QED BY <2>1 DEF Solo, AtRest
<1> QED BY <1>1, <1>2

LEMMA UserInfoSolo ==
  ASSUME IInv, NEW r \in Request, Solo(r), UserInfo(r) PROVE Solo(r)'
<1>1. Alone(req[r]) /\ req[r].pc = "userInfo"
  BY DEF UserInfo, Solo, At
<1>2. /\ cached = req[r].t /\ header = req[r].t /\ req[r].t \in Token
      /\ req[r].t \notin req[r].old /\ token[req[r].t] # "expired"
      /\ UNCHANGED <<token, cached, header>> /\ account' = TRUE /\ headers' = cached
  BY <1>1 DEF UserInfo, Alone, Lasts
<1>3. InPlace'
  BY <1>2, NoTokenIsNone DEF InPlace
<1>4. CASE req[r].save
  <2>1. req'[r].pc = "save" /\ req'[r].t = req[r].t /\ req'[r].old = req[r].old
    BY <1>4 DEF UserInfo, Become, IInv, TypeOK, Handler
  <2>2. Alone(req[r])'
    BY <1>1, <1>2, <1>3, <2>1 DEF Alone, Lasts
  <2> QED BY <2>1, <2>2 DEF Solo, At
<1>5. CASE ~req[r].save
  BY <1>1, <1>2, <1>3, <1>5, ProceedSolo DEF UserInfo, Alone
<1> QED BY <1>4, <1>5

LEMMA SaveSolo ==
  ASSUME IInv, NEW r \in Request, Solo(r), Save(r) PROVE Solo(r)'
<1>1. Alone(req[r]) /\ req[r].pc = "save"
  BY DEF Save, Solo, At
<1>2. /\ cached = req[r].t /\ header = req[r].t /\ req[r].t \in Token /\ InPlace
      /\ req[r].t \notin req[r].old /\ token[req[r].t] # "expired"
      /\ UNCHANGED <<token, cached, account, headers>>
  BY <1>1 DEF Save, Alone, Lasts
<1>3. CASE req[r].init
  <2>1. /\ req'[r].pc = "userInfo" /\ req'[r].t = cached /\ req'[r].old = req[r].old
        /\ header' = cached
    BY <1>3 DEF Save, SetAuthConfig, Become, IInv, TypeOK, Handler
  <2>2. Alone(req[r])'
    BY <1>1, <1>2, <2>1 DEF Alone, Lasts
  <2> QED BY <2>1, <2>2 DEF Solo, At
<1>4. CASE ~req[r].init
  <2>1. Proceed(r) /\ UNCHANGED header
    BY <1>4 DEF Save
  <2>2. InPlace'
    BY <1>2, <2>1 DEF InPlace
  <2> QED BY <1>1, <1>2, <2>1, <2>2, ProceedSolo DEF Alone
<1> QED BY <1>3, <1>4

LEMMA CallSolo ==
  ASSUME IInv, NEW r \in Request, Solo(r), Call(r) PROVE Solo(r)'
<1>1. AtRest
  BY DEF Call, Solo, At, Alone, AtRest
<1> QED BY <1>1, FinishSolo DEF Call

(***************************************************************************)
(* Steps that no handler takes, and that may come beside one.              *)
(***************************************************************************)
LEMMA OutsideWhole ==
  ASSUME IInv, Whole,
         AddCredentials \/ Elsewhere \/ Restart \/ \E t \in Token : Due(t) \/ Expire(t)
  PROVE  Whole'
<1>1. CASE Restart
  <2>1. \A r \in Request : At(r, "idle")'
    BY <1>1 DEF Restart, At, Idle
  <2>2. AtRest'
    BY <1>1 DEF Restart, AtRest
  <2> QED BY <2>1, <2>2 DEF Whole
<1>2. CASE AddCredentials \/ Elsewhere \/ \E t \in Token : Due(t) \/ Expire(t)
  <2>1. UNCHANGED <<cached, header, account, headers, req>>
    BY <1>2 DEF AddCredentials, Elsewhere, Due, Expire, static
  <2>2. AtRest <=> AtRest'
    BY <2>1 DEF AtRest, InPlace
  <2>3. \A t \in Token : token[t] \in {"due", "expired"} => token'[t] \in {"due", "expired"}
    BY <1>2 DEF AddCredentials, Elsewhere, Due, Expire, IInv, TypeOK
  <2>4. \A r \in Request, t \in Token :
          ~At(r, "idle") /\ t \notin req[r].old /\ token[t] # "expired" => token'[t] # "expired"
    BY <1>2 DEF AddCredentials, Elsewhere, Due, Expire, IInv, TypeOK
  <2>5. ASSUME NEW r \in Request, ~At(r, "idle") PROVE Alone(req[r])'
    <3>1. Alone(req[r]) /\ req[r].old \subseteq Token
      BY <2>5 DEF Whole, IInv, TypeOK, Handler
    <3>2. \A t \in Token : Lasts(req[r], t) => t \notin req'[r].old /\ token'[t] # "expired"
      BY <2>1, <2>4, <2>5 DEF Lasts
    <3> QED BY <2>1, <2>2, <2>3, <3>1, <3>2 DEF Alone, Lasts, InPlace
  <2> QED BY <2>1, <2>2, <2>5 DEF Whole, At
<1> QED BY <1>1, <1>2

(***************************************************************************)
(* The whole.                                                              *)
(***************************************************************************)
HandlerMoves(r) ==
  \/ Boot(r) \/ StartCall(r) \/ Find(r) \/ StartConsent(r)
  \/ RequestToken(r) \/ UpdateAccessToken(r) \/ UserInfo(r) \/ Save(r) \/ Call(r)

LEMMA HandlerSolo ==
  ASSUME IInv, NEW r \in Request, Solo(r), HandlerMoves(r) PROVE Solo(r)'
BY BootSolo, StartCallSolo, FindSolo, StartConsentSolo, RequestTokenSolo, UpdateAccessTokenSolo,
   UserInfoSolo, SaveSolo, CallSolo DEF HandlerMoves

\* A step of one handler leaves the others as they are.
LEMMA OthersStay ==
  ASSUME IInv, NEW r \in Request, HandlerMoves(r)
  PROVE  \A s \in Request : s # r => req'[s] = req[s]
<1>1. \A h : req' = [req EXCEPT ![r] = h] => \A s \in Request : s # r => req'[s] = req[s]
  BY DEF IInv, TypeOK
<1> QED
  BY <1>1 DEF HandlerMoves, Boot, Adopt, StartCall, Find, StartConsent, RequestToken,
              UpdateAccessToken, SetAuthConfig, UserInfo, Save, Call, Proceed, Become, Finish

\* Where no two handlers overlap, the one that takes a step is alone.
LEMMA MovesAlone ==
  ASSUME IInv, NEW r \in Request, HandlerMoves(r), ~Overlap, ~Overlap'
  PROVE  OthersIdle(r) /\ OthersIdle(r)'
<1>1. OthersIdle(r) => OthersIdle(r)'
  BY OthersStay DEF OthersIdle, At
<1>2. CASE ~At(r, "idle")
  BY <1>1, <1>2 DEF Overlap, OthersIdle
<1>3. CASE Boot(r)
  BY <1>1, <1>3 DEF Boot, OthersIdle
<1>4. CASE StartCall(r) \/ StartConsent(r)
  <2>1. ~At(r, "idle")'
    <3>1. CASE StartCall(r)
      BY <3>1, StartedFacts DEF StartCall, Become, IInv, TypeOK, Handler, At
    <3>2. CASE StartConsent(r)
      BY <3>2, StartedFacts DEF StartConsent, Become, IInv, TypeOK, Handler, At
    <3> QED BY <1>4, <3>1, <3>2
  <2>2. OthersIdle(r)'
    BY <2>1 DEF Overlap, OthersIdle
  <2> QED BY <2>2, OthersStay DEF OthersIdle, At
<1> QED
  BY <1>2, <1>3, <1>4
  DEF HandlerMoves, Find, RequestToken, UpdateAccessToken, UserInfo, Save, Call, At

LEMMA StepWhole ==
  ASSUME IInv, Whole, Step, ~Overlap, ~Overlap' PROVE Whole'
<1>1. ASSUME NEW r \in Request, HandlerMoves(r) PROVE Whole'
  BY <1>1, MovesAlone, WholeAlone, HandlerSolo, AloneWhole
<1> QED BY <1>1, OutsideWhole DEF Step, HandlerMoves

LEMMA MonitoredInitInv == MonitoredInit => MonitoredInv
<1> SUFFICES ASSUME MonitoredInit PROVE MonitoredInv
  OBVIOUS
<1>1. IInv
  BY InvInit DEF MonitoredInit
<1>2. \A r \in Request : At(r, "idle")
  BY DEF MonitoredInit, Init, Idle, At
<1>3. AtRest
  BY DEF MonitoredInit, Init, AtRest
<1> QED BY <1>1, <1>2, <1>3 DEF MonitoredInit, MonitoredInv, Whole, Overlap

LEMMA MonitoredNextInv ==
  ASSUME MonitoredInv, [MonitoredNext]_<<vars, disturbed>> PROVE MonitoredInv'
<1>1. [Next]_vars
  BY DEF MonitoredNext, Next
<1>2. IInv'
  BY <1>1, InvStep DEF MonitoredInv
<1>3. CASE Step /\ disturbed' = (disturbed \/ Overlap')
  <2>1. disturbed' \in BOOLEAN /\ (~disturbed' => ~disturbed /\ ~Overlap')
    BY <1>3 DEF MonitoredInv, Overlap
  <2> QED BY <1>2, <1>3, <2>1, StepWhole DEF MonitoredInv
<1>4. CASE disturbed' = TRUE
  BY <1>2, <1>4 DEF MonitoredInv
<1>5. CASE UNCHANGED <<vars, disturbed>>
  <2>1. disturbed' = disturbed /\ (Overlap' <=> Overlap)
    BY <1>5 DEF Overlap, At, vars
  <2>2. Whole => Whole'
    BY <1>5 DEF Whole, AtRest, InPlace, Alone, Lasts, At, vars, static
  <2> QED BY <1>2, <2>1, <2>2 DEF MonitoredInv
<1> QED BY <1>3, <1>4, <1>5 DEF MonitoredNext

\* As long as requests come one at a time and DocuSign accepts, every DocuSign call is made with
\* the account set and with tokens in both headers that do not expire while it is made.
THEOREM UndisturbedCalls == MonitoredSpec => []UndisturbedCallIsAuthorised
<1>1. MonitoredInv => UndisturbedCallIsAuthorised
  <2> SUFFICES ASSUME MonitoredInv, ~disturbed, NEW r \in Request, At(r, "call")
               PROVE  /\ account /\ NoToken \notin {header, headers}
                      /\ \A t \in {header, headers} \ {NoToken} : token[t] # "expired"
    BY DEF UndisturbedCallIsAuthorised, CallIsAuthorised, CallHasLiveToken
  <2>1. Alone(req[r]) /\ req[r].pc = "call"
    BY DEF MonitoredInv, Whole, At
  <2> QED BY <2>1 DEF Alone, Lasts, InPlace
<1> QED BY <1>1, MonitoredInitInv, MonitoredNextInv, PTL DEF MonitoredSpec
=============================================================================
