---------------------------- MODULE Authentication -----------------------------
(* Authentication of outgoing requests and of the callers of a server: refreshed
   tokens, rotated secrets and sessions, the browser login of a developer, and the
   tokens exchanged for a caller.

   The sections share no state: each has its own Init, Next and Spec. *)
EXTENDS Integers, Sequences, FiniteSets

--------------------------------------------------------------------------------
(***************************************************************************)
(* Requests of one API client share a refresh-token provider.  Each        *)
(* attaches the cached access token, is sent under the transport's retry   *)
(* policy, and after a 401 mints a new token and is sent once more.  The   *)
(* token endpoint may rotate the refresh token at every mint, and takes a  *)
(* refresh token that was used up for a stolen one.                        *)
(*                                                                         *)
(* Access and refresh tokens are numbered in the order they are issued.    *)
(***************************************************************************)

CONSTANTS
    TokenRequests,
    Posts,         \* requests whose method is not idempotent
    MaxAttempts,   \* policy.max_attempts
    MaxAccessTokens, \* bound: access tokens the endpoint issues
    MaxTokenFaults \* bound: faults, revocations and expiries

VARIABLES
    endpoint,   \* refresh: the refresh token it takes; reused: it saw an old one
    tokenIssued, \* access tokens issued so far
    tokenLive,  \* access tokens the API accepts
    tokenCache, \* _token: its number, 0 before the first mint; fresh()
    rotated,    \* the refresh token the provider has
    tokenReq,   \* tokenReq[r]
    effects,    \* effects[r]: how often the API acted on request r
    lost,       \* an answer of the token endpoint was lost
    tokenFaults

tokenVars == <<endpoint, tokenIssued, tokenLive, tokenCache, rotated, tokenReq, effects,
               lost, tokenFaults>>

\* second: the request is past its 401; since: tokens issued when it came.
TokenTypeOK ==
    /\ endpoint \in [refresh : Nat, reused : BOOLEAN]
    /\ tokenIssued \in Nat /\ tokenLive \subseteq 1..tokenIssued
    /\ tokenCache \in [token : 0..tokenIssued, fresh : BOOLEAN]
    /\ rotated \in Nat
    /\ tokenReq \in [TokenRequests -> [step : {"idle", "token", "mint", "minted", "send",
                                               "pause", "done"},
                                       token : 0..tokenIssued, second : BOOLEAN, since : 0..tokenIssued,
                                       attempt : 1..MaxAttempts,
                                       status : {"none", "ok", "401", "busy", "error"}]]
    /\ effects \in [TokenRequests -> Nat]
    /\ lost \in BOOLEAN /\ tokenFaults \in Nat

TokenInit ==
    /\ endpoint = [refresh |-> 1, reused |-> FALSE]
    /\ tokenIssued = 0 /\ tokenLive = {}
    /\ tokenCache = [token |-> 0, fresh |-> FALSE]
    /\ rotated = 1
    /\ tokenReq = [r \in TokenRequests |-> [step |-> "idle", token |-> 0, second |-> FALSE,
                                            since |-> 0, attempt |-> 1, status |-> "none"]]
    /\ effects = [r \in TokenRequests |-> 0]
    /\ lost = FALSE /\ tokenFaults = 0

TokenFault == tokenFaults < MaxTokenFaults /\ tokenFaults' = tokenFaults + 1
TokenGoto(r, step) == tokenReq' = [tokenReq EXCEPT ![r].step = step]
TokenEnd(r, status) == tokenReq' = [tokenReq EXCEPT ![r].step = "done", ![r].status = status]

--------------------------------------------------------------------------------
(* get_token *)

TokenBegin(r) ==
    /\ tokenReq[r].step = "idle" /\ TokenGoto(r, "token")
    /\ UNCHANGED <<endpoint, tokenIssued, tokenLive, tokenCache, rotated, effects, lost,
                   tokenFaults>>

\* Fault: the cache is not locked.
NoLock == TRUE
LockFree == \A r \in TokenRequests : tokenReq[r].step \notin {"mint", "minted"}

\* Fault: the token of the cache also after a 401.
NotForced(r) == FALSE
Forced(r) == tokenReq[r].second

GetToken(r) ==
    /\ tokenReq[r].step = "token" /\ LockFree
    /\ IF Forced(r) \/ tokenCache.token = 0 \/ ~tokenCache.fresh
       THEN TokenGoto(r, "mint")
       ELSE tokenReq' = [tokenReq EXCEPT ![r].step = "send", ![r].token = tokenCache.token]
    /\ UNCHANGED <<endpoint, tokenIssued, tokenLive, tokenCache, rotated, effects, lost,
                   tokenFaults>>

\* The token endpoint.  Its answer may be lost, and the transport does not send
\* a POST again that may have arrived.
Mint(r) ==
    /\ tokenReq[r].step = "mint"
    /\ \/ /\ rotated = endpoint.refresh /\ ~endpoint.reused /\ tokenIssued < MaxAccessTokens
          /\ tokenIssued' = tokenIssued + 1
          /\ endpoint' = endpoint \/ endpoint' = [endpoint EXCEPT !.refresh = @ + 1]
          /\ tokenLive' \in {tokenLive \cup {tokenIssued + 1}, {tokenIssued + 1}}
          /\ \/ TokenGoto(r, "minted") /\ UNCHANGED <<lost, tokenFaults>>
             \/ TokenFault /\ lost' = TRUE /\ TokenEnd(r, "error")
       \/ /\ rotated # endpoint.refresh \/ endpoint.reused
          /\ endpoint' = [endpoint EXCEPT !.reused = TRUE]
          /\ TokenEnd(r, "error") /\ UNCHANGED <<tokenIssued, tokenLive, lost, tokenFaults>>
       \* Never sent, or its secrets cannot be resolved.
       \/ /\ TokenFault /\ TokenEnd(r, "error")
          /\ UNCHANGED <<endpoint, tokenIssued, tokenLive, lost>>
    /\ UNCHANGED <<tokenCache, rotated, effects>>

\* Fault: the refresh token of the configuration is used for ever.
TokenKeepFirst == UNCHANGED rotated
TokenRotate == rotated' = endpoint.refresh

Minted(r) ==
    /\ tokenReq[r].step = "minted"
    /\ TokenRotate
    /\ tokenCache' = [token |-> tokenIssued, fresh |-> TRUE]
    /\ tokenReq' = [tokenReq EXCEPT ![r].step = "send", ![r].token = tokenIssued]
    /\ UNCHANGED <<endpoint, tokenIssued, tokenLive, effects, lost, tokenFaults>>

--------------------------------------------------------------------------------
(* The transport and the API *)

\* Fault: every transient failure is tried again.
AnyMethod(r, outcome) == outcome \in {"busy", "unsent", "broken"}
\* delay_after_response and delay_after_error
Retried(r, outcome) ==
    \/ outcome = "unsent"
    \/ outcome \in {"busy", "broken"} /\ r \notin Posts

\* busy: a transient status; paused: one whose Retry-After is too long;
\* unsent, broken, tls: the connection was not made, broke, or was not trusted.
Status(outcome) ==
    CASE outcome \in {"ok", "401"} -> outcome
      [] outcome \in {"busy", "paused"} -> "busy"
      [] OTHER -> "error"

Outcome(r, outcome) ==
    tokenReq' = IF tokenReq[r].attempt < MaxAttempts /\ Retried(r, outcome)
                THEN [tokenReq EXCEPT ![r].step = "pause"]
                ELSE IF outcome = "401" /\ ~tokenReq[r].second
                THEN [tokenReq EXCEPT ![r].step = "token", ![r].second = TRUE,
                                      ![r].since = tokenIssued, ![r].attempt = 1]
                ELSE [tokenReq EXCEPT ![r].step = "done", ![r].status = Status(outcome)]

Acts(r) == tokenReq[r].token \in tokenLive /\ effects' = [effects EXCEPT ![r] = @ + 1]

TokenSend(r) ==
         /\ tokenReq[r].step = "send"
         /\ \/ Acts(r) /\ Outcome(r, "ok") /\ UNCHANGED tokenFaults
            \/ /\ tokenReq[r].token \notin tokenLive /\ Outcome(r, "401")
               /\ UNCHANGED <<effects, tokenFaults>>
            \/ /\ TokenFault
               /\ \/ \E outcome \in {"busy", "paused", "broken"} :
                       Outcome(r, outcome) /\ (Acts(r) \/ UNCHANGED effects)
                  \/ \E outcome \in {"unsent", "tls"} :
                       Outcome(r, outcome) /\ UNCHANGED effects
         /\ UNCHANGED <<endpoint, tokenIssued, tokenLive, tokenCache, rotated, lost>>

Resume(r) ==
    /\ tokenReq[r].step = "pause"
    /\ tokenReq' = [tokenReq EXCEPT ![r].step = "send", ![r].attempt = @ + 1]
    /\ UNCHANGED <<endpoint, tokenIssued, tokenLive, tokenCache, rotated, effects, lost,
                   tokenFaults>>

\* The API revokes a token, or its time is over there.
Revoke ==
    /\ TokenFault /\ \E t \in tokenLive : tokenLive' = tokenLive \ {t}
    /\ UNCHANGED <<endpoint, tokenIssued, tokenCache, rotated, tokenReq, effects, lost>>

\* The cached token comes within REFRESH_SKEW_SECONDS of its end.
TokenAge ==
         /\ TokenFault /\ tokenCache.fresh /\ tokenCache' = [tokenCache EXCEPT !.fresh = FALSE]
         /\ UNCHANGED <<endpoint, tokenIssued, tokenLive, rotated, tokenReq, effects, lost>>

TokenStep(r) ==
         TokenBegin(r) \/ GetToken(r) \/ Mint(r) \/ Minted(r) \/ TokenSend(r) \/ Resume(r)

TokenNext == (\E r \in TokenRequests : TokenStep(r)) \/ Revoke \/ TokenAge

TokenSpec == TokenInit /\ [][TokenNext]_tokenVars

--------------------------------------------------------------------------------
(* Properties *)

\* The token endpoint never sees a refresh token twice, which would end the whole
\* grant, unless one of its answers was lost.
RefreshPresentedOnce == endpoint.reused => lost

\* Between mints the provider has the refresh token that the endpoint takes next.
RefreshInStep == LockFree /\ ~lost => rotated = endpoint.refresh

\* A request that is not idempotent takes effect at most once, through transport
\* retries, the retry after a 401 and answers that were lost.
PostOnce == \A r \in Posts : effects[r] <= 1

\* A request ends with 401 only on a token issued after its first 401: whatever
\* other requests minted meanwhile, it had its fresh try.
RefusedTwice ==
    \A r \in TokenRequests : tokenReq[r].status = "401" => tokenReq[r].token > tokenReq[r].since

--------------------------------------------------------------------------------
(***************************************************************************)
(* Requests that share one RotatingAuth or one SessionLoginAuth.  Both     *)
(* attach what they have, and after a refusal fetch it anew and send the   *)
(* request once more.  Only the shared field is locked: between fetching,  *)
(* storing and attaching other requests run.                               *)
(*                                                                         *)
(* Secrets and sessions are numbered in the order they are issued.         *)
(***************************************************************************)

CONSTANTS
    SecretRequests,
    MaxIssued,   \* bound: secrets, or sessions
    MaxSecretFaults \* bound: sessions the API ends, logins it refuses

VARIABLES
    kind,        \* "rotating" or "session"
    store,       \* rotating: the secret that read() returns
    secretLive,  \* what the API accepts
    secretIssued,
    held,        \* _secret, or the session in _cookies, 0 for an empty jar
    secretReq,   \* secretReq[r]
    excused,     \* ghost: requests that met a rotation, a session that the API
                 \* ended, or a jar that another request changed
    secretFaults

secretVars == <<kind, store, secretLive, secretIssued, held, secretReq, excused, secretFaults>>

SecretTypeOK ==
    /\ kind \in {"rotating", "session"}
    /\ store \in 1..MaxIssued /\ secretLive \subseteq 1..MaxIssued
    /\ secretIssued \in 0..MaxIssued
    /\ held \in 0..MaxIssued
    /\ secretReq \in [SecretRequests -> [step : {"idle", "attach", "send", "fetch", "store",
                                                 "done"},
                                         used : 0..MaxIssued, fresh : 0..MaxIssued, second : BOOLEAN,
                                         status : {"none", "ok", "refused", "error"}]]
    /\ excused \subseteq SecretRequests /\ secretFaults \in 0..MaxSecretFaults

SecretInit ==
    /\ kind \in {"rotating", "session"}
    /\ store = 1 /\ secretFaults = 0 /\ excused = {}
    /\ secretLive = IF kind = "rotating" THEN {1} ELSE {}
    /\ secretIssued = IF kind = "rotating" THEN 1 ELSE 0
    /\ held = secretIssued
    /\ secretReq = [r \in SecretRequests |-> [step |-> "idle", used |-> 0, fresh |-> 0,
                                              second |-> FALSE,
                                              status |-> "none"]]

SecretFault == secretFaults < MaxSecretFaults /\ secretFaults' = secretFaults + 1
SecretAt(r, step) == secretReq[r].step = step
SecretGoto(r, step) == secretReq' = [secretReq EXCEPT ![r].step = step]
SecretEnd(r, status) == secretReq' = [secretReq EXCEPT ![r].step = "done", ![r].status = status]
UnderWay == {r \in SecretRequests : secretReq[r].step \notin {"idle", "done"}}
Second == {r \in UnderWay : secretReq[r].second}
Attaching == {r \in SecretRequests : SecretAt(r, "attach")}
Settled == kind = "rotating" => store \in secretLive

--------------------------------------------------------------------------------
(* auth_flow *)

SecretBegin(r) ==
    /\ SecretAt(r, "idle")
    /\ SecretGoto(r, IF kind = "session" /\ held = 0 THEN "fetch" ELSE "attach")
    /\ excused' = IF Settled THEN excused ELSE excused \cup {r}
    /\ UNCHANGED <<kind, store, secretLive, secretIssued, held, secretFaults>>

\* _attach_cookies takes what the jar has by now; apply takes the secret that was
\* read from the field, or the one that was just fetched.
\* Fault: the secret that was refused is sent again.
SameAgain(r) == IF kind = "rotating" /\ secretReq[r].second THEN secretReq[r].used ELSE held
ToAttach(r) == IF kind = "rotating" /\ secretReq[r].second THEN secretReq[r].fresh ELSE held

Attach(r) ==
    /\ SecretAt(r, "attach")
    /\ secretReq' = [secretReq EXCEPT ![r].step = "send", ![r].used = ToAttach(r)]
    /\ UNCHANGED <<kind, store, secretLive, secretIssued, held, excused, secretFaults>>

\* A refusal is 401, for a session also 403; it empties the jar.
EmptyJar ==
    /\ held' = IF kind = "session" THEN 0 ELSE held
    /\ excused' = IF kind = "session" THEN excused \cup Attaching ELSE excused

SecretSend(r) ==
          /\ SecretAt(r, "send")
          /\ IF secretReq[r].used \in secretLive
             THEN SecretEnd(r, "ok") /\ UNCHANGED <<held, excused>>
             ELSE IF secretReq[r].second
             THEN SecretEnd(r, "refused") /\ UNCHANGED <<held, excused>>
             ELSE /\ secretReq' = [secretReq EXCEPT ![r].step = "fetch", ![r].second = TRUE]
                  /\ EmptyJar
          /\ UNCHANGED <<kind, store, secretLive, secretIssued, secretFaults>>

\* _read, or a login that answers with a session.
Fetch(r) ==
    /\ SecretAt(r, "fetch")
    /\ IF kind = "rotating"
       THEN secretReq' = [secretReq EXCEPT ![r].step = "store",
                          ![r].fresh = store] /\ UNCHANGED <<secretIssued, secretLive>>
       ELSE /\ secretIssued < MaxIssued /\ secretIssued' = secretIssued + 1
            /\ secretLive' = secretLive \cup {secretIssued'}
            /\ secretReq' = [secretReq EXCEPT ![r].step = "store", ![r].fresh = secretIssued']
    /\ UNCHANGED <<kind, store, held, excused, secretFaults>>

\* "session login was rejected"
Rejected(r) ==
    /\ SecretAt(r, "fetch") /\ kind = "session" /\ SecretFault /\ SecretEnd(r, "error")
    /\ UNCHANGED <<kind, store, secretLive, secretIssued, held, excused>>

\* A secret that has not changed is not tried again.
Store(r) ==
    /\ SecretAt(r, "store")
    /\ held' = secretReq[r].fresh
    /\ secretReq' = IF kind = "rotating" /\ secretReq[r].fresh = secretReq[r].used
                    THEN [secretReq EXCEPT ![r].step = "done", ![r].status = "refused"]
                    ELSE [secretReq EXCEPT ![r].step = "attach"]
    /\ excused' = IF kind = "session" /\ held' \notin secretLive THEN excused \cup Attaching
                  ELSE excused
    /\ UNCHANGED <<kind, store, secretLive, secretIssued, secretFaults>>

--------------------------------------------------------------------------------
(* The API and who rotates secrets *)

\* A rotation is two steps, in either order; while it is half done the API may take
\* the old secret as well as the new one.
SecretRotate ==
    /\ kind = "rotating"
    /\ \/ /\ secretIssued < MaxIssued /\ store = secretIssued
          /\ secretIssued' = secretIssued + 1
          /\ \/ store' = secretIssued' /\ UNCHANGED secretLive
             \/ /\ secretLive' \in {{secretIssued'}, secretLive \cup {secretIssued'}}
                /\ UNCHANGED store
       \/ store < secretIssued /\ store' = secretIssued
          /\ UNCHANGED <<secretLive, secretIssued>>
       \/ /\ secretLive # {secretIssued}
          /\ secretLive' \in {{secretIssued}, secretLive \cup {secretIssued}}
          /\ secretLive' # secretLive
          /\ UNCHANGED <<store, secretIssued>>
    /\ excused' = excused \cup IF ~Settled \/ store' \notin secretLive' THEN UnderWay
                              ELSE IF secretLive \subseteq secretLive' THEN {} ELSE Second
    /\ UNCHANGED <<kind, held, secretReq, secretFaults>>

\* The API ends a session.
Expire ==
    /\ kind = "session" /\ SecretFault
    /\ \E s \in secretLive : secretLive' = secretLive \ {s}
    /\ excused' = excused \cup Second
    /\ UNCHANGED <<kind, store, secretIssued, held, secretReq>>

SecretStep(r) ==
          SecretBegin(r) \/ Attach(r) \/ SecretSend(r) \/ Fetch(r) \/ Rejected(r) \/ Store(r)

SecretNext == (\E r \in SecretRequests : SecretStep(r)) \/ SecretRotate \/ Expire

SecretSpec == SecretInit /\ [][SecretNext]_secretVars

--------------------------------------------------------------------------------
(* Properties *)

\* A request is refused in the end only if it met a rotation that was half done; if
\* the API gave up a secret or a session after the first refusal; or if another
\* request emptied the jar, or stored a session that had ended, between its login and
\* its second try.  Whatever else is fetched and stored meanwhile costs it nothing.
RefusalIsExcused == \A r \in SecretRequests : secretReq[r].status = "refused" => r \in excused

--------------------------------------------------------------------------------
(***************************************************************************)
(* resolve_credentials of the browser OAuth manager.  Callers, each a      *)
(* process, share the token file, the loopback port and the file for a     *)
(* redirect that is handed over by hand.                                   *)
(*                                                                         *)
(* Logins are numbered: the number stands for the state, the verifier and  *)
(* the authorization code of that login.                                   *)
(***************************************************************************)

CONSTANTS
    LoginCallers, \* processes
    None,
    MaxLogins,    \* bound: logins begun
    MaxLoginTokens, \* bound: access tokens of one login
    MaxLoginFaults \* bound: lost answers of the token endpoint, and crashes

VARIABLES
    file,         \* the token file: <<tokens>>, or <<>> when it is missing or cut short
    port,         \* the server on the loopback port, or None
    codefile,     \* the redirect in browser_auth_code.txt, or None
    loginCaller,  \* loginCaller[c]
    logins,       \* logins begun
    grants,       \* grants[l]: what the token endpoint knows of login l
    aged,         \* aged[l]: access tokens of login l within refresh_skew_seconds of
                  \* their end; they age in the order they were issued
    shared,       \* ghost: a caller began while another was under way
    loginFaults

loginVars == <<file, port, codefile, loginCaller, logins, grants, aged, shared, loginFaults>>

Logins == 1..MaxLogins
TokenSets == [login : Logins, access : 1..MaxLoginTokens, refresh : 0..MaxLoginTokens]
LoginSteps == {"idle", "load", "bind", "wait", "manual", "exchange", "save", "write",
               "check", "refresh"}

\* A redirect: the login whose state and code it carries, or 0 for any other request.
Redirects == 0..logins

LoginTypeOK ==
    /\ file = <<>> \/ \E t \in TokenSets : file = <<t>>
    /\ port = None \/ (port.state \in Logins /\ port.code \in Logins \cup {None}
                       /\ port.listening \in BOOLEAN /\ port.held \in BOOLEAN
                       /\ port.by \in LoginCallers)
    /\ codefile \in {None} \cup Redirects
    /\ \A c \in LoginCallers :
         /\ loginCaller[c].step \in LoginSteps /\ loginCaller[c].auto \in BOOLEAN
         /\ loginCaller[c].login \in Logins \cup {None}
         /\ loginCaller[c].code \in Logins \cup {None}
         /\ loginCaller[c].tokens \in TokenSets \cup {None}
    /\ logins \in 0..MaxLogins
    /\ grants \in [Logins -> [used : BOOLEAN, access : 0..MaxLoginTokens,
                              refresh : 0..MaxLoginTokens, reused : BOOLEAN]]
    /\ aged \in [Logins -> 0..MaxLoginTokens]
    /\ shared \in BOOLEAN /\ loginFaults \in 0..MaxLoginFaults

Idle == [step |-> "idle", auto |-> FALSE, login |-> None, code |-> None, tokens |-> None]

LoginInit ==
    /\ file = <<>> /\ port = None /\ codefile = None
    /\ loginCaller = [c \in LoginCallers |-> Idle]
    /\ logins = 0
    /\ grants = [l \in Logins |-> [used |-> FALSE, access |-> 0, refresh |-> 0,
                                   reused |-> FALSE]]
    /\ aged = [l \in Logins |-> 0] /\ shared = FALSE /\ loginFaults = 0

LoginFault == loginFaults < MaxLoginFaults /\ loginFaults' = loginFaults + 1
LoginAt(c, step) == loginCaller[c].step = step
Set(c, new) == loginCaller' = [loginCaller EXCEPT ![c] = new]
LoginGoto(c, step) == loginCaller' = [loginCaller EXCEPT ![c].step = step]

\* The call is over, with an access token or without.
Return(c) == Set(c, Idle)

--------------------------------------------------------------------------------
(* resolve_credentials, without a direct API key *)

Resolve(c, auto) ==
    /\ LoginAt(c, "idle")
    /\ Set(c, [Idle EXCEPT !.step = "load", !.auto = auto])
    /\ shared' = (shared \/ \E d \in LoginCallers : ~LoginAt(d, "idle"))
    /\ UNCHANGED <<file, port, codefile, logins, grants, aged, loginFaults>>

\* _load_or_login_tokens
Load(c) ==
    /\ LoginAt(c, "load")
    /\ IF file # <<>>
       THEN Set(c, [Idle EXCEPT !.step = "check", !.tokens = file[1]])
       ELSE IF loginCaller[c].auto THEN LoginGoto(c, "bind") ELSE Return(c)
    /\ UNCHANGED <<file, port, codefile, logins, grants, aged, shared, loginFaults>>

\* _refresh_if_expiring.  Without a refresh token there is nothing to return.
Check(c) ==
    LET t == loginCaller[c].tokens IN
    /\ LoginAt(c, "check")
    /\ IF t.access <= aged[t.login] /\ t.refresh # 0 THEN LoginGoto(c, "refresh") ELSE Return(c)
    /\ UNCHANGED <<file, port, codefile, logins, grants, aged, shared, loginFaults>>

--------------------------------------------------------------------------------
(* login *)

\* _start_loopback_server, on a port that another login may have.
Bind(c) ==
    /\ LoginAt(c, "bind") /\ logins < MaxLogins
    /\ logins' = logins + 1
    /\ Set(c, [Idle EXCEPT !.login = logins + 1,
                           !.step = IF port = None THEN "wait" ELSE "manual"])
    /\ port' = IF port = None
               THEN [state |-> logins + 1, code |-> None, listening |-> TRUE, held |-> TRUE,
                     by |-> c]
               ELSE port
    /\ UNCHANGED <<file, codefile, grants, aged, shared, loginFaults>>

\* handle_request answers one request, do_GET.  Fault: any redirect has the code.
AnyState(r) == r # 0
OwnState(r) == r = port.state

Request(r) ==
    /\ port # None /\ port.listening
    /\ port' = IF ~port.held THEN None
               ELSE [port EXCEPT !.listening = FALSE, !.code = IF OwnState(r) THEN r ELSE @]
    /\ UNCHANGED <<file, codefile, loginCaller, logins, grants, aged, shared, loginFaults>>

\* _wait_for_loopback_code
Arrived(c) ==
    /\ LoginAt(c, "wait") /\ port.code # None
    /\ Set(c, [loginCaller[c] EXCEPT !.step = "exchange", !.code = port.code])
    /\ UNCHANGED <<file, port, codefile, logins, grants, aged, shared, loginFaults>>

TimesOut(c) ==
    /\ LoginAt(c, "wait") /\ port.code = None /\ LoginGoto(c, "manual")
    /\ UNCHANGED <<file, port, codefile, logins, grants, aged, shared, loginFaults>>

\* The server object of a login that is over goes, unless its thread still waits.
Owns(c) == port # None /\ port.state = loginCaller[c].login
LeavePort(c) ==
    port' = IF ~Owns(c) THEN port
            ELSE IF port.listening THEN [port EXCEPT !.held = FALSE] ELSE None

\* The user writes the redirect of some login to the file.
WriteRedirect(r) ==
    /\ codefile = None /\ r # 0 /\ codefile' = r
    /\ UNCHANGED <<file, port, loginCaller, logins, grants, aged, shared, loginFaults>>

\* _manual_authorization_code.  Fault: the redirect of another login will do.
AnyRedirect(c, r) == r # 0
OwnRedirect(c, r) == r = loginCaller[c].login

Accept(c, r) ==
    IF OwnRedirect(c, r)
    THEN Set(c, [loginCaller[c] EXCEPT !.step = "exchange", !.code = r]) /\ UNCHANGED port
    ELSE Return(c) /\ LeavePort(c)

\* From the file that is then removed, or from the terminal.
Consume(c) ==
    /\ LoginAt(c, "manual") /\ codefile # None
    /\ Accept(c, codefile) /\ codefile' = None
    /\ UNCHANGED <<file, logins, grants, aged, shared, loginFaults>>

Paste(c, r) ==
    /\ LoginAt(c, "manual") /\ Accept(c, r)
    /\ UNCHANGED <<file, codefile, logins, grants, aged, shared, loginFaults>>

GiveUp(c) ==
    /\ LoginAt(c, "manual") /\ Return(c) /\ LeavePort(c)
    /\ UNCHANGED <<file, codefile, logins, grants, aged, shared, loginFaults>>

--------------------------------------------------------------------------------
(* The token endpoint *)

\* A code is good once, with the verifier of its login.  The endpoint may give no
\* refresh token.
LoginExchange(c) ==
    LET l == loginCaller[c].code IN
    /\ LoginAt(c, "exchange")
    /\ IF l = loginCaller[c].login /\ ~grants[l].used
       THEN \E refresh \in 0..1 :
              /\ grants' = [grants EXCEPT ![l] = [used |-> TRUE, access |-> 1,
                                                  refresh |-> refresh,
                                                  reused |-> FALSE]]
              /\ \/ /\ Set(c, [loginCaller[c] EXCEPT !.step = "save", !.code = None,
                                  !.tokens = [login |-> l, access |-> 1, refresh |-> refresh]])
                    /\ UNCHANGED <<port, loginFaults>>
                 \/ LoginFault /\ Return(c) /\ LeavePort(c)
       ELSE Return(c) /\ LeavePort(c) /\ UNCHANGED <<grants, loginFaults>>
    /\ UNCHANGED <<file, codefile, logins, aged, shared>>

\* refresh_tokens.  Fault: the refresh token of the login is kept for ever.
LoginKeepFirst(t, g) == [login |-> t.login, access |-> g.access + 1, refresh |-> t.refresh]
Refreshed(t, g) == [login |-> t.login, access |-> g.access + 1, refresh |-> g.refresh]

Refresh(c) ==
    LET t == loginCaller[c].tokens
        g == grants[t.login] IN
    /\ LoginAt(c, "refresh")
    /\ IF t.refresh = g.refresh /\ ~g.reused
       THEN g.access < MaxLoginTokens /\ \E refresh \in {g.refresh, g.refresh + 1} :
              /\ refresh <= MaxLoginTokens
              /\ grants' = [grants EXCEPT ![t.login].access = @ + 1,
                            ![t.login].refresh = refresh]
              /\ \/ /\ Set(c, [loginCaller[c] EXCEPT !.step = "save",
                                  !.tokens = Refreshed(t, [g EXCEPT !.refresh = refresh])])
                    /\ UNCHANGED loginFaults
                 \/ LoginFault /\ Return(c)
       ELSE /\ grants' = [grants EXCEPT ![t.login].reused = TRUE]
            /\ Return(c) /\ UNCHANGED loginFaults
    /\ UNCHANGED <<file, port, codefile, logins, aged, shared>>

\* The endpoint is not reached, or refuses.
Unreached(c) ==
    /\ loginCaller[c].step \in {"exchange", "refresh"}
    /\ Return(c) /\ LeavePort(c)
    /\ UNCHANGED <<file, codefile, logins, grants, aged, shared, loginFaults>>

--------------------------------------------------------------------------------
(* save_tokens: FileTokenStore.set cuts the file and then writes it *)

Cut(c) ==
    /\ LoginAt(c, "save") /\ file' = <<>> /\ LoginGoto(c, "write")
    /\ UNCHANGED <<port, codefile, logins, grants, aged, shared, loginFaults>>

\* The tokens of a login go on to the check.
Write(c) ==
    /\ LoginAt(c, "write") /\ file' = <<loginCaller[c].tokens>>
    /\ IF loginCaller[c].login # None
       THEN Set(c, [Idle EXCEPT !.step = "check",
                    !.tokens = loginCaller[c].tokens]) /\ LeavePort(c)
       ELSE Return(c) /\ UNCHANGED port
    /\ UNCHANGED <<codefile, logins, grants, aged, shared, loginFaults>>

\* The process of a caller ends.
Crash(c) ==
    /\ ~LoginAt(c, "idle") /\ LoginFault /\ Return(c)
    /\ port' = IF port # None /\ port.by = c THEN None ELSE port
    /\ UNCHANGED <<file, codefile, logins, grants, aged, shared>>

LoginAge ==
         /\ \E l \in Logins : aged[l] < grants[l].access /\ aged' = [aged EXCEPT ![l] = @ + 1]
         /\ UNCHANGED <<file, port, codefile, loginCaller, logins, grants, shared, loginFaults>>

LoginStep(c) ==
         \/ \E auto \in BOOLEAN : Resolve(c, auto)
         \/ Load(c) \/ Check(c) \/ Bind(c) \/ Arrived(c) \/ TimesOut(c)
         \/ \E r \in Redirects : Paste(c, r)
         \/ Consume(c) \/ GiveUp(c) \/ LoginExchange(c) \/ Refresh(c) \/ Unreached(c)
         \/ Cut(c) \/ Write(c) \/ Crash(c)

LoginNext ==
    \/ \E c \in LoginCallers : LoginStep(c)
    \/ \E r \in Redirects : Request(r) \/ WriteRedirect(r)
    \/ LoginAge

LoginSpec == LoginInit /\ [][LoginNext]_loginVars

--------------------------------------------------------------------------------
(* Properties *)

\* A code is only ever presented by the login it was issued for, whatever redirects
\* arrive late, at a port another login has, or through the file.
CodesAreOwn ==
    \A c \in LoginCallers : LoginAt(c, "exchange") => loginCaller[c].code = loginCaller[c].login

\* The endpoint sees a refresh token it has replaced only if callers overlapped, or
\* an answer or a process was lost before the file had the new one.
RefreshIsCurrent == (\E l \in Logins : grants[l].reused) => shared \/ loginFaults > 0

\* With no call under way the file has the last token set of its login, or none at
\* all: a refresh is never followed by an older set.
FileIsCurrent ==
    (\A c \in LoginCallers : LoginAt(c, "idle")) /\ ~shared /\ loginFaults = 0 =>
        \A k \in DOMAIN file : /\ file[k].refresh = grants[file[k].login].refresh
                               /\ file[k].access = grants[file[k].login].access

--------------------------------------------------------------------------------
(* DelegatedTokenAuth: each request carries a token exchanged for its own caller.
   Exchanged tokens are cached by caller, the longest unused dropped first, under a
   lock that is held through the exchange.  *)

CONSTANTS
    CallerRequests, TokenHolders,
    CacheSize,     \* _CACHE_SIZE
    Skew,          \* _SKEW_SECONDS
    Lifetimes,     \* expires_in the token endpoint may give
    MaxTime, MaxCallerFaults

VARIABLES
    callerReq, \* each request: caller, step, the token it was given and when
    holder,  \* the request that holds the lock
    callerCache, \* [caller, token], the longest unused first
    callerIssued, \* tokens exchanged: [caller, expires]
    now, callerFaults

callerVars == <<callerReq, holder, callerCache, callerIssued, now, callerFaults>>

CallerSteps == {"idle", "waiting", "exchanging", "sent", "failed"}

CallerTypeOK ==
    /\ holder \in CallerRequests \cup {None}
    /\ \A r \in CallerRequests : callerReq[r].step \in CallerSteps
    /\ Len(callerCache) <= CacheSize

CallerInit ==
    /\ callerReq = [r \in CallerRequests |-> [step |-> "idle", caller |-> None,
                                              token |-> None, at |-> 0]]
    /\ holder = None /\ callerCache = <<>> /\ callerIssued = <<>> /\ now = 0 /\ callerFaults = 0

--------------------------------------------------------------------------------

Start(r, caller) ==
    /\ callerReq[r].step = "idle"
    /\ callerReq' = [callerReq EXCEPT ![r] = [@ EXCEPT !.caller = caller,
                                              !.step = IF caller = None THEN "failed" ELSE "waiting"]]
    /\ UNCHANGED <<holder, callerCache, callerIssued, now, callerFaults>>

\* Fault: one token serves every caller.
AnyCached(caller) == DOMAIN callerCache
Cached(caller) == {n \in DOMAIN callerCache : callerCache[n].caller = caller}

\* Fault: a token is used to its last second.
NotExpired(token) == callerIssued[token].expires > now
Fresh(token) == callerIssued[token].expires > now + Skew

Without(caller) ==
    IF Cached(caller) = {} THEN callerCache
    ELSE LET n == CHOOSE n \in Cached(caller) : TRUE
         IN  SubSeq(callerCache, 1, n - 1) \o SubSeq(callerCache, n + 1, Len(callerCache))
Trim(entries) ==
    IF Len(entries) > CacheSize
    THEN SubSeq(entries, Len(entries) - CacheSize + 1, Len(entries)) ELSE entries
Used(caller, token) == Trim(Append(Without(caller), [caller |-> caller, token |-> token]))

Give(r, token) ==
    /\ callerCache' = Used(callerReq[r].caller, token)
    /\ callerReq' = [callerReq EXCEPT ![r].step = "sent", ![r].token = token, ![r].at = now]
    /\ holder' = None

\* Taking the lock: a fresh token is given at once, otherwise the exchange starts.
Take(r) ==
    /\ callerReq[r].step = "waiting" /\ holder = None
    /\ IF \E n \in Cached(callerReq[r].caller) : Fresh(callerCache[n].token)
       THEN \E n \in Cached(callerReq[r].caller) :
              Fresh(callerCache[n].token) /\ Give(r, callerCache[n].token)
       ELSE /\ holder' = r /\ UNCHANGED callerCache
            /\ callerReq' = [callerReq EXCEPT ![r].step = "exchanging"]
    /\ UNCHANGED <<callerIssued, now, callerFaults>>

CallerExchange(r, lifetime) ==
    /\ holder = r /\ Len(callerIssued) < Cardinality(CallerRequests)
    /\ callerIssued' = Append(callerIssued, [caller |-> callerReq[r].caller,
                                             expires |-> now + lifetime])
    /\ Give(r, Len(callerIssued) + 1)
    /\ UNCHANGED <<now, callerFaults>>

Fail(r) ==
    /\ holder = r /\ callerFaults < MaxCallerFaults /\ callerFaults' = callerFaults + 1
    /\ holder' = None /\ callerReq' = [callerReq EXCEPT ![r].step = "failed"]
    /\ UNCHANGED <<callerCache, callerIssued, now>>

Tick == now < MaxTime /\ now' = now + 1 /\ UNCHANGED <<callerReq, holder, callerCache,
                                                       callerIssued, callerFaults>>

CallerNext ==
    \/ \E r \in CallerRequests :
         \/ \E caller \in TokenHolders \cup {None} : Start(r, caller)
         \/ Take(r) \/ (\E lifetime \in Lifetimes : CallerExchange(r, lifetime)) \/ Fail(r)
    \/ Tick

CallerSpec == CallerInit /\ [][CallerNext]_callerVars

--------------------------------------------------------------------------------
(* Properties *)

\* A request is sent only with a token exchanged for its own caller, and one that was
\* not just exchanged has more than the skew left.
TokenIsOwn ==
    \A r \in CallerRequests : callerReq[r].step = "sent" =>
        /\ callerIssued[callerReq[r].token].caller = callerReq[r].caller
        /\ (\E q \in CallerRequests \ {r} : callerReq[q].token = callerReq[r].token
            /\ callerReq[q].at < callerReq[r].at) =>
             callerIssued[callerReq[r].token].expires > callerReq[r].at + Skew

\* The cache has one token of a caller: its own, and the newest.
CacheIsCurrent ==
    /\ \A m, n \in DOMAIN callerCache : callerCache[m].caller = callerCache[n].caller => m = n
    /\ \A n \in DOMAIN callerCache : \A t \in DOMAIN callerIssued :
         /\ callerIssued[callerCache[n].token].caller = callerCache[n].caller
         /\ callerIssued[t].caller = callerCache[n].caller => t <= callerCache[n].token
================================================================================
