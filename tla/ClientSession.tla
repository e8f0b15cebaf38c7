--------------------------- MODULE ClientSession ---------------------------
(***************************************************************************)
(* The session of one browser, in the console and in the student app: the  *)
(* access token each tab holds in memory, the refresh cookie and the hint  *)
(* flag the tabs share, the refresh that a 401 starts, sign-in, sign-out,  *)
(* and the cached principal; with the rotating refresh tokens of the       *)
(* server, which takes a token presented twice for a stolen one.           *)
(***************************************************************************)
EXTENDS ConsoleBase

CONSTANTS Tabs, Users,
          MaxTokens,       \* bound on the refresh tokens issued
          MaxExpired       \* bound on the access tokens that expire

Tokens == 1 .. MaxTokens
Sent == -1                     \* a refresh the server has not handled

ASSUME SessionAssumption ==
    MaxTokens \in Nat /\ None \notin [token : Tokens \cup {0}, result : Tokens \cup {0, Sent}]

Kinds == {"session", "data", "logout"}       \* requests a tab has under way

VARIABLES
    tokens,        \* the server's sessions: sequence of [user, state]
    alarm,         \* the states of the tokens that were taken for stolen ones
    strays,        \* tokens presented by requests given up, not yet handled
    answerLost,    \* whether a refresh was ever given up before its answer came
    signedOut,     \* whether a session was ever closed, here or elsewhere
    cookie,        \* the refresh cookie: a token, or 0
    hint,          \* SESSION_HINT
    access,        \* tab -> [user, fresh], or None
    refreshing,    \* tab -> None, or [token, result]: Sent, the new token, or 0
    request,       \* tab -> kind -> "idle", "sent", "waiting", "handled"
    signedIn,      \* tab -> whether App shows the app
    cached,        \* tab -> the principal loadPrincipal keeps, or None
    signInStage,   \* the form: "phone", "code"; Join adds "loading" and "dead"
    expired        \* access tokens expired so far

sessionServer == <<tokens, alarm, strays, answerLost, signedOut>>
browser == <<cookie, hint, signInStage>>
sessionVars == <<sessionServer, browser, access, refreshing, request, signedIn, cached, expired>>

Quiet == [k \in Kinds |-> "idle"]

SessionInit ==
    /\ tokens = <<>> /\ alarm = {} /\ strays = {} /\ answerLost = FALSE /\ signedOut = FALSE
    /\ cookie = 0 /\ hint = FALSE
    /\ access = [t \in Tabs |-> None] /\ refreshing = [t \in Tabs |-> None]
    /\ request = [t \in Tabs |-> Quiet]
    /\ signedIn = [t \in Tabs |-> FALSE] /\ cached = [t \in Tabs |-> None]
    /\ signInStage \in {"phone", "loading"} /\ expired = 0

-----------------------------------------------------------------------------
(* Signing in. *)

NobodyIn == \E t \in Tabs : ~signedIn[t]

\* The invitation a link carries is looked up before anything is asked.
PreviewInvite ==
    /\ signInStage = "loading"
    /\ signInStage' \in {"phone", "dead"}
    /\ UNCHANGED <<sessionServer, cookie, hint, access, refreshing, request, signedIn, cached, expired>>

RequestCode ==
    /\ NobodyIn /\ signInStage = "phone"
    /\ signInStage' = "code"
    /\ UNCHANGED <<sessionServer, cookie, hint, access, refreshing, request, signedIn, cached, expired>>

CodeAsked == NobodyIn /\ signInStage = "code"

UseDifferentNumber ==
    /\ CodeAsked
    /\ signInStage' = "phone"
    /\ UNCHANGED <<sessionServer, cookie, hint, access, refreshing, request, signedIn, cached, expired>>

\* storeSession: the access token in memory, the hint beside it; the cookie is
\* the server's to set.
Stored(t, token, u) ==
    /\ access' = [access EXCEPT ![t] = [user |-> u, fresh |-> TRUE]]
    /\ cookie' = token /\ hint' = TRUE

\* The code, or the invitation, was accepted.
SubmitCode(t) ==
    /\ CodeAsked /\ ~signedIn[t] /\ Len(tokens) < MaxTokens
    /\ signInStage' = "phone"
    /\ \E u \in Users :
        /\ tokens' = Append(tokens, [user |-> u, state |-> "live"])
        /\ Stored(t, Len(tokens) + 1, u)
    /\ signedIn' = [signedIn EXCEPT ![t] = TRUE]
    /\ UNCHANGED <<alarm, strays, answerLost, signedOut, refreshing, request, cached, expired>>

-----------------------------------------------------------------------------
(* Requests. *)

\* The sidebar asks who is signed in, and only when nothing is cached.
AsksWho(t, k) == k = "session" => cached[t] = None

\* A screen asks when it likes; Sign out asks the server first.
Send(t, k) ==
    /\ signedIn[t] /\ request[t][k] = "idle"
    /\ AsksWho(t, k)
    /\ request' = [request EXCEPT ![t][k] = "sent"]
    /\ UNCHANGED <<sessionServer, browser, access, refreshing, signedIn, cached, expired>>

Authenticated(t) == access[t] # None /\ access[t].fresh

Revoked(u) == [i \in DOMAIN tokens |->
                 IF tokens[i].user = u /\ tokens[i].state = "live"
                 THEN [tokens[i] EXCEPT !.state = "revoked"] ELSE tokens[i]]

Answer(t, k) ==
    /\ k # "logout" /\ request[t][k] = "sent" /\ Authenticated(t)
    /\ request' = [request EXCEPT ![t][k] = "idle"]
    /\ cached' = IF k = "session" THEN [cached EXCEPT ![t] = access[t].user] ELSE cached
    /\ UNCHANGED <<sessionServer, browser, access, refreshing, signedIn, expired>>

\* signOut's finally: this browser forgets, whatever the server said.
Forgotten(t) ==
    /\ access' = [access EXCEPT ![t] = None] /\ hint' = FALSE
    /\ cached' = [cached EXCEPT ![t] = None]
    /\ signedIn' = [signedIn EXCEPT ![t] = FALSE]

\* Every session of the person is revoked,
SignOutHandled(t) ==
    /\ request[t]["logout"] = "sent" /\ Authenticated(t)
    /\ tokens' = Revoked(access[t].user) /\ signedOut' = TRUE
    /\ request' = [request EXCEPT ![t]["logout"] = "handled"]
    /\ UNCHANGED <<alarm, strays, answerLost, browser, access, refreshing, signedIn, cached, expired>>

\* and the answer clears the cookie.
SignOutAnswered(t) ==
    /\ request[t]["logout"] = "handled"
    /\ cookie' = 0
    /\ request' = [request EXCEPT ![t]["logout"] = "idle"]
    /\ Forgotten(t)
    /\ UNCHANGED <<sessionServer, signInStage, refreshing, expired>>

\* The request, or its answer, is lost: said so, and forgotten here all the same.
SignOutFails(t) ==
    /\ request[t]["logout"] \in {"sent", "handled"}
    /\ request' = [request EXCEPT ![t]["logout"] = "idle"]
    /\ Forgotten(t)
    /\ UNCHANGED <<sessionServer, cookie, signInStage, refreshing, expired>>

\* At another device the person signs out, of everything, or forgets a device.
ClosedElsewhere(i) ==
    /\ tokens[i].state = "live"
    /\ tokens' \in {Revoked(tokens[i].user), [tokens EXCEPT ![i].state = "revoked"]}
    /\ signedOut' = TRUE
    /\ UNCHANGED <<alarm, strays, answerLost, browser, access, refreshing, request, signedIn,
                   cached, expired>>

AccessExpires(t) ==
    /\ Authenticated(t) /\ expired < MaxExpired
    /\ expired' = expired + 1
    /\ access' = [access EXCEPT ![t].fresh = FALSE]
    /\ UNCHANGED <<sessionServer, browser, refreshing, request, signedIn, cached>>

\* A 401: the first starts a refresh, every other one waits for the same one.
SingleFlight_PerRequest(t) == TRUE
SingleFlight(t) == refreshing[t] = None
Unauthorized(t, k) ==
    /\ request[t][k] = "sent" /\ ~Authenticated(t)
    /\ request' = [request EXCEPT ![t][k] = "waiting"]
    /\ refreshing' = IF SingleFlight(t)
                     THEN [refreshing EXCEPT ![t] = [token |-> cookie, result |-> Sent]]
                     ELSE refreshing
    /\ UNCHANGED <<sessionServer, browser, access, signedIn, cached, expired>>

-----------------------------------------------------------------------------
(* The refresh. *)

\* POST /auth/refresh: a live token is rotated; one that was rotated, or revoked
\* by a sign-out, is taken for stolen, and every session of its owner revoked.
Rotated(i) == Append([tokens EXCEPT ![i].state = "rotated"],
                     [user |-> tokens[i].user, state |-> "live"])
Presented(i) ==
    \/ /\ tokens[i].state = "live" /\ Len(tokens) < MaxTokens
       /\ tokens' = Rotated(i) /\ UNCHANGED alarm
    \/ /\ tokens[i].state # "live"
       /\ tokens' = Revoked(tokens[i].user)
       /\ alarm' = alarm \cup {tokens[i].state}
RefreshHandled(t) ==
    /\ refreshing[t] # None /\ refreshing[t].result = Sent
    /\ LET i == refreshing[t].token
           live == i # 0 /\ tokens[i].state = "live"
       IN /\ IF i = 0 THEN UNCHANGED <<tokens, alarm>> ELSE Presented(i)
          /\ refreshing' = [refreshing EXCEPT ![t].result = IF live THEN Len(tokens) + 1 ELSE 0]
    /\ UNCHANGED <<strays, answerLost, signedOut, browser, access, request, signedIn, cached, expired>>

\* One its page gave up before it was handled: the answer goes nowhere.
StrayHandled(i) ==
    /\ Presented(i) /\ strays' = strays \ {i}
    /\ UNCHANGED <<answerLost, signedOut, browser, access, refreshing, request, signedIn, cached,
                   expired>>

\* The page does not wait for its refresh any more.
GivenUp(t) ==
    /\ refreshing' = [refreshing EXCEPT ![t] = None]
    /\ answerLost' = (answerLost \/ (refreshing[t] # None /\ refreshing[t].result # 0))
    /\ \/ UNCHANGED strays
       \/ /\ refreshing[t] # None /\ refreshing[t].result = Sent /\ refreshing[t].token # 0
          /\ strays' = strays \cup {refreshing[t].token}

Woken(t, as) == [request EXCEPT ![t] = [k \in Kinds |-> IF @[k] = "waiting" THEN as ELSE @[k]]]

\* storeSession, and every waiting request is replayed once with the new token.
Refreshed(t) ==
    /\ refreshing[t] # None /\ refreshing[t].result \in Tokens
    /\ Stored(t, refreshing[t].result, tokens[refreshing[t].result].user)
    /\ request' = Woken(t, "sent")
    /\ refreshing' = [refreshing EXCEPT ![t] = None]
    /\ UNCHANGED <<sessionServer, signInStage, signedIn, cached, expired>>

\* onResponse without a new token: the session is cleared and the sign-in screen
\* shown.  A sign-out that was waiting ends as well, and forgets.
Ended(t) ==
    /\ request' = Woken(t, "idle")
    /\ access' = [access EXCEPT ![t] = None] /\ hint' = FALSE
    /\ signedIn' = [signedIn EXCEPT ![t] = FALSE]
    /\ cached' = IF request[t]["logout"] = "waiting" THEN [cached EXCEPT ![t] = None]
                 ELSE cached

RefreshRefused(t) ==
    /\ refreshing[t] # None /\ refreshing[t].result = 0
    /\ refreshing' = [refreshing EXCEPT ![t] = None]
    /\ Ended(t)
    /\ UNCHANGED <<sessionServer, cookie, signInStage, expired>>

\* refreshSession leaves the session alone when the network fails; its caller
\* does not.
RefreshLost(t) ==
    /\ refreshing[t] # None
    /\ GivenUp(t) /\ Ended(t)
    /\ UNCHANGED <<tokens, alarm, signedOut, cookie, signInStage, expired>>

\* A page is loaded, or loaded again: memory goes, the cookie and the hint stay.
ReloadTab(t) ==
    /\ signedIn[t] \/ hint
    /\ access' = [access EXCEPT ![t] = None] /\ cached' = [cached EXCEPT ![t] = None]
    /\ GivenUp(t)
    /\ request' = [request EXCEPT ![t] = Quiet]
    /\ signedIn' = [signedIn EXCEPT ![t] = hint]
    /\ UNCHANGED <<tokens, alarm, signedOut, browser, expired>>

-----------------------------------------------------------------------------
TabNext(t) ==
    \/ SubmitCode(t) \/ SignOutHandled(t) \/ SignOutAnswered(t) \/ SignOutFails(t)
    \/ AccessExpires(t)
    \/ \E k \in Kinds : Send(t, k) \/ Answer(t, k) \/ Unauthorized(t, k)
    \/ RefreshHandled(t) \/ Refreshed(t) \/ RefreshRefused(t) \/ RefreshLost(t)
    \/ ReloadTab(t)

SessionNext ==
    \/ PreviewInvite \/ RequestCode \/ UseDifferentNumber
    \/ \E t \in Tabs : TabNext(t)
    \/ \E i \in DOMAIN tokens : ClosedElsewhere(i)
    \/ \E i \in strays : StrayHandled(i)

-----------------------------------------------------------------------------
\* The 401s of one page end in one refresh (session.ts, refreshing): the server
\* takes a token that was rotated for a stolen one only after a refresh was given
\* up before its answer came, and one that was revoked only after that or after a
\* sign-out.  With two tabs on one cookie it takes both for a theft.
OnlyALossLooksLikeTheft ==
    /\ "rotated" \in alarm => answerLost
    /\ "revoked" \in alarm => answerLost \/ signedOut
=============================================================================
