--------------------------- MODULE ConsoleSession ---------------------------
(***************************************************************************)
(* The operator session of the browser console and the sessions the        *)
(* gateway keeps for it.  A served sign-in starts a session with a row, a  *)
(* refresh follows it with another; access and refresh token of one answer *)
(* are named by the number of that row.  A refresh rotates the row: the    *)
(* tokens of the old one are refused from then on.  A sign-in whose answer *)
(* is lost is sent again and may leave sessions that nobody holds.         *)
(* Requests of the console that are refused ask for one shared refresh and *)
(* are sent again with its answer.                                         *)
(***************************************************************************)
EXTENDS Integers, Sequences, FiniteSets

CONSTANTS
    MaxLogins,      \* bound on sign-ins
    MaxSessions,    \* bound on session rows: at the bound a refresh is refused
    MaxStarts,      \* bound on changes submitted by the operator
    MaxLapses,      \* bound on access tokens that expire
    MaxFaults,      \* bound on requests lost, timed out or answered with 5xx
    Changes,        \* the changes the operator submits, of "create", "update" and "reset"
    MaxAttempts     \* attempts of one request (3 unless the caller says 1)

ASSUME ConsoleSessionAssumption ==
    /\ MaxLogins \in Nat /\ MaxSessions \in Nat /\ MaxStarts \in Nat
    /\ MaxLapses \in Nat /\ MaxFaults \in Nat
    /\ MaxAttempts \in 1 .. 4
    /\ Changes \subseteq {"create", "update", "reset"}

VARIABLES
    sessions,   \* the session rows, oldest first: [chain, status, fresh]; chain is the
                \* number of the row the session began with
    refreshes,  \* every POST /auth/refresh made: [token, server, got, open]
    signedIn,   \* adminSession and its ref: [access, refresh], 0 is no token
    promise,    \* adminRefreshPromiseRef: the refresh in flight, 0 is null
    login,      \* the sign-in in flight: [phase, got, attempt, late]; late counts the posts
                \* given up that may still reach the gateway
    logout,     \* the sign-out in flight: [phase, token]
    calls,      \* the request in flight per query or mutation
    loads,      \* running loadAdminUsersAndRoles: [awaits, closes]
    admin,      \* the administration tab: [open, rows, panel]
    used        \* the bounded inputs taken so far

sessionVars == <<sessions, refreshes, signedIn, promise, login, logout, calls, loads, admin, used>>

Queries == {"users", "roles"}
Requests == Queries \cup {"change"}
Idle == [phase |-> "idle", token |-> 0, captured |-> 0, refreshed |-> FALSE,
         attempt |-> 1, round |-> 1, wait |-> 0, what |-> "load"]
Cleared == [access |-> 0, refresh |-> 0]
LastRow == Len(sessions)
InFlight(k) == calls[k].phase # "idle"

\* The gateway accepts an access token while its row is active and it has not expired.
Accepted(i) == i \in 1 .. LastRow /\ sessions[i].status = "active" /\ sessions[i].fresh

NewRow(n) == [chain |-> n, status |-> "active", fresh |-> TRUE]

\* No sign-in is awaited, whatever is still on its way.
LoginAtRest(late) == [phase |-> "idle", got |-> 0, attempt |-> 1, late |-> late]

Request(token, what) ==
    [Idle EXCEPT !.phase = "sent", !.token = token, !.captured = token, !.what = what]

\* A query in flight is joined by whoever asks for it again.
Fetched(cs, token) ==
    [k \in Requests |-> IF k \in Queries /\ cs[k].phase = "idle" THEN Request(token, "load") ELSE cs[k]]

ConsoleInit ==
    /\ sessions = <<>> /\ refreshes = <<>>
    /\ signedIn = Cleared /\ promise = 0
    /\ login = LoginAtRest(0)
    /\ logout = [phase |-> "idle", token |-> 0]
    /\ calls = [k \in Requests |-> Idle]
    /\ loads = {}
    /\ admin = [open |-> FALSE, rows |-> FALSE, panel |-> FALSE]
    /\ used = [login |-> 0, start |-> 0, lapse |-> 0, fault |-> 0]

Takes(what, bound) == used[what] < bound /\ used' = [used EXCEPT ![what] = @ + 1]

(***************************************************************************)
(* Signing in and out                                                      *)
(***************************************************************************)
\* The administration tab loads its rows again whenever the access token changes.
SignedInWith(pair, cs) ==
    /\ signedIn' = pair
    /\ calls' = IF admin.open THEN Fetched(cs, pair.access) ELSE cs
    /\ loads' = IF admin.open THEN loads \cup {[awaits |-> Queries, closes |-> FALSE]} ELSE loads
    /\ UNCHANGED admin

\* expireAdminSession: the session and the rows go, the home tab is shown.
Expired ==
    /\ signedIn' = Cleared
    /\ admin' = [admin EXCEPT !.open = FALSE, !.rows = FALSE]

SubmitLogin ==
    /\ signedIn.access = 0 /\ login.phase = "idle"
    /\ Takes("login", MaxLogins)
    /\ login' = [login EXCEPT !.phase = "sent"]
    /\ UNCHANGED <<sessions, refreshes, signedIn, promise, logout, calls, loads, admin>>

\* A session of its own for every post the gateway accepts.
SessionStarts == LastRow < MaxSessions /\ sessions' = Append(sessions, NewRow(LastRow + 1))

LoginServed ==
    /\ login.phase = "sent" /\ SessionStarts
    /\ login' = [login EXCEPT !.phase = "answered", !.got = LastRow + 1]
    /\ UNCHANGED <<refreshes, signedIn, promise, logout, calls, loads, admin, used>>

\* A post that was given up is served all the same; its answer reaches nobody.
LateLoginServed ==
    /\ login.late > 0 /\ SessionStarts
    /\ login' = [login EXCEPT !.late = @ - 1]
    /\ UNCHANGED <<refreshes, signedIn, promise, logout, calls, loads, admin, used>>

\* No answer in time, or a lost one: whether the gateway ever sees the post is open.
GivenUp == {login.late} \cup (IF login.phase = "sent" THEN {login.late + 1} ELSE {})

\* fetchJson sends the sign-in again, whatever became of the attempt before.
LoginRetried ==
    /\ login.phase # "idle" /\ login.attempt < MaxAttempts
    /\ Takes("fault", MaxFaults)
    /\ \E late \in GivenUp :
           login' = [phase |-> "sent", got |-> 0, attempt |-> login.attempt + 1, late |-> late]
    /\ UNCHANGED <<sessions, refreshes, signedIn, promise, logout, calls, loads, admin>>

\* adminLogin keeps both tokens; a completed OIDC callback has no refresh token.
LoginDone ==
    /\ login.phase = "answered"
    /\ \E refresh \in {0, login.got} :
           SignedInWith([access |-> login.got, refresh |-> refresh], calls)
    /\ login' = LoginAtRest(login.late)
    /\ UNCHANGED <<sessions, refreshes, promise, logout, used>>

\* The gateway refuses every attempt, or the last one fails.
LoginFails ==
    /\ \/ /\ login.phase = "sent" /\ login' = LoginAtRest(login.late)
          /\ UNCHANGED used
       \/ /\ login.phase # "idle" /\ login.attempt = MaxAttempts
          /\ Takes("fault", MaxFaults)
          /\ \E late \in GivenUp : login' = LoginAtRest(late)
    /\ UNCHANGED <<sessions, refreshes, signedIn, promise, logout, calls, loads, admin>>

SubmitLogout ==
    /\ signedIn.access # 0 /\ logout.phase = "idle"
    /\ logout' = [phase |-> "sent", token |-> signedIn.access]
    /\ UNCHANGED <<sessions, refreshes, signedIn, promise, login, calls, loads, admin, used>>

LogoutServed ==
    /\ logout.phase = "sent"
    /\ sessions' = IF Accepted(logout.token)
                   THEN [sessions EXCEPT ![logout.token].status = "revoked"] ELSE sessions
    /\ logout' = [logout EXCEPT !.phase = "answered"]
    /\ UNCHANGED <<refreshes, signedIn, promise, login, calls, loads, admin, used>>

\* Whatever the gateway answered, or nothing at all, the console clears itself.
LogoutDone ==
    /\ \/ logout.phase = "answered" /\ UNCHANGED used
       \/ logout.phase = "sent" /\ Takes("fault", MaxFaults)
    /\ signedIn' = Cleared
    /\ admin' = [open |-> FALSE, rows |-> FALSE, panel |-> FALSE]
    /\ logout' = [phase |-> "idle", token |-> 0]
    /\ UNCHANGED <<sessions, refreshes, promise, login, calls, loads>>

AccessTokenLapses(i) ==
    /\ sessions[i].status = "active" /\ sessions[i].fresh
    /\ Takes("lapse", MaxLapses)
    /\ sessions' = [sessions EXCEPT ![i].fresh = FALSE]
    /\ UNCHANGED <<refreshes, signedIn, promise, login, logout, calls, loads, admin>>

(***************************************************************************)
(* Administration requests                                                 *)
(***************************************************************************)
OpenAdministration ==
    /\ signedIn.access # 0 /\ ~admin.open
    /\ calls' = Fetched(calls, signedIn.access)
    /\ loads' = loads \cup {[awaits |-> Queries, closes |-> FALSE]}
    /\ admin' = [admin EXCEPT !.open = TRUE]
    /\ UNCHANGED <<sessions, refreshes, signedIn, promise, login, logout, used>>

SelectUser ==
    /\ admin.open /\ admin.rows /\ ~admin.panel
    /\ admin' = [admin EXCEPT !.panel = TRUE]
    /\ UNCHANGED <<sessions, refreshes, signedIn, promise, login, logout, calls, loads, used>>

\* createAdminUser, updateAdminUser and resetAdminUserPassword.
SubmitChange(what) ==
    /\ admin.open /\ signedIn.access # 0 /\ ~InFlight("change")
    /\ what \in {"update", "reset"} => admin.panel
    /\ Takes("start", MaxStarts)
    /\ calls' = [calls EXCEPT !["change"] = Request(signedIn.access, what)]
    /\ UNCHANGED <<sessions, refreshes, signedIn, promise, login, logout, loads, admin>>

Without(k) == [calls EXCEPT ![k] = Idle]

\* A finished query leaves the loads that awaited it; one that awaited no other shows its rows.
QueryDone(k) ==
    LET finished == {l \in loads : l.awaits = {k}} IN
    /\ loads' = {[l EXCEPT !.awaits = @ \ {k}] : l \in loads \ finished}
    /\ admin' = [admin EXCEPT
           !.rows = @ \/ finished # {},
           !.panel = IF \E l \in finished : l.closes THEN FALSE ELSE @]

QueryFailed(k) ==
    LET failed == {l \in loads : k \in l.awaits} IN
    /\ loads' = loads \ failed
    /\ admin' = [admin EXCEPT
           !.rows = @ /\ failed = {},
           !.panel = IF \E l \in failed : l.closes THEN FALSE ELSE @]

\* The change was applied: its handler loads the rows again, with the token it began with.
ChangeDone ==
    /\ calls' = Fetched(Without("change"), calls["change"].captured)
    /\ loads' = loads \cup {[awaits |-> Queries, closes |-> calls["change"].what = "update"]}
    /\ UNCHANGED admin

Answered(k) ==
    /\ calls[k].phase = "sent" /\ Accepted(calls[k].token)
    /\ IF k = "change" THEN ChangeDone ELSE calls' = Without(k) /\ QueryDone(k)
    /\ UNCHANGED <<sessions, refreshes, signedIn, promise, login, logout, used>>

Denied(k) ==
    /\ calls[k].phase = "sent" /\ ~Accepted(calls[k].token)
    /\ calls' = [calls EXCEPT ![k].phase = IF calls[k].refreshed THEN "refused" ELSE "denied"]
    /\ UNCHANGED <<sessions, refreshes, signedIn, promise, login, logout, loads, admin, used>>

\* No answer, a timeout or a 5xx: the next attempt, while there is one.
Attempt(k) ==
    /\ calls[k].phase = "sent"
    /\ Takes("fault", MaxFaults)
    /\ calls' = IF calls[k].attempt < MaxAttempts
                THEN [calls EXCEPT ![k].attempt = @ + 1]
                ELSE [calls EXCEPT ![k].phase = "refused"]
    /\ UNCHANGED <<sessions, refreshes, signedIn, promise, login, logout, loads, admin>>

\* Mutant: a query is run again as often as it fails.
FailsForEver(k) ==
    /\ calls[k].phase = "refused"
    /\ calls' = IF k \in Queries THEN [calls EXCEPT ![k] = Request(@.captured, @.what)] ELSE Without(k)
    /\ UNCHANGED <<sessions, refreshes, signedIn, promise, login, logout, loads, admin, used>>

\* The request failed: a query is run once more from its first options, a mutation is not.
Fails(k) ==
    /\ calls[k].phase = "refused"
    /\ \/ /\ k \in Queries /\ calls[k].round = 1
          /\ calls' = [calls EXCEPT ![k] = [Request(@.captured, @.what) EXCEPT !.round = 2]]
          /\ UNCHANGED <<loads, admin>>
       \/ /\ k \in Queries /\ calls[k].round = 2
          /\ calls' = Without(k) /\ QueryFailed(k)
       \/ /\ k = "change"
          /\ calls' = Without(k)
          /\ UNCHANGED <<loads, admin>>
    /\ UNCHANGED <<sessions, refreshes, signedIn, promise, login, logout, used>>

(***************************************************************************)
(* The refresh shared by the refused requests                              *)
(***************************************************************************)
Waiting(k, r) == [calls EXCEPT ![k].phase = "waiting", ![k].refreshed = TRUE, ![k].wait = r]

\* Mutant: every refused request refreshes for itself.
RefreshAlone(k) ==
    /\ calls[k].phase = "denied" /\ signedIn.refresh # 0
    /\ refreshes' = Append(refreshes,
           [token |-> signedIn.refresh, server |-> "sent", got |-> 0, open |-> TRUE])
    /\ promise' = Len(refreshes) + 1
    /\ calls' = Waiting(k, Len(refreshes) + 1)
    /\ UNCHANGED <<sessions, signedIn, login, logout, loads, admin, used>>

RefreshAccessToken(k) ==
    /\ calls[k].phase = "denied"
    /\ \/ /\ promise # 0
          /\ calls' = Waiting(k, promise)
          /\ UNCHANGED <<refreshes, promise, signedIn, admin>>
       \/ /\ promise = 0 /\ signedIn.refresh # 0
          /\ refreshes' = Append(refreshes,
                 [token |-> signedIn.refresh, server |-> "sent", got |-> 0, open |-> TRUE])
          /\ promise' = Len(refreshes) + 1
          /\ calls' = Waiting(k, Len(refreshes) + 1)
          /\ UNCHANGED <<signedIn, admin>>
       \/ /\ promise = 0 /\ signedIn.refresh = 0
          /\ Expired
          /\ calls' = [calls EXCEPT ![k].phase = "refused", ![k].refreshed = TRUE]
          /\ UNCHANGED <<refreshes, promise>>
    /\ UNCHANGED <<sessions, login, logout, loads, used>>

\* The gateway reads the row of the refresh token ...
RefreshChecked(r) ==
    /\ refreshes[r].server = "sent"
    /\ refreshes' = [refreshes EXCEPT ![r].server =
           IF sessions[refreshes[r].token].status = "active" /\ LastRow < MaxSessions
           THEN "checked" ELSE "refused"]
    /\ UNCHANGED <<sessions, signedIn, promise, login, logout, calls, loads, admin, used>>

\* ... and commits its rotation together with the row that follows it.
RefreshCommitted(r) ==
    LET old == refreshes[r].token IN
    /\ refreshes[r].server = "checked"
    /\ sessions' = Append([sessions EXCEPT ![old].status = "rotated"], NewRow(sessions[old].chain))
    /\ refreshes' = [refreshes EXCEPT ![r].server = "answered", ![r].got = LastRow + 1]
    /\ UNCHANGED <<signedIn, promise, login, logout, calls, loads, admin, used>>

RefreshDone(r) ==
    LET resent(got) == [k \in Requests |->
            IF calls[k].phase = "waiting" /\ calls[k].wait = r
            THEN [calls[k] EXCEPT !.phase = "sent", !.token = got, !.wait = 0] ELSE calls[k]]
    IN
    /\ refreshes[r].open /\ refreshes[r].server = "answered"
    /\ SignedInWith([access |-> refreshes[r].got, refresh |-> refreshes[r].got], resent(refreshes[r].got))
    /\ refreshes' = [refreshes EXCEPT ![r].open = FALSE]
    /\ promise' = 0
    /\ UNCHANGED <<sessions, login, logout, used>>

\* A refusal, or no answer in time: whoever is signed in now is signed out.
RefreshFails(r) ==
    /\ refreshes[r].open
    /\ \/ refreshes[r].server = "refused" /\ UNCHANGED used
       \/ Takes("fault", MaxFaults)
    /\ Expired
    /\ refreshes' = [refreshes EXCEPT ![r].open = FALSE]
    /\ promise' = 0
    /\ calls' = [k \in Requests |->
           IF calls[k].phase = "waiting" /\ calls[k].wait = r
           THEN [calls[k] EXCEPT !.phase = "refused", !.wait = 0] ELSE calls[k]]
    /\ UNCHANGED <<sessions, login, logout, loads>>

RefreshStep(r) ==
    \/ RefreshChecked(r)
    \/ RefreshCommitted(r)
    \/ RefreshDone(r)
    \/ RefreshFails(r)

CallStep(k) ==
    \/ Answered(k)
    \/ Denied(k)
    \/ Attempt(k)
    \/ Fails(k)
    \/ RefreshAccessToken(k)

ConsoleNext ==
    \/ SubmitLogin \/ LoginServed \/ LateLoginServed \/ LoginRetried \/ LoginDone \/ LoginFails
    \/ SubmitLogout \/ LogoutServed \/ LogoutDone
    \/ \E i \in 1 .. LastRow : AccessTokenLapses(i)
    \/ OpenAdministration \/ SelectUser
    \/ \E what \in Changes : SubmitChange(what)
    \/ \E k \in Requests : CallStep(k)
    \/ \E r \in 1 .. Len(refreshes) : RefreshStep(r)

\* The gateway answers and the event loop runs; the operator and faults owe nothing.
ConsoleFairness ==
    /\ \A k \in Requests : WF_sessionVars(Answered(k) \/ Denied(k) \/ Fails(k) \/ RefreshAccessToken(k))
    /\ WF_sessionVars(\E r \in 1 .. Len(refreshes) : RefreshStep(r))

ConsoleSpec == ConsoleInit /\ [][ConsoleNext]_sessionVars /\ ConsoleFairness

(***************************************************************************)
(* Properties                                                              *)
(***************************************************************************)
TypeOK ==
    /\ sessions \in Seq([chain : Nat \ {0}, status : {"active", "rotated", "revoked"}, fresh : BOOLEAN])
    /\ refreshes \in Seq([token : Nat \ {0}, server : {"sent", "checked", "refused", "answered"},
                          got : Nat, open : BOOLEAN])
    /\ signedIn \in [access : Nat, refresh : Nat]
    /\ promise \in Nat
    /\ login \in [phase : {"idle", "sent", "answered"}, got : Nat, attempt : 1 .. 4, late : Nat]
    /\ logout \in [phase : {"idle", "sent", "answered"}, token : Nat]
    /\ calls \in [Requests -> [phase : {"idle", "sent", "denied", "waiting", "refused"},
                               token : Nat, captured : Nat, refreshed : BOOLEAN, attempt : 1 .. 4,
                               round : 1 .. 2, wait : Nat, what : Changes \cup {"load"}]]
    /\ loads \subseteq [awaits : SUBSET Queries, closes : BOOLEAN]
    /\ admin \in [open : BOOLEAN, rows : BOOLEAN, panel : BOOLEAN]
    /\ used \in [{"login", "start", "lapse", "fault"} -> Nat]

\* The console never presents a refresh token twice, although several requests are
\* refused at the same time and although a refresh may be lost: the second use of a
\* rotated token would be refused and would sign the operator out.
RefreshTokenPresentedOnce ==
    \A r, s \in 1 .. Len(refreshes) : refreshes[r].token = refreshes[s].token => r = s

\* The gateway never holds two live rows of one session, although it reads a row and
\* rotates it in a transaction that does not lock it, and although the console gives a
\* refresh up that is still served: only one refresh of a row is ever made.  A sign-in may
\* have several sessions, of which the operator knows the last answered.
OneLiveRowPerSession ==
    \A i, j \in 1 .. LastRow :
        sessions[i].status = "active" /\ sessions[j].status = "active"
            /\ sessions[i].chain = sessions[j].chain => i = j

\* One token, one row: neither the console nor the gateway ever splits a session.
SessionIsNeverSplit == RefreshTokenPresentedOnce /\ OneLiveRowPerSession

\* No request of the console stays under way for ever: it is settled, by rows or by an
\* error, however often the refreshes of other requests rotate the token it was sent with.
RequestsSettle == \A k \in Requests : []<>~InFlight(k)

=============================================================================
