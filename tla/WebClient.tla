------------------------------- MODULE WebClient -------------------------------
(***************************************************************************)
(* app/static/app.js: the page in one browser.  Each handler sends a        *)
(* request, gives up the thread at await, and goes on with the answer,     *)
(* whatever the other handlers have shown in the meantime.  The browser    *)
(* sets or deletes the cookie when the head of an answer arrives; the      *)
(* handler goes on later, when the body, too, has come:                    *)
(*                                                                         *)
(*   sent -> answered -> received (head) -> idle, or the next request      *)
(*                                                                         *)
(*   boot     auth/me, and when it is refused auth/status                  *)
(*   submit   the form: auth/register in register mode, then auth/login    *)
(*   logout   auth/logout                                                  *)
(*   op       any operation of the page that needs a session               *)
(*                                                                         *)
(* The server is what the page meets of OperatorSessions: a write answers   *)
(* before it is committed (main.py:160-170), one at a time.  Whoever uses  *)
(* the page types the right name and password.                             *)
(***************************************************************************)
EXTENDS Integers, FiniteSets

CONSTANTS
    Tokens, NoToken,
    MaxFaults   \* bound on the requests, answers and commits that are lost

ASSUME TokenAssumption == NoToken \notin Tokens
ASSUME FaultAssumption == MaxFaults \in Nat

VARIABLES
    view, authMode,     \* which part is shown, and what the form does
    calls,              \* the handlers under way
    jar,                \* the session cookie of the browser
    registered, sessions, uncommitted,      \* the server
    faults

page == <<view, authMode>>
server == <<registered, sessions, uncommitted>>
vars == <<page, calls, jar, server, faults>>

Handlers == {"boot", "submit", "logout", "op"}
Idle == [step |-> "idle"]
Nothing == [kind |-> "nothing"]

(* A request takes the cookie the browser has when it is sent.             *)
Sent(request, cookie) == [step |-> "sent", request |-> request, cookie |-> cookie]

Loaded == [h \in Handlers |-> IF h = "boot" THEN Sent("me", jar) ELSE Idle]

Init == /\ view = "auth" /\ authMode = "login"
        /\ jar = NoToken /\ calls = Loaded
        /\ registered = FALSE /\ sessions = {} /\ uncommitted = Nothing
        /\ faults = 0

-----------------------------------------------------------------------------
(* The server and the network.                                             *)

(* cookie is the one a login's answer sets.                                *)
Reply(h, step, answer, cookie) ==
    calls' = [calls EXCEPT ![h] = [step |-> step, request |-> @.request,
                                   answer |-> answer, cookie |-> cookie]]

Plain(h, answer) == Reply(h, "answered", answer, NoToken) /\ UNCHANGED server

Write(h, effect, cookie) == /\ uncommitted = Nothing /\ uncommitted' = effect
                            /\ Reply(h, "answered", "ok", cookie)
                            /\ UNCHANGED <<registered, sessions>>

Held == {calls[h].cookie : h \in {h \in Handlers : calls[h] # Idle}} \cup {jar}

Serve(h) ==
    /\ calls[h].step = "sent"
    /\ LET c == calls[h] IN
       \/ /\ c.request \in {"me", "op"}
          /\ Plain(h, IF c.cookie \in sessions THEN "ok" ELSE "401")
       \/ c.request = "status" /\ Plain(h, IF registered THEN "closed" ELSE "open")
       \/ c.request = "register" /\ registered /\ uncommitted = Nothing /\ Plain(h, "error")
       \/ c.request = "register" /\ ~registered /\ Write(h, [kind |-> "register"], NoToken)
       \/ c.request = "login" /\ ~registered /\ Plain(h, "401")
       \/ /\ c.request = "login" /\ registered
          /\ \E t \in Tokens \ (sessions \cup Held) : Write(h, [kind |-> "login", token |-> t], t)
       \/ c.request = "logout" /\ c.cookie = NoToken /\ Plain(h, "ok")
       \/ /\ c.request = "logout" /\ c.cookie # NoToken
          /\ Write(h, [kind |-> "logout", token |-> c.cookie], NoToken)
    /\ UNCHANGED <<page, jar, faults>>

Commit == /\ uncommitted # Nothing /\ uncommitted' = Nothing
          /\ registered' = (registered \/ uncommitted.kind = "register")
          /\ sessions' = CASE uncommitted.kind = "login" -> sessions \cup {uncommitted.token}
                           [] uncommitted.kind = "logout" -> sessions \ {uncommitted.token}
                           [] uncommitted.kind = "register" -> sessions
          /\ UNCHANGED <<page, calls, jar, faults>>

(* A commit that fails, or a crash before it: the answer is out already.   *)
LoseCommit == /\ faults < MaxFaults /\ faults' = faults + 1
              /\ uncommitted # Nothing /\ uncommitted' = Nothing
              /\ UNCHANGED <<page, calls, jar, registered, sessions>>

(* A session comes to its end, under an open page, too.                    *)
Expire == /\ \E t \in sessions : sessions' = sessions \ {t}
          /\ uncommitted = Nothing
          /\ UNCHANGED <<page, calls, jar, registered, uncommitted, faults>>

(* The head of an answer is there, and the cookie is what it says.         *)
Receive(h) ==
    /\ calls[h].step = "answered"
    /\ LET c == calls[h] IN
       /\ jar' = IF c.answer = "ok" /\ c.request = "login" THEN c.cookie
                 ELSE IF c.answer = "ok" /\ c.request = "logout" THEN NoToken
                 ELSE jar
       /\ Reply(h, "received", c.answer, c.cookie)
    /\ UNCHANGED <<page, server, faults>>

(* The request, the answer or its body is lost: fetch or json throws.  A    *)
(* logout's answer has no body.                                            *)
Lose(h) == /\ faults < MaxFaults /\ faults' = faults + 1
           /\ calls[h] # Idle
           /\ ~(calls[h].step = "received" /\ calls[h].request = "logout")
           /\ Reply(h, "received", "error", NoToken)
           /\ UNCHANGED <<page, jar, server>>

-----------------------------------------------------------------------------
showAuth(open) == /\ view' = "auth" /\ authMode' = IF open THEN "register" ELSE "login"

showApp == view' = "app" /\ UNCHANGED authMode

(* api: every 401 but that of a login shows the form.                      *)
Refused(c) == IF c.answer = "401" /\ c.request # "login" THEN showAuth(FALSE)
              ELSE UNCHANGED page

Answered(h, request) == calls[h].step = "received" /\ calls[h].request = request

(* The handler ends, or goes on with another request.                      *)
Then(h, call) == calls' = [calls EXCEPT ![h] = call] /\ UNCHANGED <<jar, server, faults>>

(* Deviation: without a session the form is for a login.                    *)
BootToLogin ==
    /\ Answered("boot", "me")
    /\ IF calls["boot"].answer = "ok" THEN showApp ELSE showAuth(FALSE)
    /\ Then("boot", Idle)

Boot == /\ Answered("boot", "me")
        /\ IF calls["boot"].answer = "ok" THEN showApp /\ Then("boot", Idle)
           ELSE Refused(calls["boot"]) /\ Then("boot", Sent("status", jar))

BootStatus == /\ Answered("boot", "status")
              /\ showAuth(calls["boot"].answer = "open") /\ Then("boot", Idle)

(* bootstrap, on a page loaded again.                                      *)
Reload == /\ \A h \in Handlers : calls[h] = Idle
          /\ view' = "auth" /\ authMode' = "login"
          /\ calls' = Loaded
          /\ UNCHANGED <<jar, server, faults>>

Submit == /\ view = "auth" /\ calls["submit"] = Idle
          /\ Then("submit", Sent(IF authMode = "register" THEN "register" ELSE "login", jar))
          /\ UNCHANGED page

(* A failed step ends the handler with an error; authMode stays.           *)
Registered == /\ Answered("submit", "register")
              /\ Refused(calls["submit"])
              /\ Then("submit", IF calls["submit"].answer = "ok" THEN Sent("login", jar) ELSE Idle)

LoggedIn == /\ Answered("submit", "login") /\ Then("submit", Idle)
            /\ IF calls["submit"].answer = "ok" THEN showApp ELSE UNCHANGED page

Logout == /\ view = "app" /\ calls["logout"] = Idle
          /\ Then("logout", Sent("logout", jar)) /\ UNCHANGED page

(* finally: the form is shown whether or not the server has logged out.    *)
Left == Answered("logout", "logout") /\ Then("logout", Idle) /\ showAuth(FALSE)

Operate == /\ view = "app" /\ calls["op"] = Idle
           /\ Then("op", Sent("op", jar)) /\ UNCHANGED page

(* Deviation: an api that leaves a 401 to its callers.                      *)
OperatedAnyhow == Answered("op", "op") /\ Then("op", Idle) /\ UNCHANGED page

Operated == Answered("op", "op") /\ Then("op", Idle) /\ Refused(calls["op"])

-----------------------------------------------------------------------------
GoOn == Boot \/ BootStatus \/ Registered \/ LoggedIn \/ Left \/ Operated

Next == \/ \E h \in Handlers : Serve(h) \/ Receive(h) \/ Lose(h)
        \/ Commit \/ LoseCommit \/ Expire
        \/ GoOn
        \/ Reload \/ Submit \/ Logout \/ Operate

Spec == Init /\ [][Next]_vars

(* The server answers and commits, answers arrive, the page goes on, and   *)
(* sessions end in time.                                                   *)
ServedSpec == /\ Spec /\ \A h \in Handlers : WF_vars(Serve(h)) /\ WF_vars(Receive(h))
              /\ WF_vars(Commit) /\ WF_vars(Expire)
              /\ WF_vars(Boot \/ BootStatus) /\ WF_vars(Registered \/ LoggedIn)
              /\ WF_vars(Left) /\ WF_vars(Operated)

(* Whoever sees the form submits it again and again, not only while the     *)
(* page is still starting, and loads the page again when nothing goes on:  *)
(* a form that registers stays in that mode.  Whoever sees the operator's  *)
(* part goes on working with it.                                           *)
FairSpec == /\ ServedSpec
            /\ SF_vars(Submit /\ calls["boot"] = Idle)
            /\ SF_vars(view = "auth" /\ Reload)
            /\ SF_vars(Operate)

-----------------------------------------------------------------------------
(* technical-spec.md, FR-01 and FR-11: who keeps submitting the right      *)
(* name and password, and reloads, gets from the form to the operator's    *)
(* part, whichever of the two calls of a registration fails.               *)
SignsIn == view = "auth" ~> view = "app"

(* The operator's part may be shown without a session: a login's commit was *)
(* lost, a logout's answer took the cookie of the login it crossed, a late *)
(* first answer came after a logout, the session ended.  Whoever works on  *)
(* is shown the form.                                                      *)
Mended == view = "app" /\ jar \notin sessions ~> view = "auth" \/ jar \in sessions
=============================================================================
