--------------------------- MODULE BrowserSession ---------------------------
(***************************************************************************)
(* One browser tab of the front end: who is signed in, the access token in *)
(* its sessionStorage, and the notification bell (auth.js, app.js,         *)
(* navigation.js and api-client.js).                                       *)
(*                                                                         *)
(* The page runs on one thread and hands over only where it awaits a call. *)
(* A task is the rest of such an asynchronous function: the calls it still *)
(* has to make, and the first of them under way.  The server takes a call  *)
(* (Serve) and the page takes its answer (Answer) at any later time, in    *)
(* any order of the tasks; a task is not told that the user has changed.   *)
(* A session is one token: the n-th sign-in gets token n.                  *)
(***************************************************************************)
EXTENDS Naturals, FiniteSets, Sequences

CONSTANTS
  Users,
  Notes,         \* notifications
  NotesOf,       \* [Users -> SUBSET Notes]
  MaxLogins,     \* bound: tokens the server issues
  MaxReloads,    \* bound: reloads of the page
  Tasks          \* bound: asynchronous functions under way at once

ASSUME UsersAssumption ==
         Users # {} /\ NotesOf \in [Users -> SUBSET Notes] /\ IsFiniteSet(Notes)
ASSUME BoundsAssumption ==
         /\ MaxLogins \in Nat \ {0}
         /\ MaxReloads \in Nat
         /\ Cardinality(Tasks) >= 2

Tokens == 1 .. MaxLogins
NoToken == 0
Sessions == Tokens \cup {NoToken}

VARIABLES
  \* the server
  holder,      \* whom each issued token was issued to: a sequence of users
  valid,       \* the tokens the server still takes
  sent,        \* notifications created so far
  read,        \* notifications marked as read
  \* the page
  token,       \* gatePassAccessToken in sessionStorage
  user,        \* currentUser, as the session whose answer set it
  appShown,    \* appView is visible, else loginView
  entering,    \* the 300 ms timer of showAuthenticatedApp is running
  seen,        \* seenNotificationIds
  initial,     \* isInitialNotificationLoad
  badge,       \* the number on the bell; 0: hidden
  task,        \* [Tasks -> the asynchronous functions under way]
  reloads,
  \* history
  toasted,     \* shown as a toast since the state was last cleared
  again        \* one of them was shown a second time

serverVars == <<holder, valid, sent, read>>
bellVars == <<seen, initial, badge>>
history == <<toasted, again>>
vars == <<serverVars, token, user, appShown, entering, bellVars, task, reloads, history>>
-----------------------------------------------------------------------------
(* Tasks.  todo: the calls still to be made, the first one under way; by:   *)
(* the token that one was sent with ("request" reads it when it is called); *)
(* answer: "none" until the server has taken it, then "ok", "refused" (any  *)
(* failure but 401) or "expired" (401); got: the notifications it carries,  *)
(* or the token a sign-in gets.                                             *)

\* The calls the server changes or reads its notifications and tokens for, and
\* those of which only the outcome matters; these are taken and answered in
\* one step.  "panel" fills the panel of the bell, "show" the panel, the queue
\* and the visible section.
Stateful == {"login", "password", "unread", "markRead"}
Plain == {"restore", "logout", "lists", "panel", "show"}
Calls == Stateful \cup Plain

Sent(todo, t) == [todo |-> todo, by |-> t, answer |-> "none", got |-> {}]
Idle == Sent(<<>>, NoToken)

\* refreshApplicationState: the fleet and the user's own passes, the unread
\* notifications, then the panel, the queue and the visible section.
Refresh == <<"lists", "unread", "show">>
Poll == <<"unread", "panel">>
OpenPanel == <<"panel", "markRead">>
MarkAll == <<"markRead", "panel">>
ChangePassword == <<"password", "logout">>

Free == {k \in Tasks : task[k].todo = <<>>}
SigningIn == \E k \in Tasks : task[k].todo # <<>> /\ Head(task[k].todo) = "login"

UnreadOf(u) == (sent \ read) \cap NotesOf[u]
UnreadNow(n) == IF n = NoToken THEN {} ELSE UnreadOf(holder[n])
-----------------------------------------------------------------------------
Init ==
  /\ holder = <<>> /\ valid = {} /\ sent = {} /\ read = {}
  /\ token = NoToken /\ user = NoToken
  /\ appShown = FALSE /\ entering = FALSE
  /\ seen = {} /\ initial = TRUE /\ badge = 0
  /\ task = [k \in Tasks |-> Idle]
  /\ reloads = 0
  /\ toasted = {} /\ again = FALSE

(* The server.                                                              *)

NewNote(n) ==
  /\ n \notin sent
  /\ sent' = sent \cup {n}
  /\ UNCHANGED <<holder, valid, read, token, user, appShown, entering, bellVars,
                 task, reloads, history>>

\* A token runs out, or its user's password is changed on another machine.
Expire(t) ==
  /\ t \in valid
  /\ valid' = valid \ {t}
  /\ UNCHANGED <<holder, sent, read, token, user, appShown, entering, bellVars,
                 task, reloads, history>>

\* The server's reply to the call of task k.
Reply(k, a, got) == task' = [task EXCEPT ![k].answer = a, ![k].got = got]
Called(k, call) == Head(task[k].todo) = call

\* OnTokenValidated: a token that has run out, or is older than the password.
RefuseToken(k) ==
  /\ ~Called(k, "login") /\ task[k].by \notin valid
  /\ Reply(k, "expired", {})
  /\ UNCHANGED serverVars

\* Any other failure; whoever may not log in is told so.
RefuseCall(k) ==
  /\ Reply(k, "refused", {})
  /\ UNCHANGED serverVars

\* LoginAsync
ServeLogin(k) ==
  /\ Called(k, "login") /\ Len(holder) < MaxLogins
  /\ \E v \in Users : holder' = Append(holder, v)
  /\ valid' = valid \cup {Len(holder')}
  /\ Reply(k, "ok", {Len(holder')})
  /\ UNCHANGED <<sent, read>>

\* ChangePasswordAsync: every token issued for the old password is dead.
ServePassword(k) ==
  /\ Called(k, "password") /\ task[k].by \in valid
  /\ valid' = {t \in valid : holder[t] # holder[task[k].by]}
  /\ Reply(k, "ok", {})
  /\ UNCHANGED <<holder, sent, read>>

\* GetUnread
ServeUnread(k) ==
  /\ Called(k, "unread") /\ task[k].by \in valid
  /\ Reply(k, "ok", UnreadOf(holder[task[k].by]))
  /\ UNCHANGED serverVars

\* MarkRead, of all the user has by now.
ServeMarkRead(k) ==
  /\ Called(k, "markRead") /\ task[k].by \in valid
  /\ read' = read \cup UnreadOf(holder[task[k].by])
  /\ Reply(k, "ok", {})
  /\ UNCHANGED <<holder, valid, sent>>

\* The server takes the call of task k.
Serve(k) ==
  /\ task[k].todo # <<>> /\ Head(task[k].todo) \in Stateful /\ task[k].answer = "none"
  /\ \/ RefuseToken(k) \/ RefuseCall(k)
     \/ ServeLogin(k) \/ ServePassword(k) \/ ServeUnread(k) \/ ServeMarkRead(k)
  /\ UNCHANGED <<token, user, appShown, entering, bellVars, reloads, history>>
-----------------------------------------------------------------------------
(* What the page does, as parts of its actions.                             *)

\* clearTransientApplicationState: nothing of the last user's notifications is
\* kept but the badge.
ClearState ==
  /\ seen' = {} /\ initial' = TRUE
  /\ toasted' = {} /\ again' = FALSE

\* showAuthenticatedApp in task k: the switch of the section and the event
\* "gatepass:authenticated" start a refresh each.
SignIn(n, k) ==
  /\ user' = n
  /\ entering' = TRUE
  /\ ClearState
  /\ \E j \in Free :
       task' = [i \in Tasks |-> IF i \in {j, k} THEN Sent(Refresh, token') ELSE task[i]]
  /\ UNCHANGED <<appShown, badge>>

\* The end of logout, after its call or without one.
EndSession ==
  /\ token' = NoToken
  /\ user' = NoToken
  /\ appShown' = FALSE
  /\ ClearState
  /\ UNCHANGED <<entering, badge>>

\* The calls task k still makes once its first one is answered with a.  Every
\* part of a refresh asks for currentUser first; opening the panel marks as
\* read only when the badge shows.
Rest(k, a) ==
  LET call == Head(task[k].todo)
      rest == Tail(task[k].todo)
      over == \/ rest = <<>>
              \/ /\ a # "ok"
                 /\ \/ call \in {"lists", "markRead", "password"}
                    \/ call = "unread" /\ Head(rest) = "panel"
  IN IF over THEN <<>>
     ELSE CASE Head(rest) = "markRead" -> IF badge > 0 THEN rest ELSE <<>>
            [] Head(rest) = "logout"   -> IF token = NoToken THEN <<>> ELSE rest
            [] OTHER                   -> IF user' = NoToken THEN <<>> ELSE rest

Continue(k, a) == task' = [task EXCEPT ![k] = Sent(Rest(k, a), token')]
-----------------------------------------------------------------------------
(* Answers.                                                                 *)

\* Task k awaits one of these calls and gets answer a.
Answered(k, calls, a) ==
  /\ task[k].todo # <<>> /\ Head(task[k].todo) \in calls
  /\ IF Head(task[k].todo) \in Stateful
     THEN task[k].answer = a
     ELSE a = "refused" \/ a = IF task[k].by \in valid THEN "ok" ELSE "expired"

Failed == {"refused", "expired"}

\* handleLogin.
AnswerLogin(k) ==
  /\ \/ /\ Answered(k, {"login"}, "ok")
        /\ \E n \in task[k].got : token' = n /\ SignIn(n, k)
     \/ \E a \in Failed :
          /\ Answered(k, {"login"}, a)
          /\ token' = NoToken
          /\ Continue(k, a)
          /\ UNCHANGED <<user, appShown, entering, bellVars, history>>
  /\ UNCHANGED <<serverVars, reloads>>

\* restoreAuthenticatedSession: the page has just been loaded.
AnswerRestore(k) ==
  /\ \/ /\ Answered(k, {"restore"}, "ok")
        /\ token' = token
        /\ SignIn(task[k].by, k)
     \/ /\ Answered(k, {"restore"}, "refused")
        /\ token' = NoToken
        /\ Continue(k, "refused")
        /\ UNCHANGED <<user, appShown, entering, bellVars, history>>
  /\ UNCHANGED <<serverVars, reloads>>

\* Mutant: the answer 401 is an error like any other.
IgnoreExpired(k) ==
  /\ Answered(k, Calls \ {"login", "logout"}, "expired")
  /\ UNCHANGED <<serverVars, token, user, appShown, entering, bellVars, reloads, history>>
  /\ Continue(k, "expired")

\* request: 401 empties sessionStorage and calls logout, which finds no token
\* and ends the session at once; the task then takes it for a failed call.
AnswerExpired(k) ==
  /\ Answered(k, Calls \ {"login", "logout"}, "expired")
  /\ EndSession
  /\ Continue(k, "expired")
  /\ UNCHANGED <<serverVars, reloads>>

\* logout, whatever its call was answered.
AnswerLogout(k) ==
  /\ \E a \in {"ok"} \cup Failed : Answered(k, {"logout"}, a)
  /\ EndSession
  /\ Continue(k, "ok")
  /\ UNCHANGED <<serverVars, reloads>>

\* handleChangePassword: a new password is followed by logout.
AnswerPassword(k) ==
  \E a \in {"ok", "refused"} :
    /\ Answered(k, {"password"}, a)
    /\ IF a = "ok" /\ token = NoToken
       THEN EndSession
       ELSE UNCHANGED <<token, user, appShown, entering, bellVars, history>>
    /\ Continue(k, a)
    /\ UNCHANGED <<serverVars, reloads>>

\* The parts of a refresh that only show what they got.
AnswerShow(k) ==
  \E a \in {"ok", "refused"} :
    /\ Answered(k, {"lists", "panel", "show"}, a)
    /\ UNCHANGED <<serverVars, token, user, appShown, entering, bellVars, reloads, history>>
    /\ Continue(k, a)

\* Mutant: only what the last answer held is remembered.
RememberLast(got) == seen' = got

\* Mutant: an empty answer returns early.
BadgeOfSome(got) == badge' = IF got = {} THEN badge ELSE Cardinality(got)

\* updateNotificationBadge.
UpdateBadge(got) == badge' = Cardinality(got)

Remember(got) == seen' = seen \cup got

\* checkUnreadNotifications: the first answer after the state was cleared only
\* seeds the set; a later one shows a toast for each notification not in it.
\* An answer for somebody else, or for nobody, is taken like any other.
AnswerUnread(k) ==
  \E a \in {"ok", "refused"} :
    /\ Answered(k, {"unread"}, a)
    /\ IF a = "ok"
       THEN LET got == task[k].got
                new == IF initial THEN {} ELSE got \ seen
            IN /\ UpdateBadge(got)
               /\ Remember(got)
               /\ initial' = FALSE
               /\ toasted' = toasted \cup new
               /\ again' = (again \/ new \cap toasted # {})
       ELSE UNCHANGED <<bellVars, history>>
    /\ UNCHANGED <<serverVars, token, user, appShown, entering, reloads>>
    /\ Continue(k, a)

AnswerMarkRead(k) ==
  \E a \in {"ok", "refused"} :
    /\ Answered(k, {"markRead"}, a)
    /\ badge' = IF a = "ok" THEN 0 ELSE badge
    /\ UNCHANGED <<serverVars, token, user, appShown, entering, seen, initial, reloads, history>>
    /\ Continue(k, a)

Answer(k) ==
  \/ AnswerLogin(k) \/ AnswerRestore(k) \/ AnswerExpired(k) \/ AnswerLogout(k)
  \/ AnswerPassword(k) \/ AnswerShow(k) \/ AnswerUnread(k) \/ AnswerMarkRead(k)
-----------------------------------------------------------------------------
(* What the user does, and the timers.                                      *)

Start(todo) ==
  /\ Free # {}
  /\ task' = [task EXCEPT ![CHOOSE k \in Free : TRUE] = Sent(todo, token)]
  /\ UNCHANGED <<serverVars, token, user, appShown, entering, bellVars, reloads, history>>

\* The login form; its button is disabled while it waits.
PressLogin == ~appShown /\ ~SigningIn /\ Start(<<"login">>)

PressLogout ==
  /\ appShown
  /\ \/ token # NoToken /\ Start(<<"logout">>)
     \/ /\ token = NoToken
        /\ EndSession
        /\ UNCHANGED <<serverVars, task, reloads>>

SavePassword ==
  /\ appShown
  /\ \A k \in Tasks : "logout" \notin {task[k].todo[i] : i \in DOMAIN task[k].todo}
  /\ Start(ChangePassword)

\* switchSection.
OpenSection == appShown /\ user # NoToken /\ Start(Refresh)

\* toggleNotificationDropdown.
OpenBell ==
  /\ appShown
  /\ \/ user # NoToken /\ Start(OpenPanel)
     \/ user = NoToken /\ badge > 0 /\ Start(<<"markRead">>)

PressMarkAll == appShown /\ user # NoToken /\ Start(MarkAll)

\* The interval of 10 seconds.
PollTick == user # NoToken /\ token # NoToken /\ Start(Poll)

\* The timer of 300 ms; logging out does not stop it.
Enter ==
  /\ entering
  /\ entering' = FALSE
  /\ appShown' = TRUE
  /\ UNCHANGED <<serverVars, token, user, bellVars, task, reloads, history>>

\* The page forgets everything but sessionStorage.
Reload ==
  /\ reloads < MaxReloads
  /\ reloads' = reloads + 1
  /\ user' = NoToken /\ appShown' = FALSE /\ entering' = FALSE
  /\ badge' = 0
  /\ ClearState
  /\ LET restore == CHOOSE k \in Tasks : TRUE
     IN task' = [k \in Tasks |-> IF k = restore /\ token # NoToken
                                 THEN Sent(<<"restore">>, token) ELSE Idle]
  /\ UNCHANGED <<serverVars, token>>

Next ==
  \/ \E n \in Notes : NewNote(n)
  \/ \E t \in Tokens : Expire(t)
  \/ \E k \in Tasks : Serve(k) \/ Answer(k)
  \/ PressLogin \/ PressLogout \/ SavePassword \/ OpenSection \/ OpenBell \/ PressMarkAll
  \/ PollTick \/ Enter \/ Reload

Spec == Init /\ [][Next]_vars

\* The server takes call c and does not fail.
Takes(c) == \E k \in Tasks : /\ Serve(k) /\ Head(task[k].todo) = c
                             /\ task'[k].answer # "refused"

\* Calls are answered, the timers run, and the calls for unread notifications
\* do not all fail.
\* The bound on tasks may put a poll off, but not for ever.
SessionFairness ==
  /\ \A k \in Tasks : WF_vars(Serve(k)) /\ WF_vars(Answer(k))
  /\ SF_vars(Takes("unread"))
  /\ SF_vars(PollTick)
  /\ WF_vars(Enter)
-----------------------------------------------------------------------------
TypeOK ==
  /\ holder \in Seq(Users) /\ Len(holder) <= MaxLogins
  /\ valid \subseteq 1 .. Len(holder)
  /\ sent \subseteq Notes /\ read \subseteq sent
  /\ token \in 0 .. Len(holder) /\ user \in 0 .. Len(holder)
  /\ appShown \in BOOLEAN /\ entering \in BOOLEAN
  /\ seen \subseteq sent /\ initial \in BOOLEAN /\ badge \in 0 .. Cardinality(Notes)
  /\ reloads \in 0 .. MaxReloads
  /\ toasted \subseteq sent /\ again \in BOOLEAN
  /\ \A k \in Tasks :
       /\ task[k].by \in 0 .. Len(holder)
       /\ task[k].answer \in {"none", "ok", "refused", "expired"}
       /\ task[k].got \subseteq sent \cup 1 .. Len(holder)
       /\ \A i \in DOMAIN task[k].todo : task[k].todo[i] \in Calls

\* The 10-second poll never shows the same alert twice in one session, however
\* the answers of polls and refreshes overtake each other (seenNotificationIds).
NoToastTwice == ~again

\* "The bell badge count (always reflects true unread count)": once nothing
\* more arrives it settles on the number of unread notifications.
BadgeSettles ==
  <>[](user = NoToken \/ token = NoToken \/ badge = Cardinality(UnreadNow(token)))

\* A session whose token the server no longer takes is ended by the page
\* itself, without a click: the poll meets the 401.
ExpiredSessionEnds ==
  \A t \in Tokens : (user # NoToken /\ token = t /\ t \notin valid) ~> (token # t)
=============================================================================
