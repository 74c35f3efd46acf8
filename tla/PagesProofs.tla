----------------------------- MODULE PagesProofs -----------------------------
(***************************************************************************)
(* Theorems about the parts of the page: the session and its bell           *)
(* (BrowserSession), the scanner page, the request forms and the schedule   *)
(* calendar, for every set of users, notifications, codes, employees and    *)
(* bookings and every bound.                                                *)
(***************************************************************************)
EXTENDS BrowserSession, ScannerPage, RequestForms, ScheduleCalendar,
        FoldLemmas, SequenceTheorems, FiniteSetTheorems, TLAPS

(* The session and its bell                                                *)

\* What was shown as a toast is remembered, and the first load of a session
\* has nothing to remember.
ToastsRemembered ==
  /\ toasted \subseteq seen
  /\ initial => toasted = {}
  /\ ~again

\* The variables the bell's memory is made of.
memory == <<seen, initial, toasted, again>>

\* Clearing the state forgets the toasts together with what was seen.
LEMMA ClearedMemory ==
  ASSUME ClearState
  PROVE  ToastsRemembered'
BY DEF ClearState, ToastsRemembered

\* An answer with unread notifications: what it shows was not seen before, so
\* was not shown before, and is seen from then on.
LEMMA UnreadKeepsMemory ==
  ASSUME ToastsRemembered, NEW k \in Tasks, AnswerUnread(k)
  PROVE  ToastsRemembered'
<1>1. PICK a \in {"ok", "refused"} :
        IF a = "ok"
        THEN LET got == task[k].got
                 new == IF initial THEN {} ELSE got \ seen
             IN /\ Remember(got)
                /\ initial' = FALSE
                /\ toasted' = toasted \cup new
                /\ again' = (again \/ new \cap toasted # {})
        ELSE UNCHANGED memory
  BY DEF AnswerUnread, bellVars, history, memory
<1>2. CASE a # "ok"
  BY <1>1, <1>2 DEF ToastsRemembered, memory
<1>3. CASE a = "ok"
  <2> DEFINE got == task[k].got
             new == IF initial THEN {} ELSE got \ seen
  <2>1. /\ seen' = seen \cup got
        /\ initial' = FALSE
        /\ toasted' = toasted \cup new
        /\ again' = (again \/ new \cap toasted # {})
    BY <1>1, <1>3 DEF Remember
  <2>2. new \subseteq got /\ new \cap toasted = {}
    BY DEF ToastsRemembered
  <2>3. again' = FALSE
    BY <2>1, <2>2 DEF ToastsRemembered
  <2>4. QED BY <2>1, <2>2, <2>3 DEF ToastsRemembered
<1>4. QED BY <1>2, <1>3

\* Every other answer clears the memory or leaves it alone.
LEMMA OtherAnswersKeepMemory ==
  ASSUME ToastsRemembered, NEW k \in Tasks,
         \/ AnswerLogin(k) \/ AnswerRestore(k) \/ AnswerExpired(k) \/ AnswerLogout(k)
         \/ AnswerPassword(k) \/ AnswerShow(k) \/ AnswerMarkRead(k)
  PROVE  ToastsRemembered'
<1>1. UNCHANGED memory => ToastsRemembered'
  BY DEF ToastsRemembered, memory
<1>2. CASE AnswerLogin(k)
  BY <1>1, <1>2, ClearedMemory DEF AnswerLogin, SignIn, memory, bellVars, history
<1>3. CASE AnswerRestore(k)
  BY <1>1, <1>3, ClearedMemory DEF AnswerRestore, SignIn, memory, bellVars, history
<1>4. CASE AnswerExpired(k)
  BY <1>4, ClearedMemory DEF AnswerExpired, EndSession
<1>5. CASE AnswerLogout(k)
  BY <1>5, ClearedMemory DEF AnswerLogout, EndSession
<1>6. CASE AnswerPassword(k)
  BY <1>1, <1>6, ClearedMemory DEF AnswerPassword, EndSession, memory, bellVars, history
<1>7. CASE AnswerShow(k)
  BY <1>1, <1>7 DEF AnswerShow, memory, bellVars, history
<1>8. CASE AnswerMarkRead(k)
  BY <1>1, <1>8 DEF AnswerMarkRead, memory, history
<1>9. QED BY <1>2, <1>3, <1>4, <1>5, <1>6, <1>7, <1>8

\* No step of the page, the user or the server loses the memory of a toast.
LEMMA MemoryInductive == ToastsRemembered /\ [Next]_vars => ToastsRemembered'
<1> SUFFICES ASSUME ToastsRemembered, [Next]_vars PROVE ToastsRemembered'
  OBVIOUS
<1>1. UNCHANGED memory => ToastsRemembered'
  BY DEF ToastsRemembered, memory
<1>2. ASSUME NEW n \in Notes, NewNote(n) PROVE ToastsRemembered'
  BY <1>1, <1>2 DEF NewNote, memory, bellVars, history
<1>3. ASSUME NEW t \in Tokens, Expire(t) PROVE ToastsRemembered'
  BY <1>1, <1>3 DEF Expire, memory, bellVars, history
<1>4. ASSUME NEW k \in Tasks, Serve(k) PROVE ToastsRemembered'
  BY <1>1, <1>4 DEF Serve, memory, bellVars, history
<1>5. ASSUME NEW k \in Tasks, Answer(k) PROVE ToastsRemembered'
  BY <1>5, UnreadKeepsMemory, OtherAnswersKeepMemory DEF Answer
<1>6. ASSUME NEW todo, Start(todo) PROVE ToastsRemembered'
  BY <1>1, <1>6 DEF Start, memory, bellVars, history
<1>7. CASE PressLogin \/ SavePassword \/ OpenSection \/ OpenBell \/ PressMarkAll \/ PollTick
  BY <1>6, <1>7 DEF PressLogin, SavePassword, OpenSection, OpenBell, PressMarkAll, PollTick
<1>8. CASE PressLogout
  BY <1>6, <1>8, ClearedMemory DEF PressLogout, EndSession
<1>9. CASE Enter
  BY <1>1, <1>9 DEF Enter, memory, bellVars, history
<1>10. CASE Reload
  BY <1>10, ClearedMemory DEF Reload
<1>11. CASE UNCHANGED vars
  BY <1>1, <1>11 DEF vars, memory, bellVars, history
<1>12. QED
  BY <1>2, <1>3, <1>4, <1>5, <1>7, <1>8, <1>9, <1>10, <1>11 DEF Next

\* No notification is shown as a toast twice in one session, whatever polls,
\* refreshes, sign-ins and their answers overtake each other
\* (checkUnreadNotifications and seenNotificationIds).
THEOREM NeverToastedTwice == Spec => []NoToastTwice
<1>1. Init => ToastsRemembered
  BY DEF Init, ToastsRemembered
<1>2. ToastsRemembered => NoToastTwice
  BY DEF ToastsRemembered, NoToastTwice
<1>3. QED BY <1>1, <1>2, MemoryInductive, PTL DEF Spec
-----------------------------------------------------------------------------
(* Types of the session                                                    *)

Replies == {"none", "ok", "refused", "expired"}

\* Tasks when n tokens were issued and these notifications sent: a sign-in is
\* answered with a token, every other call with notifications.
TaskTypes(n, notes) ==
  {c \in [todo : Seq(Calls), by : 0 .. n, answer : Replies, got : SUBSET (notes \cup 1 .. n)] :
     c.todo # <<>> => c.got \subseteq IF Head(c.todo) = "login" THEN 1 .. n ELSE notes}

ServerTyped ==
  /\ holder \in Seq(Users) /\ Len(holder) <= MaxLogins
  /\ valid \subseteq 1 .. Len(holder)
  /\ sent \subseteq Notes /\ read \subseteq sent

PageTyped ==
  /\ token \in 0 .. Len(holder) /\ user \in 0 .. Len(holder)
  /\ appShown \in BOOLEAN /\ entering \in BOOLEAN
  /\ seen \subseteq sent /\ initial \in BOOLEAN /\ badge \in 0 .. Cardinality(Notes)
  /\ reloads \in 0 .. MaxReloads
  /\ toasted \subseteq sent /\ again \in BOOLEAN

TasksTyped == task \in [Tasks -> TaskTypes(Len(holder), sent)]

SessionInv == ServerTyped /\ PageTyped /\ TasksTyped

LEMMA Fresh ==
  ASSUME NEW n \in Nat, NEW notes, NEW todo \in Seq(Calls), NEW t \in 0 .. n
  PROVE  Sent(todo, t) \in TaskTypes(n, notes)
BY DEF Sent, TaskTypes, Replies

LEMMA Wider ==
  ASSUME NEW n \in Nat, NEW m \in Nat, n <= m, NEW notes, NEW more, notes \subseteq more
  PROVE  TaskTypes(n, notes) \subseteq TaskTypes(m, more)
<1>1. 0 .. n \subseteq 0 .. m /\ 1 .. n \subseteq 1 .. m
  OBVIOUS
<1>2. QED BY <1>1 DEF TaskTypes

\* The calls a page begins with, and the calls that are left after one.
LEMMA CallLists ==
  /\ \A call \in Calls : <<call>> \in Seq(Calls)
  /\ {Refresh, Poll, OpenPanel, MarkAll, ChangePassword, <<>>} \subseteq Seq(Calls)
  /\ {"login", "logout", "restore", "markRead"} \subseteq Calls
BY DEF Refresh, Poll, OpenPanel, MarkAll, ChangePassword, Calls, Stateful, Plain

LEMMA RestTyped ==
  ASSUME NEW k \in Tasks, task[k].todo \in Seq(Calls), task[k].todo # <<>>, NEW a
  PROVE  Rest(k, a) \in Seq(Calls)
<1>1. Tail(task[k].todo) \in Seq(Calls) /\ <<>> \in Seq(Calls)
  OBVIOUS
<1>2. Rest(k, a) \in {Tail(task[k].todo), <<>>}
  BY DEF Rest
<1>3. QED BY <1>1, <1>2

\* One task goes on, or a new one begins; nothing new was issued or sent.
LEMMA TaskGoesOn ==
  ASSUME SessionInv, UNCHANGED serverVars, token' \in 0 .. Len(holder),
         NEW k \in Tasks, NEW todo \in Seq(Calls),
         task' = [task EXCEPT ![k] = Sent(todo, token')]
  PROVE  TasksTyped'
<1>1. Len(holder) \in Nat /\ holder' = holder /\ sent' = sent
  BY DEF SessionInv, ServerTyped, serverVars
<1>2. Sent(todo, token') \in TaskTypes(Len(holder), sent)
  BY <1>1, Fresh
<1>3. QED BY <1>1, <1>2 DEF SessionInv, TasksTyped

\* What an awaited task is, and what its answer holds.
LEMMA AnsweredTyped ==
  ASSUME SessionInv, NEW k \in Tasks, NEW calls, NEW a, Answered(k, calls, a)
  PROVE  /\ task[k].todo \in Seq(Calls) /\ task[k].todo # <<>>
         /\ Head(task[k].todo) \in calls
         /\ task[k].by \in 0 .. Len(holder)
         /\ task[k].got \subseteq IF Head(task[k].todo) = "login" THEN 1 .. Len(holder) ELSE sent
BY DEF Answered, SessionInv, TasksTyped, TaskTypes

LEMMA SessionContinues ==
  ASSUME SessionInv, UNCHANGED serverVars, token' \in 0 .. Len(holder),
         NEW k \in Tasks, NEW calls, NEW a, Answered(k, calls, a),
         NEW b, Continue(k, b)
  PROVE  TasksTyped'
<1>1. Rest(k, b) \in Seq(Calls)
  BY AnsweredTyped, RestTyped
<1>2. QED BY <1>1, TaskGoesOn DEF Continue

LEMMA ClearedTyped ==
  ASSUME SessionInv, UNCHANGED serverVars, ClearState,
         token' \in 0 .. Len(holder), user' \in 0 .. Len(holder),
         appShown' \in BOOLEAN, entering' \in BOOLEAN,
         badge' \in {0, badge}, reloads' \in 0 .. MaxReloads
  PROVE  ServerTyped' /\ PageTyped'
<1>1. ServerTyped' /\ holder' = holder
  BY DEF SessionInv, ServerTyped, serverVars
<1>2. badge' \in 0 .. Cardinality(Notes)
  BY UsersAssumption, FS_CardinalityType DEF SessionInv, PageTyped
<1>3. QED BY <1>1, <1>2 DEF PageTyped, ClearState

\* A step of the page that leaves its session as it is.
LEMMA SameSession ==
  ASSUME SessionInv, UNCHANGED <<serverVars, token, user, appShown, entering, bellVars, reloads, history>>
  PROVE  ServerTyped' /\ PageTyped'
BY DEF SessionInv, ServerTyped, PageTyped, serverVars, bellVars, history

LEMMA SignInTyped ==
  ASSUME SessionInv, UNCHANGED <<serverVars, reloads>>, token' \in 0 .. Len(holder),
         NEW n \in 0 .. Len(holder), NEW k \in Tasks, SignIn(n, k)
  PROVE  SessionInv'
<1>1. ServerTyped' /\ PageTyped'
  BY ClearedTyped DEF SignIn, SessionInv, PageTyped
<1>2. PICK j \in Tasks :
        task' = [i \in Tasks |-> IF i \in {j, k} THEN Sent(Refresh, token') ELSE task[i]]
  BY DEF SignIn, Free
<1>3. Len(holder) \in Nat /\ holder' = holder /\ sent' = sent
  BY DEF SessionInv, ServerTyped, serverVars
<1>4. Sent(Refresh, token') \in TaskTypes(Len(holder), sent)
  BY <1>3, Fresh, CallLists
<1>5. TasksTyped'
  BY <1>2, <1>3, <1>4 DEF SessionInv, TasksTyped
<1>6. QED BY <1>1, <1>5 DEF SessionInv

LEMMA AnswerTyped ==
  ASSUME SessionInv, NEW k \in Tasks, Answer(k)
  PROVE  SessionInv'
<1>0. /\ token \in 0 .. Len(holder) /\ user \in 0 .. Len(holder) /\ 0 \in 0 .. Len(holder)
      /\ appShown \in BOOLEAN /\ entering \in BOOLEAN /\ reloads \in 0 .. MaxReloads
  BY DEF SessionInv, PageTyped, ServerTyped
<1>1. CASE AnswerLogin(k)
  <2>1. CASE Answered(k, {"login"}, "ok") /\ \E n \in task[k].got : token' = n /\ SignIn(n, k)
    <3>1. PICK n \in task[k].got : token' = n /\ SignIn(n, k)
      BY <2>1
    <3>2. n \in 1 .. Len(holder)
      BY <2>1, AnsweredTyped
    <3>3. n \in 0 .. Len(holder)
      BY <3>2 DEF SessionInv, ServerTyped
    <3>4. UNCHANGED <<serverVars, reloads>>
      BY <1>1 DEF AnswerLogin
    <3>5. QED BY <3>1, <3>3, <3>4, SignInTyped
  <2>2. ASSUME NEW a \in Failed, Answered(k, {"login"}, a), token' = NoToken, Continue(k, a),
               UNCHANGED <<user, appShown, entering, bellVars, history>>
        PROVE  SessionInv'
    <3>1. UNCHANGED <<serverVars, reloads>> /\ token' \in 0 .. Len(holder)
      BY <1>0, <1>1, <2>2 DEF AnswerLogin, NoToken
    <3>2. ServerTyped' /\ PageTyped'
      BY <2>2, <3>1 DEF SessionInv, ServerTyped, PageTyped, serverVars, bellVars, history
    <3>3. QED BY <2>2, <3>1, <3>2, SessionContinues DEF SessionInv
  <2>3. QED BY <1>1, <2>1, <2>2 DEF AnswerLogin
<1>2. CASE AnswerRestore(k)
  <2>1. CASE Answered(k, {"restore"}, "ok") /\ token' = token /\ SignIn(task[k].by, k)
    <3>1. task[k].by \in 0 .. Len(holder) /\ UNCHANGED <<serverVars, reloads>>
      BY <1>2, <2>1, AnsweredTyped DEF AnswerRestore
    <3>2. QED BY <1>0, <2>1, <3>1, SignInTyped
  <2>2. CASE /\ Answered(k, {"restore"}, "refused") /\ token' = NoToken /\ Continue(k, "refused")
             /\ UNCHANGED <<user, appShown, entering, bellVars, history>>
    <3>1. UNCHANGED <<serverVars, reloads>> /\ token' \in 0 .. Len(holder)
      BY <1>0, <1>2, <2>2 DEF AnswerRestore, NoToken
    <3>2. ServerTyped' /\ PageTyped'
      BY <2>2, <3>1 DEF SessionInv, ServerTyped, PageTyped, serverVars, bellVars, history
    <3>3. QED BY <2>2, <3>1, <3>2, SessionContinues DEF SessionInv
  <2>3. QED BY <1>2, <2>1, <2>2 DEF AnswerRestore
<1>3. ASSUME NEW calls, NEW a, NEW b, Answered(k, calls, a), EndSession, Continue(k, b),
             UNCHANGED <<serverVars, reloads>>
      PROVE  SessionInv'
  <2>1. token' \in 0 .. Len(holder) /\ ServerTyped' /\ PageTyped'
    BY <1>0, <1>3, ClearedTyped DEF EndSession, NoToken
  <2>2. QED BY <1>3, <2>1, SessionContinues DEF SessionInv
<1>4. ASSUME NEW calls, NEW a, NEW b, Answered(k, calls, a), Continue(k, b),
             UNCHANGED <<serverVars, token, user, appShown, entering, bellVars, reloads, history>>
      PROVE  SessionInv'
  <2>1. token' \in 0 .. Len(holder) /\ ServerTyped' /\ PageTyped'
    BY <1>0, <1>4, SameSession
  <2>2. QED BY <1>4, <2>1, SessionContinues DEF SessionInv
<1>5. CASE AnswerExpired(k)
  BY <1>3, <1>5 DEF AnswerExpired
<1>6. CASE AnswerLogout(k)
  BY <1>3, <1>6 DEF AnswerLogout
<1>7. CASE AnswerPassword(k)
  <2>1. PICK a \in {"ok", "refused"} :
          /\ Answered(k, {"password"}, a) /\ Continue(k, a)
          /\ \/ EndSession
             \/ UNCHANGED <<token, user, appShown, entering, bellVars, history>>
          /\ UNCHANGED <<serverVars, reloads>>
    BY <1>7 DEF AnswerPassword
  <2>2. QED BY <1>3, <1>4, <2>1
<1>8. CASE AnswerShow(k)
  BY <1>4, <1>8 DEF AnswerShow
<1>9. CASE AnswerUnread(k)
  <2>1. PICK a \in {"ok", "refused"} :
          /\ Answered(k, {"unread"}, a) /\ Continue(k, a)
          /\ IF a = "ok"
             THEN LET got == task[k].got
                      new == IF initial THEN {} ELSE got \ seen
                  IN /\ UpdateBadge(got)
                     /\ Remember(got)
                     /\ initial' = FALSE
                     /\ toasted' = toasted \cup new
                     /\ again' = (again \/ new \cap toasted # {})
             ELSE UNCHANGED <<bellVars, history>>
          /\ UNCHANGED <<serverVars, token, user, appShown, entering, reloads>>
    BY <1>9 DEF AnswerUnread
  <2>2. CASE a # "ok"
    BY <1>4, <2>1, <2>2
  <2>3. CASE a = "ok"
    <3>1. task[k].got \subseteq sent
      BY <2>1, AnsweredTyped
    <3>2. badge' \in 0 .. Cardinality(Notes)
      <4>1. task[k].got \subseteq Notes
        BY <3>1 DEF SessionInv, ServerTyped
      <4>2. badge' = Cardinality(task[k].got)
        BY <2>1, <2>3 DEF UpdateBadge
      <4>3. /\ IsFiniteSet(task[k].got) /\ Cardinality(task[k].got) <= Cardinality(Notes)
            /\ Cardinality(task[k].got) \in Nat /\ Cardinality(Notes) \in Nat
        BY <4>1, UsersAssumption, FS_Subset, FS_CardinalityType
      <4>4. QED BY <4>2, <4>3
    <3>3. seen' \subseteq sent /\ toasted' \subseteq sent /\ initial' \in BOOLEAN /\ again' \in BOOLEAN
      BY <2>1, <2>3, <3>1 DEF Remember, SessionInv, PageTyped
    <3>4. ServerTyped' /\ UNCHANGED <<holder, sent>>
      BY <2>1 DEF SessionInv, ServerTyped, serverVars
    <3>5. PageTyped'
      BY <1>0, <2>1, <3>2, <3>3, <3>4 DEF PageTyped
    <3>6. QED BY <1>0, <2>1, <3>4, <3>5, SessionContinues DEF SessionInv
  <2>4. QED BY <2>2, <2>3
<1>10. CASE AnswerMarkRead(k)
  <2>1. PICK a \in {"ok", "refused"} :
          /\ Answered(k, {"markRead"}, a) /\ Continue(k, a)
          /\ badge' = IF a = "ok" THEN 0 ELSE badge
          /\ UNCHANGED <<serverVars, token, user, appShown, entering, seen, initial, reloads, history>>
    BY <1>10 DEF AnswerMarkRead
  <2>2. badge' \in 0 .. Cardinality(Notes)
    BY <2>1, UsersAssumption, FS_CardinalityType DEF SessionInv, PageTyped
  <2>3. ServerTyped' /\ PageTyped'
    BY <2>1, <2>2 DEF SessionInv, ServerTyped, PageTyped, serverVars, history
  <2>4. QED BY <1>0, <2>1, <2>3, SessionContinues DEF SessionInv
<1>11. QED
  BY <1>1, <1>2, <1>5, <1>6, <1>7, <1>8, <1>9, <1>10 DEF Answer

\* The server's reply leaves the call what it was, and carries what its kind may.
LEMMA ServeTyped ==
  ASSUME SessionInv, NEW k \in Tasks, Serve(k)
  PROVE  SessionInv'
<1> DEFINE c == task[k]
<1>1. /\ c \in TaskTypes(Len(holder), sent) /\ c.todo # <<>> /\ Len(holder) \in Nat
      /\ UNCHANGED <<token, user, appShown, entering, bellVars, reloads, history>>
  BY DEF Serve, SessionInv, TasksTyped, ServerTyped
<1>2. \A u : UnreadOf(u) \subseteq sent
  BY DEF UnreadOf
<1> DEFINE Replied(a, got) == task' = [task EXCEPT ![k].answer = a, ![k].got = got]
           Effect(a, got) ==
             /\ a \in Replies /\ Replied(a, got)
             /\ sent' = sent
             /\ \/ Head(c.todo) # "login" /\ UNCHANGED <<holder>> /\ got \subseteq sent
                \/ got = {} /\ UNCHANGED <<holder>>
                \/ /\ Head(c.todo) = "login" /\ Len(holder) < MaxLogins
                   /\ \E v \in Users : holder' = Append(holder, v)
                   /\ got = {Len(holder')}
             /\ read' \subseteq sent
             /\ \/ valid' \subseteq 1 .. Len(holder)
                \/ valid' = valid \cup {Len(holder')} /\ Len(holder') # Len(holder)
<1>3. \E a, got : Effect(a, got)
  <2>1. read \subseteq sent /\ valid \subseteq 1 .. Len(holder)
    BY DEF SessionInv, ServerTyped
  <2>2. ASSUME NEW a \in {"expired", "refused"}, Replied(a, {}), UNCHANGED serverVars
        PROVE  Effect(a, {})
    BY <2>1, <2>2 DEF serverVars, Replies
  <2>3. ASSUME Head(c.todo) = "login", Len(holder) < MaxLogins,
               \E v \in Users : holder' = Append(holder, v),
               valid' = valid \cup {Len(holder')}, Replied("ok", {Len(holder')}),
               UNCHANGED <<sent, read>>
        PROVE  Effect("ok", {Len(holder')})
    <3>1. Len(holder') # Len(holder)
      BY <2>3 DEF SessionInv, ServerTyped
    <3>2. QED BY <2>1, <2>3, <3>1 DEF Replies
  <2>4. ASSUME NEW got \in {{}, UnreadOf(holder[c.by])}, Head(c.todo) # "login", Replied("ok", got),
               read' \in {read, read \cup UnreadOf(holder[c.by])},
               valid' \subseteq valid, UNCHANGED <<holder, sent>>
        PROVE  Effect("ok", got)
    BY <1>2, <2>1, <2>4 DEF Replies
  <2>5. \/ \E a \in {"expired", "refused"} : Replied(a, {}) /\ UNCHANGED serverVars
        \/ /\ Head(c.todo) = "login" /\ Len(holder) < MaxLogins
           /\ \E v \in Users : holder' = Append(holder, v)
           /\ valid' = valid \cup {Len(holder')} /\ Replied("ok", {Len(holder')})
           /\ UNCHANGED <<sent, read>>
        \/ \E got \in {{}, UnreadOf(holder[c.by])} :
             /\ Head(c.todo) # "login" /\ Replied("ok", got)
             /\ read' \in {read, read \cup UnreadOf(holder[c.by])}
             /\ valid' \subseteq valid /\ UNCHANGED <<holder, sent>>
    BY DEF Serve, RefuseToken, RefuseCall, ServeLogin, ServePassword, ServeUnread, ServeMarkRead,
           Called, Reply, serverVars
  <2> HIDE DEF Replied, Effect
  <2>6. QED BY <2>2, <2>3, <2>4, <2>5
<1>4. PICK a, got : Effect(a, got)
  BY <1>3
<1>5. /\ holder' \in Seq(Users) /\ Len(holder') <= MaxLogins
      /\ Len(holder') \in Nat /\ Len(holder) <= Len(holder')
      /\ Len(holder') # Len(holder) => Len(holder') \in Nat \ {0}
  <2>1. holder \in Seq(Users) /\ Len(holder) <= MaxLogins /\ MaxLogins \in Nat
    BY BoundsAssumption DEF SessionInv, ServerTyped
  <2>2. CASE holder' = holder
    BY <1>1, <2>1, <2>2
  <2>3. ASSUME NEW v \in Users, holder' = Append(holder, v), Len(holder) < MaxLogins
        PROVE  holder' \in Seq(Users) /\ Len(holder') = Len(holder) + 1
    BY <2>1, <2>3
  <2>4. QED BY <1>1, <1>4, <2>1, <2>2, <2>3
<1>6. ServerTyped'
  <2>1. 1 .. Len(holder) \subseteq 1 .. Len(holder') /\ valid \subseteq 1 .. Len(holder)
    BY <1>1, <1>5 DEF SessionInv, ServerTyped
  <2>2. valid' \subseteq 1 .. Len(holder')
    <3>1. CASE valid' = valid \cup {Len(holder')} /\ Len(holder') # Len(holder)
      <4>1. Len(holder') \in Nat \ {0}
        BY <1>5, <3>1
      <4>2. Len(holder') \in 1 .. Len(holder')
        BY <4>1
      <4>3. QED BY <2>1, <3>1, <4>2
    <3>2. QED BY <1>4, <2>1, <3>1
  <2>3. sent' = sent /\ read' \subseteq sent /\ sent \subseteq Notes
    BY <1>4 DEF SessionInv, ServerTyped
  <2>4. QED BY <1>5, <2>2, <2>3 DEF ServerTyped
<1>7. PageTyped'
  BY <1>1, <1>4, <1>5 DEF SessionInv, PageTyped, bellVars, history
<1>8. TasksTyped'
  <2>1. TaskTypes(Len(holder), sent) \subseteq TaskTypes(Len(holder'), sent')
    BY <1>1, <1>4, <1>5, Wider
  <2>2. /\ a \in Replies
        /\ got \subseteq IF Head(c.todo) = "login" THEN 1 .. Len(holder') ELSE sent'
    BY <1>1, <1>4, <1>5
  <2>3. [c EXCEPT !.answer = a, !.got = got] \in TaskTypes(Len(holder'), sent')
    BY <1>1, <2>1, <2>2 DEF TaskTypes
  <2>4. task' = [task EXCEPT ![k] = [c EXCEPT !.answer = a, !.got = got]]
    BY <1>4
  <2>5. QED BY <2>1, <2>3, <2>4 DEF SessionInv, TasksTyped
<1>9. QED BY <1>6, <1>7, <1>8 DEF SessionInv

LEMMA SessionInductive == SessionInv /\ [Next]_vars => SessionInv'
<1> SUFFICES ASSUME SessionInv, [Next]_vars PROVE SessionInv'
  OBVIOUS
<1>0. /\ token \in 0 .. Len(holder) /\ 0 \in 0 .. Len(holder) /\ Len(holder) \in Nat
      /\ appShown \in BOOLEAN /\ entering \in BOOLEAN /\ reloads \in 0 .. MaxReloads
      /\ badge \in Nat /\ 0 \in 0 .. Cardinality(Notes)
  BY UsersAssumption, FS_CardinalityType DEF SessionInv, PageTyped, ServerTyped
<1>1. ASSUME NEW n \in Notes, NewNote(n) PROVE SessionInv'
  <2>1. TaskTypes(Len(holder), sent) \subseteq TaskTypes(Len(holder), sent')
    BY <1>0, <1>1, Wider DEF NewNote
  <2>2. QED
    BY <1>1, <2>1 DEF NewNote, SessionInv, ServerTyped, PageTyped, TasksTyped, bellVars, history
<1>2. ASSUME NEW t \in Tokens, Expire(t) PROVE SessionInv'
  BY <1>2 DEF Expire, SessionInv, ServerTyped, PageTyped, TasksTyped, bellVars, history
<1>3. ASSUME NEW k \in Tasks, Serve(k) \/ Answer(k) PROVE SessionInv'
  BY <1>3, ServeTyped, AnswerTyped
<1>4. ASSUME NEW todo \in Seq(Calls), Start(todo) PROVE SessionInv'
  <2>1. (CHOOSE k \in Free : TRUE) \in Tasks
    BY <1>4 DEF Start, Free
  <2>2. ServerTyped' /\ PageTyped' /\ token' = token /\ UNCHANGED serverVars
    BY <1>4, SameSession DEF Start
  <2>3. TasksTyped'
    BY <1>0, <1>4, <2>1, <2>2, TaskGoesOn DEF Start
  <2>4. QED BY <2>2, <2>3 DEF SessionInv
<1>5. CASE PressLogin \/ SavePassword \/ OpenSection \/ OpenBell \/ PressMarkAll \/ PollTick
  BY <1>4, <1>5, CallLists
  DEF PressLogin, SavePassword, OpenSection, OpenBell, PressMarkAll, PollTick
<1>6. CASE PressLogout
  <2>1. CASE Start(<<"logout">>)
    BY <1>4, <2>1, CallLists
  <2>2. CASE EndSession /\ UNCHANGED <<serverVars, task, reloads>>
    <3>1. ServerTyped' /\ PageTyped'
      BY <1>0, <2>2, ClearedTyped DEF EndSession, NoToken
    <3>2. TasksTyped'
      BY <2>2 DEF SessionInv, TasksTyped, serverVars
    <3>3. QED BY <3>1, <3>2 DEF SessionInv
  <2>3. QED BY <1>6, <2>1, <2>2 DEF PressLogout
<1>7. CASE Enter
  BY <1>7 DEF Enter, SessionInv, ServerTyped, PageTyped, TasksTyped, serverVars, bellVars, history
<1>8. CASE Reload
  <2>1. reloads' \in 0 .. MaxReloads
    BY <1>0, <1>8, BoundsAssumption DEF Reload
  <2>2. ServerTyped' /\ PageTyped'
    BY <1>0, <1>8, <2>1, ClearedTyped DEF Reload, NoToken
  <2>3. Sent(<<"restore">>, token) \in TaskTypes(Len(holder), sent)
    BY <1>0, CallLists, Fresh
  <2>4. Idle \in TaskTypes(Len(holder), sent)
    BY <1>0, CallLists, Fresh DEF Idle, NoToken
  <2>5. TasksTyped'
    BY <1>8, <2>3, <2>4 DEF Reload, TasksTyped, serverVars
  <2>6. QED BY <2>2, <2>5 DEF SessionInv
<1>9. CASE UNCHANGED vars
  BY <1>9 DEF vars, SessionInv, ServerTyped, PageTyped, TasksTyped, serverVars, bellVars, history
<1>10. QED
  BY <1>1, <1>2, <1>3, <1>5, <1>6, <1>7, <1>8, <1>9 DEF Next

\* Whatever answers overtake each other, a sign-in never takes notifications for a
\* token, the page never holds a token the server has not issued, and the badge
\* never exceeds the notifications there are.
THEOREM SessionTyped == Spec => []TypeOK
<1>1. Init => SessionInv
  <2> SUFFICES ASSUME Init PROVE SessionInv
    OBVIOUS
  <2>1. Len(holder) = 0 /\ holder \in Seq(Users) /\ Len(holder) \in Nat /\ 0 \in 0 .. Len(holder)
    BY DEF Init
  <2>2. Idle \in TaskTypes(Len(holder), sent)
    BY <2>1, CallLists, Fresh DEF Idle, NoToken
  <2>3. 0 \in 0 .. Cardinality(Notes) /\ 0 \in 0 .. MaxReloads /\ Len(holder) <= MaxLogins
    BY <2>1, UsersAssumption, BoundsAssumption, FS_CardinalityType
  <2>4. ServerTyped /\ PageTyped
    BY <2>1, <2>3 DEF Init, ServerTyped, PageTyped, NoToken
  <2>5. TasksTyped
    BY <2>2 DEF Init, TasksTyped
  <2>6. QED BY <2>4, <2>5 DEF SessionInv
<1>2. SessionInv => TypeOK
  <2> SUFFICES ASSUME SessionInv PROVE TypeOK
    OBVIOUS
  <2>1. ASSUME NEW k \in Tasks
        PROVE  /\ task[k].by \in 0 .. Len(holder) /\ task[k].answer \in Replies
               /\ task[k].got \subseteq sent \cup 1 .. Len(holder)
               /\ \A i \in DOMAIN task[k].todo : task[k].todo[i] \in Calls
    BY DEF SessionInv, TasksTyped, TaskTypes
  <2>2. QED BY <2>1 DEF SessionInv, ServerTyped, PageTyped, TypeOK, Replies
<1>3. QED BY <1>1, <1>2, SessionInductive, PTL DEF Spec
-----------------------------------------------------------------------------
(* The scanner page                                                        *)

Reading == {"frame", "detecting"}
Waiting == {"employee", "queue", "history"}

\* A chain of frames reads the camera, or one is about to.
Read == \/ \E l \in Loops : loop[l].at \in Reading
        \/ \E k \in Starts : starting[k] = "listing"

\* The stream the page knows is running, and the page scans only if somebody reads.
CameraInv ==
  /\ DOMAIN loop = Loops /\ DOMAIN starting = Starts
  /\ stream = 0 \/ stream \in capturing
  /\ scanning => stream # 0 /\ Read

\* A code that is looked up cools down, and so is not taken by another chain.
CoolingInv ==
  /\ DOMAIN loop = Loops
  /\ \A l \in LookingUp : loop[l].code \in cooling
  /\ OneLookupPerCode

LEMMA FramesAndCalls == Reading \cap Waiting = {} /\ LookingUp = {l \in Loops : loop[l].at \in Waiting}
BY DEF Reading, Waiting, LookingUp
-----------------------------------------------------------------------------
\* A chain that looks up a code has one; the codes cooling down are codes.
LEMMA TypesInductive == ScannerTypeOK /\ [ScannerNext]_scannerVars => ScannerTypeOK'
<1> SUFFICES ASSUME ScannerTypeOK, [ScannerNext]_scannerVars PROVE ScannerTypeOK'
  OBVIOUS
<1> DEFINE Places == {"none", "frame", "detecting", "open", "employee", "queue", "history"}
           Chains == [at : Places, code : Codes \cup {NoCode}]
           Stages == {"unused", "asking", "playing", "listing", "done"}
<1>1. /\ NoLoop \in Chains /\ Frame \in Chains /\ [Frame EXCEPT !.at = "detecting"] \in Chains
      /\ \A c \in Codes : [at |-> FirstCall(c), code |-> c] \in Chains
  BY DEF NoLoop, Frame, FirstCall
<1>2. /\ loop \in [Loops -> Chains] /\ starting \in [Starts -> Stages] /\ handle \subseteq Loops
      /\ scanning \in BOOLEAN /\ startEnabled \in BOOLEAN /\ stream \in {0} \cup Starts
      /\ capturing \subseteq Starts /\ cooling \subseteq Codes
  BY DEF ScannerTypeOK
<1>3. ASSUME NEW loops \in [Loops -> Chains], StopCamera(loops), starting' \in [Starts -> Stages],
             {signedIn', onScanner', switching'} \subseteq BOOLEAN, cooling' \subseteq Codes
      PROVE  ScannerTypeOK'
  <2>1. loop' \in [Loops -> Chains]
    BY <1>1, <1>3 DEF StopCamera
  <2>2. QED BY <1>2, <1>3, <2>1 DEF StopCamera, ScannerTypeOK
<1>4. BeginStart => starting' \in [Starts -> Stages] /\ StopCamera(loop)
  BY <1>2 DEF BeginStart
<1>5. ASSUME NEW k \in Starts, FailStart(k) PROVE ScannerTypeOK'
  BY <1>2, <1>3, <1>5 DEF FailStart, ScannerTypeOK
<1>6. CASE PressStart \/ PressStop \/ PressSwitch \/ TakeDevices
  <2>1. CASE PressStart \/ PressStop
    BY <1>2, <1>3, <1>4, <2>1 DEF PressStart, PressStop, ScannerTypeOK
  <2>2. CASE PressSwitch
    BY <2>2 DEF PressSwitch, ScannerTypeOK
  <2>3. CASE TakeDevices
    BY <1>2, <1>3, <1>4, <2>3 DEF TakeDevices, ScannerTypeOK
  <2>4. QED BY <1>6, <2>1, <2>2, <2>3
<1>7. ASSUME NEW k \in Starts, TakeStream(k) \/ TakePlay(k) PROVE ScannerTypeOK'
  BY <1>2, <1>5, <1>7 DEF TakeStream, TakePlay, ScannerTypeOK
<1>8. ASSUME NEW l \in Loops, NEW c \in Chains, SetLoop(l, c) PROVE loop' \in [Loops -> Chains]
  BY <1>2, <1>8 DEF SetLoop
<1>9. ASSUME NEW k \in Starts, TakeList(k) PROVE ScannerTypeOK'
  <2>1. loop' \in [Loops -> Chains] /\ handle' \subseteq Loops
    BY <1>1, <1>2, <1>9 DEF TakeList, BeginLoop
  <2>2. starting' \in [Starts -> Stages]
    BY <1>2, <1>9 DEF TakeList
  <2>3. QED BY <1>9, <2>1, <2>2 DEF TakeList, ScannerTypeOK
<1>10. ASSUME NEW l \in Loops, ReadFrame(l) PROVE ScannerTypeOK'
  <2>1. loop' \in [Loops -> Chains] /\ handle' \subseteq Loops
    BY <1>1, <1>2, <1>8, <1>10 DEF ReadFrame
  <2>2. QED BY <1>10, <2>1 DEF ReadFrame, ScannerTypeOK
<1>11. ASSUME NEW l \in Loops, TakeFrame(l) PROVE ScannerTypeOK'
  <2>1. loop' \in [Loops -> Chains] /\ handle' \subseteq Loops
    BY <1>1, <1>2, <1>8, <1>11 DEF TakeFrame
  <2>2. scanning' \in BOOLEAN /\ cooling' \subseteq Codes
    BY <1>2, <1>11 DEF TakeFrame
  <2>3. QED BY <1>11, <2>1, <2>2 DEF TakeFrame, ScannerTypeOK
<1>12. ASSUME NEW l \in Loops, Lookup(l) PROVE ScannerTypeOK'
  <2>1. UNCHANGED <<signedIn, onScanner, starting, switching>>
    BY <1>12 DEF Lookup, OpenPass, TakeEmployee, TakeQueue, TakeHistory, LookupRest
  <2>2. CASE Found(l)
    <3>1. [loop EXCEPT ![l] = NoLoop] \in [Loops -> Chains]
      BY <1>1, <1>2
    <3>2. QED BY <1>2, <1>3, <2>1, <2>2, <3>1 DEF Found, ScannerTypeOK
  <2>3. CASE NotFound(l)
    <3>1. loop' \in [Loops -> Chains] /\ handle' \subseteq Loops /\ scanning' \in BOOLEAN
            /\ cooling' \subseteq Codes
      BY <1>1, <1>2, <1>8, <2>3 DEF NotFound
    <3>2. QED BY <2>1, <2>3, <3>1 DEF NotFound, ScannerTypeOK
  <2>4. ASSUME NEW at \in Waiting, Call(l, at) PROVE ScannerTypeOK'
    <3>1. loop' \in [Loops -> Chains]
      BY <1>2, <2>4 DEF Call, SetLoop, Waiting
    <3>2. QED BY <2>1, <2>4, <3>1 DEF Call, ScannerTypeOK
  <2>5. QED
    BY <1>12, <2>2, <2>3, <2>4
    DEF Lookup, OpenPass, TakeEmployee, TakeQueue, TakeHistory, Waiting
<1>13. ASSUME NEW c \in Codes, CoolDown(c) PROVE ScannerTypeOK'
  BY <1>13 DEF CoolDown, ScannerTypeOK
<1>14. CASE SwitchSection
  <2>1. CASE StopCamera(loop)
    BY <1>2, <1>3, <1>14, <2>1 DEF SwitchSection, ScannerTypeOK
  <2>2. CASE UNCHANGED <<capturing, stream, scanning, startEnabled, loop, handle>>
    BY <1>14, <2>2 DEF SwitchSection, ScannerTypeOK
  <2>3. QED BY <1>14, <2>1, <2>2 DEF SwitchSection
<1>15. CASE GuardLogout \/ UNCHANGED scannerVars
  BY <1>15 DEF GuardLogout, scannerVars, ScannerTypeOK
<1>16. QED
  BY <1>6, <1>7, <1>9, <1>10, <1>11, <1>12, <1>13, <1>14, <1>15 DEF ScannerNext

\* Type correctness of the scanner page.
THEOREM ScannerTyped == ScannerSpec => []ScannerTypeOK
<1>1. ScannerInit => ScannerTypeOK
  <2> SUFFICES ASSUME ScannerInit PROVE ScannerTypeOK
    OBVIOUS
  <2>1. loop \in [Loops -> [at : {"none", "frame", "detecting", "open", "employee", "queue", "history"},
                            code : Codes \cup {NoCode}]]
    BY DEF ScannerInit, NoLoop
  <2>2. starting \in [Starts -> {"unused", "asking", "playing", "listing", "done"}]
    BY DEF ScannerInit
  <2>3. {signedIn, onScanner, scanning, startEnabled, switching} \subseteq BOOLEAN
    BY DEF ScannerInit
  <2>4. QED BY <2>1, <2>2, <2>3 DEF ScannerInit, ScannerTypeOK
<1>2. QED BY <1>1, TypesInductive, PTL DEF ScannerSpec
-----------------------------------------------------------------------------
\* stopQrCamera leaves no stream, and nothing scans.
LEMMA StopStops ==
  ASSUME CameraInv, NEW loops, DOMAIN starting' = Starts, StopCamera(loops)
  PROVE  CameraInv'
BY DEF StopCamera, CameraInv

LEMMA CameraInductive == CameraInv /\ [ScannerNext]_scannerVars => CameraInv'
<1> SUFFICES ASSUME CameraInv, [ScannerNext]_scannerVars PROVE CameraInv'
  OBVIOUS
<1>1. 0 \notin Starts
  BY ScannerAssumption DEF Starts
<1>2. BeginStart => CameraInv'
  <2> SUFFICES ASSUME BeginStart PROVE CameraInv'
    OBVIOUS
  <2>1. DOMAIN starting' = Starts /\ StopCamera(loop)
    BY DEF BeginStart, CameraInv
  <2>2. QED BY <2>1, StopStops
<1>3. ASSUME NEW k \in Starts, FailStart(k) PROVE CameraInv'
  <2>1. DOMAIN starting' = Starts /\ StopCamera(loop)
    BY <1>3 DEF FailStart, CameraInv
  <2>2. QED BY <2>1, StopStops
<1>4. UNCHANGED <<capturing, stream, scanning, starting, loop>> => CameraInv'
  BY DEF CameraInv, Read
<1>5. ASSUME NEW loops, StopCamera(loops), starting' = starting PROVE CameraInv'
  BY <1>5, StopStops DEF CameraInv
<1>6. CASE PressStart \/ PressStop \/ PressSwitch \/ TakeDevices
  BY <1>2, <1>4, <1>5, <1>6 DEF PressStart, PressStop, PressSwitch, TakeDevices
<1>7. ASSUME NEW k \in Starts, TakeStream(k) PROVE CameraInv'
  <2>1. CASE /\ stream' = k /\ capturing' = capturing \cup {k}
             /\ starting' = [starting EXCEPT ![k] = "playing"]
             /\ UNCHANGED <<scanning, loop>>
    <3>1. DOMAIN starting' = Starts /\ \A j \in Starts : starting[j] = "listing" => j = k \/ starting'[j] = "listing"
      BY <2>1 DEF CameraInv
    <3>2. starting[k] # "listing"
      BY <1>7 DEF TakeStream
    <3>3. Read => Read'
      BY <2>1, <3>1, <3>2 DEF Read
    <3>4. QED BY <1>1, <2>1, <3>1, <3>3 DEF CameraInv
  <2>2. QED BY <1>3, <1>7, <2>1 DEF TakeStream
<1>8. ASSUME NEW k \in Starts, TakePlay(k) PROVE CameraInv'
  <2>1. CASE /\ stream = k /\ scanning' = TRUE
             /\ starting' = [starting EXCEPT ![k] = "listing"]
             /\ UNCHANGED <<capturing, stream, loop>>
    <3>1. DOMAIN starting' = Starts /\ starting'[k] = "listing"
      BY <2>1 DEF CameraInv
    <3>2. QED BY <1>1, <2>1, <3>1 DEF CameraInv, Read
  <2>2. QED BY <1>3, <1>8, <2>1 DEF TakePlay
<1>9. ASSUME NEW k \in Starts, TakeList(k) PROVE CameraInv'
  <2>1. DOMAIN starting' = Starts /\ UNCHANGED <<capturing, stream, scanning>>
    BY <1>9 DEF TakeList, CameraInv
  <2>2. CASE BeginLoop
    <3>1. PICK l \in Loops : loop' = [loop EXCEPT ![l] = Frame]
      BY <2>2 DEF BeginLoop
    <3>2. DOMAIN loop' = Loops /\ loop'[l].at = "frame"
      BY <3>1 DEF CameraInv, Frame
    <3>3. QED BY <2>1, <3>2 DEF CameraInv, Read, Reading
  <2>3. CASE ~scanning /\ loop' = loop
    BY <2>1, <2>3 DEF CameraInv
  <2>4. QED BY <1>9, <2>2, <2>3 DEF TakeList
<1>10. ASSUME NEW l \in Loops, ReadFrame(l) \/ TakeFrame(l) PROVE CameraInv'
  <2>1. UNCHANGED <<capturing, stream, starting>>
    BY <1>10 DEF ReadFrame, TakeFrame
  <2>2. CASE ReadFrame(l)
    <3>1. scanning' = scanning /\ DOMAIN loop' = Loops
      BY <2>2 DEF ReadFrame, SetLoop, CameraInv
    <3>2. scanning => loop'[l].at = "detecting"
      BY <2>2 DEF ReadFrame, SetLoop, CameraInv, Frame
    <3>3. QED BY <2>1, <3>1, <3>2 DEF CameraInv, Read, Reading
  <2>3. CASE TakeFrame(l)
    <3>1. DOMAIN loop' = Loops
      BY <2>3 DEF TakeFrame, SetLoop, CameraInv
    <3>2. ~scanning' \/ (scanning' = scanning /\ loop'[l].at = "frame")
      BY <2>3 DEF TakeFrame, SetLoop, CameraInv, Frame
    <3>3. QED BY <2>1, <3>1, <3>2 DEF CameraInv, Read, Reading
  <2>4. QED BY <1>10, <2>2, <2>3
<1>11. ASSUME NEW l \in Loops, Lookup(l) PROVE CameraInv'
  <2>1. starting' = starting
    BY <1>11 DEF Lookup, OpenPass, TakeEmployee, TakeQueue, TakeHistory, LookupRest
  <2>2. CASE Found(l)
    BY <1>5, <2>1, <2>2 DEF Found
  <2>3. CASE NotFound(l) /\ loop[l].at \in Waiting
    <3>1. DOMAIN loop' = Loops /\ UNCHANGED <<capturing, stream>>
      BY <2>3 DEF NotFound, SetLoop, CameraInv
    <3>2. CASE stream # 0 /\ scanning' = TRUE /\ SetLoop(l, Frame)
      <4>1. loop'[l].at = "frame"
        BY <3>2 DEF SetLoop, CameraInv, Frame
      <4>2. QED BY <2>1, <3>1, <3>2, <4>1 DEF CameraInv, Read, Reading
    <3>3. CASE SetLoop(l, NoLoop) /\ scanning' = scanning
      <4>1. \A m \in Loops : loop[m].at \in Reading => loop'[m] = loop[m]
        BY <2>3, <3>3 DEF SetLoop, CameraInv, Reading, Waiting
      <4>2. QED BY <2>1, <3>1, <3>3, <4>1 DEF CameraInv, Read
    <3>4. QED BY <2>3, <3>2, <3>3 DEF NotFound
  <2>4. ASSUME NEW at, Call(l, at), loop[l].at \in Waiting PROVE CameraInv'
    <3>1. /\ DOMAIN loop' = Loops /\ UNCHANGED <<capturing, stream, scanning>>
          /\ \A m \in Loops : loop[m].at \in Reading => loop'[m] = loop[m]
      BY <2>4 DEF Call, SetLoop, CameraInv, Reading, Waiting
    <3>2. QED BY <2>1, <3>1 DEF CameraInv, Read
  <2>5. QED
    BY <1>11, <2>2, <2>3, <2>4
    DEF Lookup, OpenPass, TakeEmployee, TakeQueue, TakeHistory, Waiting
<1>12. CASE SwitchSection \/ GuardLogout \/ (\E c \in Codes : CoolDown(c)) \/ UNCHANGED scannerVars
  BY <1>4, <1>5, <1>12 DEF SwitchSection, GuardLogout, CoolDown, scannerVars
<1>13. QED
  BY <1>6, <1>7, <1>8, <1>9, <1>10, <1>11, <1>12 DEF ScannerNext

\* Whenever the page claims to scan, a running camera is behind it and a chain of
\* frames reads it (scanner.js, qrCameraScanning).
THEOREM ScannerReads == ScannerSpec => []ActiveMeansReading
<1>1. ScannerInit => CameraInv
  BY DEF ScannerInit, CameraInv
<1>2. CameraInv => ActiveMeansReading
  BY DEF CameraInv, ActiveMeansReading, Read, Reading
<1>3. QED BY <1>1, <1>2, CameraInductive, PTL DEF ScannerSpec
-----------------------------------------------------------------------------
\* A camera that runs and is not read waits for its video, or for a look-up that
\* goes on afterwards.
CameraIsAwaited ==
  stream # 0 /\ ~scanning /\ signedIn =>
    \/ starting[stream] = "playing"
    \/ \E l \in Loops : loop[l].at \in Waiting \cup {"open"}

AwaitedInv == DOMAIN loop = Loops /\ DOMAIN starting = Starts /\ CameraIsAwaited

LEMMA AwaitedInductive == AwaitedInv /\ [ScannerNext]_scannerVars => AwaitedInv'
<1> SUFFICES ASSUME AwaitedInv, [ScannerNext]_scannerVars PROVE AwaitedInv'
  OBVIOUS
<1>1. ASSUME NEW loops, StopCamera(loops), DOMAIN starting' = Starts PROVE AwaitedInv'
  BY <1>1 DEF StopCamera, AwaitedInv, CameraIsAwaited
<1>2. UNCHANGED <<signedIn, stream, scanning, starting, loop>> => AwaitedInv'
  BY DEF AwaitedInv, CameraIsAwaited
<1>3. BeginStart => AwaitedInv'
  BY <1>1 DEF BeginStart, AwaitedInv
<1>4. ASSUME NEW k \in Starts, FailStart(k) PROVE AwaitedInv'
  BY <1>1, <1>4 DEF FailStart, AwaitedInv
<1>5. CASE PressStart \/ PressStop \/ PressSwitch \/ TakeDevices
  BY <1>1, <1>2, <1>3, <1>5 DEF PressStart, PressStop, PressSwitch, TakeDevices, AwaitedInv
<1>6. ASSUME NEW k \in Starts, TakeStream(k) PROVE AwaitedInv'
  <2>1. CASE stream' = k /\ starting' = [starting EXCEPT ![k] = "playing"] /\ loop' = loop
    BY <2>1 DEF AwaitedInv, CameraIsAwaited
  <2>2. QED BY <1>4, <1>6, <2>1 DEF TakeStream
<1>7. ASSUME NEW k \in Starts, TakePlay(k) PROVE AwaitedInv'
  <2>1. CASE scanning' = TRUE /\ starting' = [starting EXCEPT ![k] = "listing"] /\ loop' = loop
    BY <2>1 DEF AwaitedInv, CameraIsAwaited
  <2>2. QED BY <1>4, <1>7, <2>1 DEF TakePlay
<1>8. ASSUME NEW k \in Starts, TakeList(k) PROVE AwaitedInv'
  <2>1. /\ DOMAIN starting' = Starts /\ UNCHANGED <<signedIn, stream, scanning>>
        /\ \A j \in Starts : starting[j] = "playing" => starting'[j] = "playing"
    BY <1>8 DEF TakeList, AwaitedInv
  <2>2. CASE scanning /\ BeginLoop
    BY <2>1, <2>2 DEF BeginLoop, AwaitedInv, CameraIsAwaited
  <2>3. CASE ~scanning /\ loop' = loop
    BY <1>8, <2>1, <2>3 DEF TakeList, AwaitedInv, CameraIsAwaited
  <2>4. QED BY <1>8, <2>2, <2>3 DEF TakeList
<1>9. ASSUME NEW l \in Loops, ReadFrame(l) PROVE AwaitedInv'
  <2>1. /\ UNCHANGED <<signedIn, stream, scanning, starting>> /\ DOMAIN loop' = Loops
        /\ \A m \in Loops : loop[m].at \in Waiting \cup {"open"} => loop'[m] = loop[m]
    BY <1>9 DEF ReadFrame, SetLoop, AwaitedInv, Waiting
  <2>2. QED BY <2>1 DEF AwaitedInv, CameraIsAwaited
<1>10. ASSUME NEW l \in Loops, TakeFrame(l) PROVE AwaitedInv'
  <2>1. UNCHANGED <<signedIn, stream, starting>> /\ DOMAIN loop' = Loops
    BY <1>10 DEF TakeFrame, SetLoop, AwaitedInv
  <2>2. \A m \in Loops : loop[m].at \in Waiting \cup {"open"} => loop'[m] = loop[m]
    BY <1>10 DEF TakeFrame, SetLoop, AwaitedInv, Waiting
  <2>3. \/ scanning' = scanning \/ ~signedIn
        \/ \E c \in Codes : SetLoop(l, [at |-> FirstCall(c), code |-> c])
    BY <1>10 DEF TakeFrame
  <2>4. CASE \E c \in Codes : SetLoop(l, [at |-> FirstCall(c), code |-> c])
    <3>1. loop'[l].at \in {"open", "employee"}
      BY <2>4 DEF SetLoop, FirstCall, AwaitedInv
    <3>2. QED BY <2>1, <3>1 DEF AwaitedInv, CameraIsAwaited, Waiting
  <2>5. QED BY <2>1, <2>2, <2>3, <2>4 DEF AwaitedInv, CameraIsAwaited
<1>11. ASSUME NEW l \in Loops, Lookup(l) PROVE AwaitedInv'
  <2>1. UNCHANGED <<signedIn, starting>>
    BY <1>11 DEF Lookup, OpenPass, TakeEmployee, TakeQueue, TakeHistory, LookupRest
  <2>2. CASE Found(l)
    BY <1>1, <2>1, <2>2 DEF Found, AwaitedInv
  <2>3. CASE NotFound(l)
    BY <2>1, <2>3 DEF NotFound, SetLoop, AwaitedInv, CameraIsAwaited
  <2>4. ASSUME NEW at \in Waiting, Call(l, at) PROVE AwaitedInv'
    <3>1. DOMAIN loop' = Loops /\ loop'[l].at \in Waiting /\ UNCHANGED <<stream, scanning>>
      BY <2>4 DEF Call, SetLoop, AwaitedInv
    <3>2. QED BY <2>1, <3>1 DEF AwaitedInv, CameraIsAwaited
  <2>5. QED
    BY <1>11, <2>2, <2>3, <2>4
    DEF Lookup, OpenPass, TakeEmployee, TakeQueue, TakeHistory, Waiting
<1>12. CASE SwitchSection \/ GuardLogout \/ (\E c \in Codes : CoolDown(c)) \/ UNCHANGED scannerVars
  BY <1>1, <1>2, <1>12
  DEF SwitchSection, GuardLogout, CoolDown, scannerVars, AwaitedInv, CameraIsAwaited
<1>13. QED
  BY <1>5, <1>6, <1>7, <1>8, <1>9, <1>10, <1>11, <1>12 DEF ScannerNext

\* While a guard is signed in, a camera that runs and is not read waits for its
\* video to play or for a look-up under way: there is always a call whose answer
\* starts the reading or stops the camera (resumeQrScanning, stopQrCamera).
\* ScannerGoesOn rests on it.
THEOREM NoCameraForgotten == ScannerSpec => []CameraIsAwaited
<1>1. ScannerInit => AwaitedInv
  BY DEF ScannerInit, AwaitedInv, CameraIsAwaited
<1>2. QED BY <1>1, AwaitedInductive, PTL DEF ScannerSpec, AwaitedInv
-----------------------------------------------------------------------------
\* A step that gives chain l another place, and lets codes cool down only more.
LEMMA CoolingFrame ==
  ASSUME CoolingInv, NEW l \in Loops, DOMAIN loop' = Loops,
         \A m \in Loops \ {l} : loop'[m] = loop[m] \/ loop'[m].at \notin Waiting,
         \/ loop'[l].at \notin Waiting
         \/ loop[l].at \in Waiting /\ loop'[l].code = loop[l].code,
         cooling \subseteq cooling'
  PROVE  CoolingInv'
<1>1. LookingUp' = {m \in Loops : loop'[m].at \in Waiting} /\ LookingUp = {m \in Loops : loop[m].at \in Waiting}
  BY DEF LookingUp, Waiting
<1>2. \A m \in LookingUp' : m \in LookingUp /\ loop'[m].code = loop[m].code
  BY <1>1
<1>3. QED BY <1>2 DEF CoolingInv, OneLookupPerCode

LEMMA CoolingInductive == CoolingInv /\ [ScannerNext]_scannerVars => CoolingInv'
<1> SUFFICES ASSUME CoolingInv, [ScannerNext]_scannerVars PROVE CoolingInv'
  OBVIOUS
<1>1. ASSUME NEW loops \in {loop} \cup {[loop EXCEPT ![m] = NoLoop] : m \in Loops},
             StopCamera(loops), cooling' = cooling
      PROVE  CoolingInv'
  <2>1. DOMAIN loop' = Loops /\ \A m \in Loops : loop'[m] = loop[m] \/ loop'[m] = NoLoop
    BY <1>1 DEF StopCamera, CoolingInv
  <2>2. \A m \in LookingUp' : m \in LookingUp /\ loop'[m].code = loop[m].code
    BY <2>1 DEF LookingUp, NoLoop
  <2>3. QED BY <1>1, <2>1, <2>2 DEF CoolingInv, OneLookupPerCode
<1>2. UNCHANGED <<loop, cooling>> => CoolingInv'
  BY DEF CoolingInv, OneLookupPerCode, LookingUp
<1>3. CASE \/ PressStart \/ PressStop \/ PressSwitch \/ TakeDevices
           \/ \E k \in Starts : TakeStream(k) \/ TakePlay(k)
           \/ SwitchSection \/ GuardLogout \/ UNCHANGED scannerVars
  <2>1. UNCHANGED <<loop, cooling>> \/ (StopCamera(loop) /\ cooling' = cooling)
    BY <1>3
    DEF PressStart, PressStop, PressSwitch, TakeDevices, BeginStart, TakeStream, TakePlay,
        FailStart, SwitchSection, GuardLogout, scannerVars
  <2>2. QED BY <1>1, <1>2, <2>1
<1>4. ASSUME NEW k \in Starts, TakeList(k) PROVE CoolingInv'
  <2>1. CASE BeginLoop
    <3>1. PICK l \in Loops : loop' = [loop EXCEPT ![l] = Frame]
      BY <2>1 DEF BeginLoop
    <3>2. /\ DOMAIN loop' = Loops /\ loop'[l].at \notin Waiting
          /\ \A m \in Loops \ {l} : loop'[m] = loop[m]
      BY <3>1 DEF CoolingInv, Frame, Waiting
    <3>3. cooling' = cooling
      BY <1>4 DEF TakeList
    <3>4. QED BY <3>2, <3>3, CoolingFrame
  <2>2. QED BY <1>2, <1>4, <2>1 DEF TakeList
<1>5. ASSUME NEW l \in Loops, ReadFrame(l) PROVE CoolingInv'
  <2>1. /\ DOMAIN loop' = Loops /\ loop'[l].at \notin Waiting /\ cooling' = cooling
        /\ \A m \in Loops \ {l} : loop'[m] = loop[m]
    BY <1>5 DEF ReadFrame, SetLoop, CoolingInv, Frame, NoLoop, Waiting
  <2>2. QED BY <2>1, CoolingFrame
<1>6. ASSUME NEW l \in Loops, TakeFrame(l) PROVE CoolingInv'
  <2>1. CASE SetLoop(l, Frame) /\ cooling \subseteq cooling'
    <3>1. /\ DOMAIN loop' = Loops /\ loop'[l].at \notin Waiting
          /\ \A m \in Loops \ {l} : loop'[m] = loop[m]
      BY <2>1 DEF SetLoop, CoolingInv, Frame, Waiting
    <3>2. QED BY <2>1, <3>1, CoolingFrame
  <2>2. ASSUME NEW c \in Codes, Taken(c), cooling' = cooling \cup {c},
               SetLoop(l, [at |-> FirstCall(c), code |-> c])
        PROVE  CoolingInv'
    <3>1. /\ DOMAIN loop' = Loops /\ loop'[l].code = c
          /\ \A m \in Loops \ {l} : loop'[m] = loop[m]
      BY <2>2 DEF SetLoop, CoolingInv
    <3>2. \A m \in LookingUp : loop[m].code # c
      BY <2>2 DEF Taken, CoolingInv
    <3>3. \A m \in LookingUp' \ {l} : m \in LookingUp
      BY <3>1 DEF LookingUp
    <3>4. QED BY <2>2, <3>1, <3>2, <3>3 DEF CoolingInv, OneLookupPerCode, LookingUp
  <2>3. QED BY <1>6, <2>1, <2>2 DEF TakeFrame
<1>7. ASSUME NEW l \in Loops, Lookup(l) PROVE CoolingInv'
  <2>1. CASE Found(l)
    BY <1>1, <2>1 DEF Found
  <2>2. CASE NotFound(l) /\ l \in LookingUp
    <3>1. /\ DOMAIN loop' = Loops /\ loop'[l].at \notin Waiting
          /\ \A m \in Loops \ {l} : loop'[m] = loop[m]
      BY <2>2 DEF NotFound, SetLoop, CoolingInv, Frame, NoLoop, Waiting
    <3>2. \A m \in LookingUp' : m \in LookingUp \ {l} /\ loop'[m] = loop[m]
      BY <3>1 DEF LookingUp, Waiting
    <3>3. \A m \in LookingUp' : loop'[m].code \in cooling'
      BY <2>2, <3>2 DEF NotFound, CoolingInv, OneLookupPerCode
    <3>4. QED BY <3>1, <3>2, <3>3 DEF CoolingInv, OneLookupPerCode
  <2>3. ASSUME NEW at, Call(l, at), l \in LookingUp PROVE CoolingInv'
    <3>1. /\ DOMAIN loop' = Loops /\ loop'[l].code = loop[l].code /\ cooling' = cooling
          /\ \A m \in Loops \ {l} : loop'[m] = loop[m]
      BY <2>3 DEF Call, SetLoop, CoolingInv
    <3>2. loop[l].at \in Waiting
      BY <2>3 DEF LookingUp, Waiting
    <3>3. QED BY <3>1, <3>2, CoolingFrame
  <2>4. QED
    BY <1>7, <2>1, <2>2, <2>3
    DEF Lookup, OpenPass, TakeEmployee, TakeQueue, TakeHistory, LookingUp
<1>8. ASSUME NEW c \in Codes, CoolDown(c) PROVE CoolingInv'
  BY <1>8 DEF CoolDown, CoolingInv, OneLookupPerCode, LookingUp
<1>9. QED BY <1>3, <1>4, <1>5, <1>6, <1>7, <1>8 DEF ScannerNext

\* Two chains of frames do not look up one code side by side (qrClientCooldowns).
THEOREM OneLookup == ScannerSpec => []OneLookupPerCode
<1>1. ScannerInit => CoolingInv
  BY DEF ScannerInit, CoolingInv, OneLookupPerCode, LookingUp, NoLoop
<1>2. CoolingInv => OneLookupPerCode
  BY DEF CoolingInv
<1>3. QED BY <1>1, <1>2, CoolingInductive, PTL DEF ScannerSpec
-----------------------------------------------------------------------------
(* The request forms                                                       *)

Notices == {"hidden", "you too", "others only"}
Lists == [rows : Seq(Rows), notice : Notices]

\* What the rows of form f remember is what they show (CompanionsAsShown for one list).
Remembered(f, rows) ==
  \A i \in DOMAIN rows :
    rows[i].pick # None =>
      /\ rows[i].text = rows[i].pick /\ rows[i].kind = "employee"
      /\ f = "material" => rows[i].pick # Me
      /\ \A j \in DOMAIN rows \ {i} : rows[j].pick # rows[i].pick

\* A list that is as shown, with a notice that tells who goes.
Good(f, c) ==
  /\ c \in Lists /\ Remembered(f, c.rows)
  /\ f = "person" => c.notice = Scope(c.rows)

CompanionsInv ==
  /\ directory \subseteq Employees /\ asked \subseteq Employees
  /\ DOMAIN companions = Forms
  /\ \A f \in Forms : Good(f, companions[f])
-----------------------------------------------------------------------------
LEMMA Sentinels == None # Blank /\ Words # Blank /\ None \notin Employees /\ Blank \notin Employees /\ Me \in Employees
BY FormsAssumption DEF None, Blank, Words

LEMMA ScopeIsNotice == ASSUME NEW rows PROVE Scope(rows) \in Notices
BY DEF Scope, Notices

LEMMA ToldIsGood ==
  ASSUME NEW f, NEW c \in Lists, Remembered(f, c.rows), f # "person" => Good(f, c)
  PROVE  Good(f, Told(f, c))
<1>1. CASE f = "person"
  <2>1. Told(f, c) = [rows |-> c.rows, notice |-> Scope(c.rows)]
    BY <1>1 DEF Told, Lists
  <2>2. QED BY <2>1, ScopeIsNotice DEF Good, Lists
<1>2. CASE f # "person"
  BY <1>2 DEF Told
<1>3. QED BY <1>1, <1>2

\* Lists whose rows are changed.
LEMMA NewRowsGood ==
  ASSUME NEW f, NEW c, Good(f, c), NEW rows \in Seq(Rows), Remembered(f, rows)
  PROVE  Good(f, Told(f, [c EXCEPT !.rows = rows]))
<1> DEFINE d == [c EXCEPT !.rows = rows]
<1>1. d = [rows |-> rows, notice |-> c.notice] /\ c.notice \in Notices
  BY DEF Good, Lists
<1>2. d \in Lists /\ d.rows = rows
  BY <1>1 DEF Lists
<1>3. f # "person" => Good(f, d)
  BY <1>2 DEF Good
<1> HIDE DEF d
<1>4. Good(f, Told(f, d))
  BY <1>2, <1>3, ToldIsGood
<1>5. QED BY <1>4 DEF d

LEMMA NoRowsGood == ASSUME NEW f PROVE Good(f, NoRows)
<1>1. <<>> \in Seq(Rows) /\ Remembered(f, <<>>) /\ ShownRows(<<>>) = {}
  BY DEF Remembered, ShownRows
<1>2. ASSUME NEW rows, ShownRows(rows) = {} PROVE Scope(rows) = "hidden"
  BY <1>2 DEF Scope
<1>3. QED BY <1>1, <1>2 DEF NoRows, Good, Lists, Notices

\* The rows of a good list.
LEMMA GoodRows ==
  ASSUME NEW f, NEW c, Good(f, c)
  PROVE  /\ c \in Lists /\ c.rows \in Seq(Rows) /\ DOMAIN c.rows = 1 .. Len(c.rows)
         /\ Len(c.rows) \in Nat /\ Remembered(f, c.rows)
         /\ \A i \in DOMAIN c.rows : c.rows[i] \in Rows
BY DEF Good, Lists

\* One row less: the others move up.
LEMMA RemoveAtProperties ==
  ASSUME NEW X, NEW s \in Seq(X), NEW i \in 1 .. Len(s)
  PROVE  /\ RemoveAt(s, i) \in Seq(X) /\ Len(RemoveAt(s, i)) = Len(s) - 1
         /\ \A j \in 1 .. Len(s) - 1 : RemoveAt(s, i)[j] = s[IF j < i THEN j ELSE j + 1]
<1> DEFINE front == SubSeq(s, 1, i - 1)
           back == SubSeq(s, i + 1, Len(s))
<1>1. front \in Seq(X) /\ Len(front) = i - 1 /\ \A j \in 1 .. i - 1 : front[j] = s[j]
  OBVIOUS
<1>2. back \in Seq(X) /\ Len(back) = Len(s) - i /\ \A j \in 1 .. Len(s) - i : back[j] = s[i + j]
  OBVIOUS
<1> HIDE DEF front, back
<1>3. RemoveAt(s, i) = front \o back
  BY DEF RemoveAt, front, back
<1>4. /\ front \o back \in Seq(X) /\ Len(front \o back) = Len(s) - 1
      /\ \A j \in 1 .. Len(s) - 1 : (front \o back)[j] = IF j < i THEN front[j] ELSE back[j - (i - 1)]
  <2>1. /\ front \o back \in Seq(X) /\ Len(front \o back) = Len(front) + Len(back)
        /\ \A j \in 1 .. Len(front) + Len(back) :
             (front \o back)[j] = IF j <= Len(front) THEN front[j] ELSE back[j - Len(front)]
    BY <1>1, <1>2, ConcatProperties
  <2>2. Len(front) + Len(back) = Len(s) - 1 /\ i \in Nat /\ Len(s) \in Nat
    BY <1>1, <1>2
  <2>3. \A j \in 1 .. Len(s) - 1 : j <= Len(front) <=> j < i
    BY <1>1
  <2>4. QED BY <1>1, <2>1, <2>2, <2>3
<1>5. ASSUME NEW j \in 1 .. Len(s) - 1, ~(j < i) PROVE back[j - (i - 1)] = s[j + 1]
  <2>1. j - (i - 1) \in 1 .. Len(s) - i /\ i + (j - (i - 1)) = j + 1
    BY <1>5
  <2>2. QED BY <1>2, <2>1
<1>6. QED BY <1>1, <1>3, <1>4, <1>5

LEMMA RemovedGood ==
  ASSUME NEW f, NEW c, Good(f, c), NEW i \in DOMAIN c.rows
  PROVE  Good(f, Removed(f, c, i))
<1>1. c.rows \in Seq(Rows) /\ i \in 1 .. Len(c.rows) /\ Remembered(f, c.rows) /\ Len(c.rows) \in Nat
  BY GoodRows
<1> DEFINE rows == RemoveAt(c.rows, i)
<1>2. /\ rows \in Seq(Rows) /\ DOMAIN rows = 1 .. Len(c.rows) - 1
      /\ \A j \in DOMAIN rows : rows[j] = c.rows[IF j < i THEN j ELSE j + 1]
  <2>1. /\ rows \in Seq(Rows) /\ Len(rows) = Len(c.rows) - 1
        /\ \A j \in 1 .. Len(c.rows) - 1 : rows[j] = c.rows[IF j < i THEN j ELSE j + 1]
    BY <1>1, RemoveAtProperties
  <2> HIDE DEF rows
  <2>2. DOMAIN rows = 1 .. Len(rows)
    BY <2>1
  <2>3. QED BY <2>1, <2>2
<1>3. Remembered(f, rows)
  <2> DEFINE old(j) == IF j < i THEN j ELSE j + 1
  <2>1. \A j \in DOMAIN rows : old(j) \in DOMAIN c.rows /\ rows[j] = c.rows[old(j)]
    BY <1>1, <1>2
  <2>2. \A j, k \in DOMAIN rows : j # k => old(j) # old(k)
    BY <1>1, <1>2
  <2> HIDE DEF old, rows
  <2>3. QED BY <1>1, <2>1, <2>2 DEF Remembered
<1> HIDE DEF rows
<1>4. Good(f, Told(f, [c EXCEPT !.rows = rows]))
  BY <1>2, <1>3, NewRowsGood
<1>5. QED BY <1>4 DEF Removed, rows

LEMMA AppendedGood ==
  ASSUME NEW f, NEW c, Good(f, c)
  PROVE  Good(f, Append1(f, c))
<1>1. /\ c.rows \in Seq(Rows) /\ NewRow \in Rows /\ Remembered(f, c.rows)
      /\ DOMAIN c.rows = 1 .. Len(c.rows) /\ Len(c.rows) \in Nat
  BY GoodRows DEF NewRow, Rows, Texts
<1> DEFINE rows == Append(c.rows, NewRow)
<1>2. /\ rows \in Seq(Rows) /\ DOMAIN rows = 1 .. Len(c.rows) + 1
      /\ \A j \in 1 .. Len(c.rows) : rows[j] = c.rows[j]
      /\ rows[Len(c.rows) + 1].pick = None
  BY <1>1 DEF NewRow
<1>3. Remembered(f, rows)
  <2> HIDE DEF rows
  <2>1. \A j \in DOMAIN rows : rows[j].pick # None => j \in DOMAIN c.rows /\ rows[j] = c.rows[j]
    <3>1. \A j \in DOMAIN rows : j \in 1 .. Len(c.rows) \/ j = Len(c.rows) + 1
      BY <1>1, <1>2
    <3>2. \A j \in 1 .. Len(c.rows) : j \in DOMAIN c.rows /\ rows[j] = c.rows[j]
      BY <1>1, <1>2
    <3>3. ASSUME NEW j \in DOMAIN rows, rows[j].pick # None
          PROVE  j \in DOMAIN c.rows /\ rows[j] = c.rows[j]
      <4>1. j # Len(c.rows) + 1
        BY <1>2, <3>3
      <4>2. QED BY <3>1, <3>2, <4>1
    <3>4. QED BY <3>3
  <2>2. QED BY <1>1, <2>1 DEF Remembered
<1> HIDE DEF rows
<1>4. Good(f, Told(f, [c EXCEPT !.rows = rows]))
  BY <1>2, <1>3, NewRowsGood
<1>5. QED BY <1>4 DEF Append1, rows

\* A row without a pick in the place of another.
Fits(f, c, i, row) ==
  row.pick # None =>
    /\ row.text = row.pick /\ row.kind = "employee"
    /\ f = "material" => row.pick # Me
    /\ \A j \in DOMAIN c.rows \ {i} : c.rows[j].pick # row.pick

Replaced(c, i, row) == [c.rows EXCEPT ![i] = row]

LEMMA RowReplaced ==
  ASSUME NEW f, NEW c, Good(f, c), NEW i \in DOMAIN c.rows, NEW row \in Rows, Fits(f, c, i, row)
  PROVE  /\ Replaced(c, i, row) \in Seq(Rows) /\ Len(Replaced(c, i, row)) = Len(c.rows)
         /\ Remembered(f, Replaced(c, i, row))
         /\ Good(f, Told(f, [c EXCEPT !.rows = Replaced(c, i, row)]))
<1>1. c.rows \in Seq(Rows) /\ i \in 1 .. Len(c.rows) /\ Remembered(f, c.rows)
  BY GoodRows
<1> DEFINE rows == [c.rows EXCEPT ![i] = row]
<1>2. /\ rows \in Seq(Rows) /\ Len(rows) = Len(c.rows) /\ DOMAIN rows = DOMAIN c.rows
      /\ rows[i] = row /\ \A j \in DOMAIN c.rows \ {i} : rows[j] = c.rows[j]
  BY <1>1
<1> HIDE DEF rows
<1>3. Remembered(f, rows)
  BY <1>1, <1>2 DEF Remembered, Fits
<1>4. Good(f, Told(f, [c EXCEPT !.rows = rows]))
  BY <1>2, <1>3, NewRowsGood
<1>5. QED BY <1>2, <1>3, <1>4 DEF rows, Replaced

LEMMA ToggledGood ==
  ASSUME NEW f, NEW c, Good(f, c), NEW i \in DOMAIN c.rows
  PROVE  Good(f, Toggled(f, c, i))
<1> DEFINE row == IF c.rows[i].kind = "employee"
                  THEN [c.rows[i] EXCEPT !.kind = "other", !.pick = None] ELSE NewRow
<1>1. row \in Rows /\ Fits(f, c, i, row)
  <2>1. c.rows[i] \in Rows
    BY GoodRows
  <2>2. row \in Rows /\ row.pick = None
    BY <2>1 DEF NewRow, Rows, Texts
  <2> HIDE DEF row
  <2>3. QED BY <2>2 DEF Fits
<1>2. Toggled(f, c, i) = Told(f, [c EXCEPT !.rows = Replaced(c, i, row)])
  BY DEF Replaced, Toggled, Good, Lists
<1> HIDE DEF row
<1>3. QED BY <1>1, <1>2, RowReplaced

LEMMA TypedGood ==
  ASSUME NEW f, NEW c, Good(f, c), NEW i \in DOMAIN c.rows, NEW text \in Texts
  PROVE  Good(f, Typed(f, c, i, text))
<1> DEFINE row == [c.rows[i] EXCEPT !.text = text, !.pick = None]
<1>1. row \in Rows /\ Fits(f, c, i, row)
  <2>1. c.rows[i] \in Rows
    BY GoodRows
  <2>2. row \in Rows /\ row.pick = None
    BY <2>1 DEF Rows
  <2> HIDE DEF row
  <2>3. QED BY <2>2 DEF Fits
<1>2. Typed(f, c, i, text) = Told(f, [c EXCEPT !.rows = Replaced(c, i, row)])
  BY DEF Replaced, Typed, Good, Lists
<1> HIDE DEF row
<1>3. QED BY <1>1, <1>2, RowReplaced

LEMMA SelectedGood ==
  ASSUME NEW f, NEW c, Good(f, c), NEW i \in DOMAIN c.rows, NEW e \in Employees,
         c.rows[i].kind = "employee", c.rows[i].pick = None
  PROVE  /\ Good(f, Selected(f, c, i, e)) /\ Len(Selected(f, c, i, e).rows) = Len(c.rows)
         /\ ~Unconfirmed(Selected(f, c, i, e).rows[i])
         /\ \A j \in DOMAIN c.rows \ {i} : Selected(f, c, i, e).rows[j] = c.rows[j]
<1>1. /\ c.rows \in Seq(Rows) /\ i \in 1 .. Len(c.rows) /\ Remembered(f, c.rows) /\ c \in Lists
      /\ c.rows[i] \in Rows
  BY GoodRows
<1>2. CASE Refused(f, c, i, e)
  <2> DEFINE row == [c.rows[i] EXCEPT !.text = Blank]
             rows == Replaced(c, i, row)
  <2>1. row \in Rows /\ row.pick = None /\ row.text = Blank
    BY <1>1 DEF Rows, Texts
  <2>2. Selected(f, c, i, e) = [rows |-> rows, notice |-> c.notice]
    BY <1>1, <1>2 DEF Replaced, Selected, Lists
  <2>3. rows \in Seq(Rows) /\ Len(rows) = Len(c.rows) /\ Remembered(f, rows)
    <3> HIDE DEF row
    <3>1. Fits(f, c, i, row)
      BY <2>1 DEF Fits
    <3>2. QED BY <2>1, <3>1, RowReplaced
  <2>4. ASSUME f = "person" PROVE c.notice = Scope(rows)
    <3>1. PICK j \in DOMAIN c.rows \ {i} : c.rows[j].pick = e
      BY <1>2, <2>4 DEF Refused
    <3>2. c.rows[j].text # Blank
      BY <1>1, <3>1, Sentinels DEF Remembered
    <3>3. j \in ShownRows(c.rows)
      BY <3>2 DEF ShownRows
    <3>4. ShownRows(rows) = ShownRows(c.rows) \ {i} /\ j \in ShownRows(rows)
      BY <1>1, <2>1, <3>1, <3>2 DEF Replaced, ShownRows
    <3>5. \A k \in ShownRows(rows) : rows[k].pick = c.rows[k].pick
      BY <1>1, <3>4 DEF Replaced, ShownRows
    <3>6. Included(rows) <=> Included(c.rows)
      BY <3>3, <3>4, <3>5, Sentinels DEF Included
    <3> HIDE DEF rows
    <3>7. QED BY <2>4, <3>3, <3>4, <3>6 DEF Good, Scope
  <2>5. Good(f, Selected(f, c, i, e))
    BY <1>1, <2>2, <2>3, <2>4 DEF Good, Lists
  <2>6. ~Unconfirmed(rows[i]) /\ \A j \in DOMAIN c.rows \ {i} : rows[j] = c.rows[j]
    BY <1>1, <2>1 DEF Replaced, Unconfirmed
  <2>7. QED BY <2>2, <2>3, <2>5, <2>6
<1>3. CASE ~Refused(f, c, i, e)
  <2> DEFINE row == [c.rows[i] EXCEPT !.text = e, !.pick = e]
             rows == Replaced(c, i, row)
  <2>1. row \in Rows /\ row.pick = e /\ row.text = e /\ row.kind = "employee"
    BY <1>1 DEF Rows, Texts
  <2>2. Selected(f, c, i, e) = Told(f, [c EXCEPT !.rows = rows])
    BY <1>1, <1>3 DEF Replaced, Selected, Lists
  <2>3. /\ rows \in Seq(Rows) /\ Len(rows) = Len(c.rows)
        /\ Good(f, Told(f, [c EXCEPT !.rows = rows]))
    <3>1. (f = "material" => e # Me) /\ \A j \in DOMAIN c.rows \ {i} : c.rows[j].pick # e
      BY <1>3 DEF Refused
    <3> HIDE DEF row
    <3>2. Fits(f, c, i, row)
      BY <2>1, <3>1 DEF Fits
    <3>3. QED BY <2>1, <3>2, RowReplaced
  <2>4. Told(f, [c EXCEPT !.rows = rows]).rows = rows
    BY <1>1 DEF Told, Lists
  <2>5. ~Unconfirmed(rows[i]) /\ \A j \in DOMAIN c.rows \ {i} : rows[j] = c.rows[j]
    BY <1>1, <2>1, Sentinels DEF Replaced, Unconfirmed
  <2>6. QED BY <2>2, <2>3, <2>4, <2>5
<1>4. QED BY <1>2, <1>3
-----------------------------------------------------------------------------
\* One row of hasUnconfirmedAssociateRows.
Confirm1(f, acc, i) ==
  LET row == acc.c.rows[i] IN
  IF ~acc.ok \/ ~Unconfirmed(row) THEN acc
  ELSE IF row.text \in directory
       THEN [acc EXCEPT !.c = Selected(f, acc.c, i, row.text)]
       ELSE [acc EXCEPT !.ok = FALSE]

\* What a confirmation may have come to, of a list of n rows.
Halfway(f, n) ==
  {acc \in [c : Lists, ok : BOOLEAN] : Len(acc.c.rows) = n /\ Good(f, acc.c)}

\* The first i rows are through, unless a text names nobody.
Through(f, n, acc, i) ==
  /\ acc \in Halfway(f, n)
  /\ acc.ok => \A j \in 1 .. i : ~Unconfirmed(acc.c.rows[j])

LEMMA Confirm1Good ==
  ASSUME directory \subseteq Employees,
         NEW f, NEW n \in Nat, NEW acc \in Halfway(f, n), NEW i \in 1 .. n
  PROVE  /\ Confirm1(f, acc, i) \in Halfway(f, n)
         /\ Through(f, n, acc, i - 1) => Through(f, n, Confirm1(f, acc, i), i)
<1> DEFINE row == acc.c.rows[i]
           e == row.text
<1>1. /\ acc \in [c : Lists, ok : BOOLEAN] /\ Len(acc.c.rows) = n /\ Good(f, acc.c)
      /\ DOMAIN acc.c.rows = 1 .. n
  BY DEF Halfway, Good, Lists
<1>2. \A j \in 1 .. i : j \in 1 .. i - 1 \/ j = i
  OBVIOUS
<1>3. CASE ~acc.ok \/ ~Unconfirmed(row)
  <2>1. Confirm1(f, acc, i) = acc
    BY <1>3 DEF Confirm1
  <2>2. QED BY <1>2, <1>3, <2>1 DEF Through
<1>4. CASE acc.ok /\ Unconfirmed(row) /\ e \in directory
  <2> DEFINE d == Selected(f, acc.c, i, e)
  <2>1. Confirm1(f, acc, i) = [c |-> d, ok |-> acc.ok]
    BY <1>1, <1>4 DEF Confirm1
  <2>2. /\ Good(f, d) /\ Len(d.rows) = n /\ ~Unconfirmed(d.rows[i])
        /\ \A j \in DOMAIN acc.c.rows \ {i} : d.rows[j] = acc.c.rows[j]
    <3> HIDE DEF e
    <3>1. e \in Employees
      BY <1>4
    <3>2. row.kind = "employee" /\ row.pick = None
      BY <1>4 DEF Unconfirmed
    <3>3. QED BY <1>1, <3>1, <3>2, SelectedGood
  <2> HIDE DEF d
  <2>3. [c |-> d, ok |-> acc.ok] \in Halfway(f, n)
    BY <1>1, <2>2 DEF Halfway, Good
  <2>4. \A j \in 1 .. i - 1 : j \in DOMAIN acc.c.rows \ {i}
    BY <1>1
  <2> HIDE DEF row
  <2>5. QED BY <1>2, <1>4, <2>1, <2>2, <2>3, <2>4 DEF Through
<1>5. CASE acc.ok /\ Unconfirmed(row) /\ e \notin directory
  <2>1. Confirm1(f, acc, i) = [c |-> acc.c, ok |-> FALSE]
    BY <1>1, <1>5 DEF Confirm1
  <2>2. [c |-> acc.c, ok |-> FALSE] \in Halfway(f, n)
    BY <1>1 DEF Halfway
  <2>3. QED BY <2>1, <2>2 DEF Through
<1>6. QED BY <1>1, <1>3, <1>4, <1>5

\* A confirmation leaves as many rows, as shown; when it goes through, every
\* row that shows something is of somebody picked, or of "other".
LEMMA ConfirmedGood ==
  ASSUME directory \subseteq Employees, NEW f, NEW c, Good(f, c)
  PROVE  LET n == Len(c.rows) IN n \in Nat /\ Through(f, n, Confirmed(f, c), n)
<1> DEFINE n == Len(c.rows)
           A == Halfway(f, n)
           F == [p \in A \X (1 .. n) |-> Confirm1(f, p[1], p[2])]
           base == [c |-> c, ok |-> TRUE]
           s == [i \in 1 .. n |-> i]
           Runs(it) == it = [t \in SUBSET (1 .. n) |->
                               IF t = {} THEN base ELSE Confirm1(f, it[t \ {Max(t)}], s[Max(t)])]
           through == CHOOSE it : Runs(it)
<1>1. c \in Lists /\ n \in Nat /\ DOMAIN c.rows = 1 .. n
  BY GoodRows
<1>2. base \in A /\ Through(f, n, base, 0)
  BY <1>1 DEF Through, Halfway
<1>3. s \in Seq(1 .. n) /\ Len(s) = n /\ DOMAIN s = 1 .. n /\ \A i \in 1 .. n : s[i] = i
  BY <1>1
<1>4. Confirmed(f, c) = through[1 .. n]
  BY <1>1, <1>3 DEF Confirmed, Confirm1, FoldLeft, MapThenFoldSet
<1>5. Runs(through)
  <2>1. F \in [A \X (1 .. n) -> A]
    BY <1>1, Confirm1Good
  <2>2. PICK it \in [SUBSET (1 .. n) -> A] : Folds(it, F, base, s, n)
    <3> HIDE DEF A, F, base, s
    <3>1. \E it \in [SUBSET (1 .. Len(s)) -> A] : Folds(it, F, base, s, Len(s))
      BY <1>2, <1>3, <2>1, FoldExists
    <3>2. QED BY <1>3, <3>1
  <2>3. ASSUME NEW t \in SUBSET (1 .. n), t # {}
        PROVE  F[<<it[t \ {Max(t)}], s[Max(t)]>>] = Confirm1(f, it[t \ {Max(t)}], s[Max(t)])
    <3>1. Max(t) \in 1 .. n /\ t \ {Max(t)} \in SUBSET (1 .. n)
      BY <1>1, <2>3, LargestIndex
    <3>2. it[t \ {Max(t)}] \in A /\ s[Max(t)] \in 1 .. n
      BY <1>3, <3>1
    <3> HIDE DEF A, s
    <3>3. QED BY <3>2
  <2>4. Runs(it)
    <3> HIDE DEF F, base, s
    <3>1. QED BY <2>2, <2>3 DEF Folds
  <2> HIDE DEF Runs
  <2>5. QED BY <2>4
<1>6. /\ through[1 .. 0] = base
      /\ \A i \in 1 .. n : through[1 .. i] = Confirm1(f, through[1 .. (i - 1)], i)
  <2> HIDE DEF through, base
  <2>1. through[1 .. 0] = base
    <3>1. 1 .. 0 = {} /\ 1 .. 0 \in SUBSET (1 .. n)
      OBVIOUS
    <3>2. QED BY <1>5, <3>1
  <2>2. ASSUME NEW i \in 1 .. n
        PROVE  through[1 .. i] = Confirm1(f, through[1 .. (i - 1)], i)
    <3>1. /\ 1 .. i \in SUBSET (1 .. n) /\ 1 .. i # {} /\ Max(1 .. i) = i
          /\ (1 .. i) \ {i} = 1 .. (i - 1) /\ s[i] = i
      BY <1>1, LastIndex
    <3> HIDE DEF s
    <3>2. through[1 .. i] = Confirm1(f, through[(1 .. i) \ {Max(1 .. i)}], s[Max(1 .. i)])
      BY <1>5, <3>1
    <3>3. QED BY <3>1, <3>2
  <2>3. QED BY <2>1, <2>2
<1>7. Through(f, n, through[1 .. n], n)
  <2> DEFINE S == {i \in 0 .. n : Through(f, n, through[1 .. i], i)}
  <2> HIDE DEF through, base
  <2>1. 0 \in S
    BY <1>1, <1>2, <1>6
  <2>2. ASSUME NEW i \in 0 .. n - 1, i \in S PROVE i + 1 \in S
    <3>1. i + 1 \in 1 .. n /\ (i + 1) - 1 = i /\ Through(f, n, through[1 .. i], i)
      BY <1>1, <2>2
    <3>2. through[1 .. (i + 1)] = Confirm1(f, through[1 .. i], i + 1)
      BY <1>6, <3>1
    <3>3. through[1 .. i] \in Halfway(f, n)
      BY <3>1 DEF Through
    <3> HIDE DEF n
    <3>4. Through(f, n, Confirm1(f, through[1 .. i], i + 1), i + 1)
      BY <1>1, <3>1, <3>3, Confirm1Good
    <3>5. QED BY <1>1, <3>1, <3>2, <3>4
  <2> HIDE DEF S
  <2>3. \A i \in 0 .. n : i \in S
    BY <1>1, <2>1, <2>2, Induction
  <2>4. n \in S
    BY <1>1, <2>3
  <2>5. QED BY <2>4 DEF S
<1>8. QED BY <1>1, <1>4, <1>7
-----------------------------------------------------------------------------
\* A step that gives one list or all of them another value.
LEMMA ListsKept ==
  ASSUME CompanionsInv, directory' \subseteq Employees, asked' \subseteq Employees,
         \/ companions' = companions
         \/ companions' = [f \in Forms |-> NoRows]
         \/ \E f \in Forms : \E c : Good(f, c) /\ companions' = [companions EXCEPT ![f] = c]
  PROVE  CompanionsInv'
<1>1. CASE companions' = companions
  BY <1>1 DEF CompanionsInv
<1>2. CASE companions' = [f \in Forms |-> NoRows]
  BY <1>2, NoRowsGood DEF CompanionsInv
<1>3. CASE \E f \in Forms : \E c : Good(f, c) /\ companions' = [companions EXCEPT ![f] = c]
  <2>1. PICK f \in Forms : \E c : Good(f, c) /\ companions' = [companions EXCEPT ![f] = c]
    BY <1>3
  <2>2. PICK c : Good(f, c) /\ companions' = [companions EXCEPT ![f] = c]
    BY <2>1
  <2>3. QED BY <2>2 DEF CompanionsInv
<1>4. QED BY <1>1, <1>2, <1>3

LEMMA CompanionsInductive == CompanionsInv /\ [FormsNext]_formsVars => CompanionsInv'
<1> SUFFICES ASSUME CompanionsInv, [FormsNext]_formsVars PROVE CompanionsInv'
  OBVIOUS
<1>1. /\ directory \subseteq Employees /\ asked \subseteq Employees
      /\ \A f \in Forms : Good(f, companions[f])
  BY DEF CompanionsInv
<1>2. ASSUME UNCHANGED <<companions, directory, asked>> PROVE CompanionsInv'
  BY <1>1, <1>2, ListsKept
<1>3. ASSUME NEW f \in Forms, NEW c, Good(f, c), SetCompanions(f, c), UNCHANGED <<directory, asked>>
      PROVE  CompanionsInv'
  BY <1>1, <1>3, ListsKept DEF SetCompanions
<1>4. ASSUME NEW f \in Forms, PressAdd(f) \/ TakeDirectory(f) PROVE CompanionsInv'
  <2>1. Good(f, Append1(f, companions[f]))
    BY <1>1, AppendedGood
  <2>2. /\ directory' \subseteq Employees /\ asked' \subseteq Employees
        /\ \/ companions' = companions
           \/ companions' = [companions EXCEPT ![f] = Append1(f, companions[f])]
    BY <1>1, <1>4, FormsAssumption DEF PressAdd, TakeDirectory, SetCompanions
  <2>3. QED BY <2>1, <2>2, ListsKept
<1>5. ASSUME NEW f \in Forms, NEW i \in DOMAIN companions[f].rows, RemoveRow(f, i) \/ ToggleKind(f, i)
      PROVE  CompanionsInv'
  <2>1. Good(f, Removed(f, companions[f], i)) /\ Good(f, Toggled(f, companions[f], i))
    BY <1>1, RemovedGood, ToggledGood
  <2>2. QED BY <1>3, <1>5, <2>1 DEF RemoveRow, ToggleKind
<1>6. ASSUME NEW f \in Forms, NEW i \in DOMAIN companions[f].rows, NEW text \in Texts, TypeText(f, i, text)
      PROVE  CompanionsInv'
  <2>1. Good(f, Typed(f, companions[f], i, text))
    BY <1>1, TypedGood
  <2>2. /\ directory' = directory /\ asked' \subseteq Employees
        /\ companions' = [companions EXCEPT ![f] = Typed(f, companions[f], i, text)]
    BY <1>1, <1>6 DEF TypeText, SetCompanions
  <2>3. QED BY <1>1, <2>1, <2>2, ListsKept
<1>7. ASSUME NEW f \in Forms, NEW i \in DOMAIN companions[f].rows, NEW e \in Employees, PickSuggestion(f, i, e)
      PROVE  CompanionsInv'
  <2>1. Good(f, Selected(f, companions[f], i, e))
    BY <1>1, <1>7, SelectedGood DEF PickSuggestion
  <2>2. QED BY <1>3, <1>7, <2>1 DEF PickSuggestion
<1>8. ASSUME NEW f \in Forms, SelectForm(f) PROVE CompanionsInv'
  <2>1. "person" \in Forms /\ companions["person"] \in Lists /\ Remembered("person", companions["person"].rows)
    BY <1>1 DEF Forms, Good
  <2>2. Good("person", Told("person", companions["person"]))
    BY <2>1, ToldIsGood
  <2>3. QED BY <1>1, <1>3, <1>8, <2>1, <2>2 DEF SelectForm
<1>9. ASSUME NEW e \in Employees, TakeSearch(e) PROVE CompanionsInv'
  BY <1>1, <1>9, ListsKept DEF TakeSearch
<1>10. ASSUME NEW f \in Forms, TakeFiled(f) PROVE CompanionsInv'
  BY <1>3, <1>10, NoRowsGood DEF TakeFiled
<1>11. CASE SignInAgain
  BY <1>1, <1>11, ListsKept DEF SignInAgain
<1>12. ASSUME NEW f \in Forms, SetCompanions(f, Confirmed(f, companions[f]).c), UNCHANGED <<directory, asked>>
       PROVE  CompanionsInv'
  <2>1. Good(f, Confirmed(f, companions[f]).c)
    BY <1>1, ConfirmedGood DEF Through, Halfway
  <2>2. QED BY <1>3, <1>12, <2>1
<1>13. CASE SubmitPerson \/ SubmitMaterial
  BY <1>12, <1>13 DEF SubmitPerson, SubmitMaterial, Forms
<1>14. CASE \/ \E f \in Forms : FailSending(f) \/ LeaveForm(f)
            \/ ChangeTrip \/ ChangeMaterial \/ RefreshMaterial \/ TakeUpload \/ UNCHANGED formsVars
  BY <1>2, <1>14
  DEF FailSending, LeaveForm, ChangeTrip, ChangeMaterial, SwitchCarrier, ChangeCarrier, AddItem,
      RemoveItem, ChangePhoto, ToggleVehicle, PickSignature, AttachSignature, DrawSignature,
      RefreshMaterial, SetMaterial, TakeUpload, formsVars
<1>15. QED
  BY <1>4, <1>5, <1>6, <1>7, <1>8, <1>9, <1>10, <1>11, <1>13, <1>14 DEF FormsNext, RowsNext

LEMMA CompanionsFromTheStart == FormsInit => CompanionsInv
BY NoRowsGood DEF FormsInit, CompanionsInv

\* An employee picked for a row is the one its text names, on no other row, and
\* never the preparer of a material pass, in whatever order rows were typed over,
\* refused, switched, confirmed and removed (collectAssociates).
THEOREM CompanionsCorrect == FormsSpec => []CompanionsAsShown
<1>1. CompanionsInv => CompanionsAsShown
  BY DEF CompanionsInv, CompanionsAsShown, Good, Remembered
<1>2. QED BY <1>1, CompanionsFromTheStart, CompanionsInductive, PTL DEF FormsSpec

\* The notice of the person form says whom the pass will cover, though the rows
\* that a pick or a submission clears do not update it (updateRequestorScopeNotice).
THEOREM NoticeCorrect == FormsSpec => []NoticeTellsWhoGoes
<1>1. CompanionsInv => NoticeTellsWhoGoes
  BY DEF CompanionsInv, NoticeTellsWhoGoes, Good, Forms
<1>2. QED BY <1>1, CompanionsFromTheStart, CompanionsInductive, PTL DEF FormsSpec

\* The companions a request of these rows names: those picked or typed, without
\* the requestor (payloadAssociates).
Companions(rows) ==
  {i \in ShownRows(rows) : rows[i].kind = "other" \/ rows[i].pick \notin {None, Me}}

\* Whenever the person form is sent, somebody goes out: the requestor, or a
\* companion its rows name.
SomebodyGoes ==
  LET confirmed == Confirmed("person", companions["person"])
      rows == confirmed.c.rows
  IN  confirmed.ok => Included(rows) \/ Companions(rows) # {}

\* "Add at least one companion" is never the answer to a list that was confirmed:
\* the last check of submitGatePass is covered by the ones before it.
THEOREM SomebodyAlwaysGoes == FormsSpec => []SomebodyGoes
<1>1. CompanionsInv => SomebodyGoes
  <2> DEFINE c == companions["person"]
             confirmed == Confirmed("person", c)
             rows == confirmed.c.rows
  <2>1. SUFFICES ASSUME CompanionsInv, confirmed.ok, ~Included(rows)
                 PROVE  Companions(rows) # {}
    BY DEF SomebodyGoes
  <2>2. Through("person", Len(c.rows), confirmed, Len(c.rows))
    BY <2>1, ConfirmedGood DEF CompanionsInv, Forms
  <2>3. /\ Len(rows) = Len(c.rows) /\ rows \in Seq(Rows)
        /\ \A j \in 1 .. Len(rows) : ~Unconfirmed(rows[j])
    <3> HIDE DEF confirmed, c
    <3>1. QED BY <2>1, <2>2 DEF Through, Halfway, Lists
  <2> HIDE DEF rows
  <2>4. PICK i \in ShownRows(rows) : rows[i].pick # Me
    BY <2>1 DEF Included
  <2>5. i \in 1 .. Len(rows) /\ rows[i] \in Rows /\ rows[i].text # Blank
    BY <2>3, <2>4 DEF ShownRows
  <2>6. i \in Companions(rows)
    BY <2>3, <2>4, <2>5 DEF Companions, Unconfirmed, Rows
  <2>7. QED BY <2>6
<1>2. QED BY <1>1, CompanionsFromTheStart, CompanionsInductive, PTL DEF FormsSpec
-----------------------------------------------------------------------------
\* The trip and the material form, and the rows that wait.
Trips == [needsVehicle : BOOLEAN, returns : BOOLEAN, type : {"BOTH", "HATID", "SUNDO"},
          free : BOOLEAN, asksTimeIn : BOOLEAN, timeIn : BOOLEAN]
Materials == [carrierKind : {"employee", "other"}, carrier : Employees \cup {None, Words},
              items : 1 .. MaxItems, photos : SUBSET (1 .. MaxItems), vehicle : BOOLEAN,
              signed : BOOLEAN, cleaning : BOOLEAN]

FieldsTyped == /\ shown \in Forms /\ adding \in [Forms -> 0 .. MaxAdding]
               /\ trip \in Trips /\ material \in Materials

LEMMA ResetsTyped ==
  /\ \A t \in Trips : /\ ResetTrip(t) \in Trips
                      /\ \A r \in BOOLEAN : TripTypes(t, r) \in Trips /\ ToggledReturn(t, r) \in Trips
  /\ \A m \in Materials : /\ Initialized(m) \in Materials /\ ResetMaterial(m) \in Materials
                          /\ \A n \in 1 .. MaxItems : WithItems(m, n) \in Materials
<1>1. ASSUME NEW t \in Trips
      PROVE  /\ ResetTrip(t) \in Trips
             /\ \A r \in BOOLEAN : TripTypes(t, r) \in Trips /\ ToggledReturn(t, r) \in Trips
  BY DEF ResetTrip, TripTypes, ToggledReturn, Trips
<1>2. 1 \in 1 .. MaxItems
  BY FormsAssumption
<1>3. ASSUME NEW m \in Materials, NEW n \in 1 .. MaxItems PROVE WithItems(m, n) \in Materials
  BY FormsAssumption DEF WithItems, Materials
<1>4. ASSUME NEW m \in Materials PROVE Initialized(m) \in Materials /\ ResetMaterial(m) \in Materials
  BY <1>2, FormsAssumption DEF Initialized, ResetMaterial, WithItems, Materials
<1>5. QED BY <1>1, <1>3, <1>4

LEMMA FieldsInductive == FieldsTyped /\ [FormsNext]_formsVars => FieldsTyped'
<1> SUFFICES ASSUME FieldsTyped, [FormsNext]_formsVars PROVE FieldsTyped'
  OBVIOUS
<1>1. CASE UNCHANGED <<shown, adding, trip, material>>
  BY <1>1 DEF FieldsTyped
<1>2. ASSUME NEW f \in Forms, PressAdd(f) \/ TakeDirectory(f) PROVE FieldsTyped'
  BY <1>2, FormsAssumption DEF PressAdd, TakeDirectory, FieldsTyped
<1>3. ASSUME NEW f \in Forms, SelectForm(f) PROVE FieldsTyped'
  <2>1. Initialized(material) \in Materials
    BY ResetsTyped DEF FieldsTyped
  <2>2. QED BY <1>3, <2>1 DEF SelectForm, FieldsTyped, Materials
<1>4. CASE ChangeTrip
  <2>1. [trip EXCEPT !.needsVehicle = ~@] \in Trips /\ trip.returns \in BOOLEAN
    BY DEF FieldsTyped, Trips
  <2>2. \A type \in {"BOTH", "HATID", "SUNDO"} : [trip EXCEPT !.type = type] \in Trips
    BY DEF FieldsTyped, Trips
  <2>3. [trip EXCEPT !.timeIn = TRUE] \in Trips
    BY DEF FieldsTyped, Trips
  <2>4. QED BY <1>4, <2>1, <2>2, <2>3, ResetsTyped DEF ChangeTrip, FieldsTyped
<1>5. ASSUME NEW m \in Materials, SetMaterial(m) PROVE FieldsTyped'
  BY <1>5 DEF SetMaterial, FieldsTyped
<1>6. CASE ChangeMaterial \/ RefreshMaterial
  <2>1. material \in Materials
    BY DEF FieldsTyped
  <2>2. CASE SwitchCarrier \/ ChangeCarrier
    BY <1>5, <2>1, <2>2 DEF SwitchCarrier, ChangeCarrier, Materials
  <2>3. CASE AddItem \/ RemoveItem
    <3>1. /\ material.items < MaxItems => material.items + 1 \in 1 .. MaxItems
          /\ material.items > 1 => material.items - 1 \in 1 .. MaxItems
      BY <2>1, FormsAssumption DEF Materials
    <3>2. QED BY <1>5, <2>1, <2>3, <3>1, ResetsTyped DEF AddItem, RemoveItem
  <2>4. CASE ChangePhoto
    <3>1. \A i \in 1 .. material.items : i \in 1 .. MaxItems
      BY <2>1, FormsAssumption DEF Materials
    <3>2. QED BY <1>5, <2>1, <2>4, <3>1 DEF ChangePhoto, Materials
  <2>5. CASE ToggleVehicle \/ PickSignature \/ DrawSignature
    BY <1>5, <2>1, <2>5 DEF ToggleVehicle, PickSignature, DrawSignature, Materials
  <2>6. CASE AttachSignature
    BY <2>1, <2>6 DEF AttachSignature, FieldsTyped, Materials
  <2>7. CASE RefreshMaterial
    BY <2>1, <2>7, ResetsTyped DEF RefreshMaterial, FieldsTyped
  <2>8. QED BY <1>6, <2>2, <2>3, <2>4, <2>5, <2>6, <2>7 DEF ChangeMaterial
<1>7. CASE SignInAgain \/ \E f \in Forms : TakeFiled(f)
  BY <1>7, ResetsTyped DEF SignInAgain, TakeFiled, FieldsTyped
<1>8. CASE \/ \E f \in Forms :
               \/ FailSending(f) \/ LeaveForm(f)
               \/ \E i \in DOMAIN companions[f].rows :
                    \/ RemoveRow(f, i) \/ ToggleKind(f, i)
                    \/ \E text \in Texts : TypeText(f, i, text)
                    \/ \E e \in Employees : PickSuggestion(f, i, e)
           \/ \E e \in Employees : TakeSearch(e)
           \/ SubmitPerson \/ SubmitMaterial \/ TakeUpload \/ UNCHANGED formsVars
  BY <1>1, <1>8
  DEF FailSending, LeaveForm, RemoveRow, ToggleKind, TypeText, PickSuggestion, TakeSearch,
      SubmitPerson, SubmitMaterial, TakeUpload, formsVars
<1>9. QED BY <1>2, <1>3, <1>4, <1>6, <1>7, <1>8 DEF FormsNext, RowsNext

\* Both forms keep to their fields: a list of rows and its notice, a trip, one to
\* twenty items with photos of no other slot.
THEOREM FormsTyped == FormsSpec => []FormsTypeOK
<1>1. FormsInit => FieldsTyped
  BY FormsAssumption DEF FormsInit, FieldsTyped, Forms, Trips, Materials, FirstTrip, FirstMaterial
<1>2. CompanionsInv /\ FieldsTyped => FormsTypeOK
  BY DEF CompanionsInv, FieldsTyped, FormsTypeOK, Good, Lists, Notices, Trips, Materials
<1>3. QED
  BY <1>1, <1>2, CompanionsFromTheStart, CompanionsInductive, FieldsInductive, PTL DEF FormsSpec
-----------------------------------------------------------------------------
(* The schedule calendar: the month                                        *)

\* The guest's grid is about to be loaded, or is being loaded, or was drawn for
\* the guest.
GuestInv ==
  /\ DOMAIN fetching = Fetches /\ month \in Months
  /\ GuestSeesNoPast

\* What is not past is today's or later (days are numbers).
LEMMA NotPast ==
  ASSUME NEW m \in Months, NEW d \in GridDays[m], ~(d < Today)
  PROVE  d >= Today
<1>1. d \in Nat /\ Today \in Nat
  BY CalendarAssumption
<1>2. QED BY <1>1

\* A load is sent beside those under way.
LEMMA FetchSends ==
  ASSUME DOMAIN fetching = Fetches, NEW what, NEW days, Fetch(what, days)
  PROVE  /\ DOMAIN fetching' = Fetches
         /\ \E k \in Fetches : fetching'[k].for = what
         /\ \A k \in Fetches : fetching'[k] = fetching[k] \/ fetching[k].for = "nothing"
<1>1. PICK k \in Fetches : /\ fetching[k] = NoFetch
                           /\ fetching' = [fetching EXCEPT ![k] = [for |-> what, days |-> days]]
  BY DEF Fetch, Unsent
<1>2. QED BY <1>1 DEF NoFetch

LEMMA GuestInductive == GuestInv /\ [CalendarNext]_calendarVars => GuestInv'
<1> SUFFICES ASSUME GuestInv, [CalendarNext]_calendarVars PROVE GuestInv'
  OBVIOUS
<1>1. UNCHANGED <<who, opening, month, fetching, grid>> => GuestInv'
  BY DEF GuestInv, GuestSeesNoPast
<1>2. CASE Rebook \/ OpenDay \/ UNCHANGED calendarVars
  BY <1>1, <1>2 DEF Rebook, OpenDay, calendarVars
<1>3. CASE Exit \/ OpenCalendar \/ \E w \in {"user", "guest"} : Arrive(w)
  BY <1>3 DEF Exit, OpenCalendar, Arrive, GuestInv, GuestSeesNoPast
<1>4. ASSUME NEW what, NEW days, Fetch(what, days)
      PROVE  /\ DOMAIN fetching' = Fetches
             /\ \E k \in Fetches : fetching'[k].for = what
             /\ \A k \in Fetches : fetching'[k] = fetching[k] \/ fetching[k].for = "nothing"
  BY <1>4, FetchSends DEF GuestInv
<1>5. CASE Opened
  <2>1. CASE who = "nobody"
    BY <1>5, <2>1 DEF Opened, GuestInv, GuestSeesNoPast
  <2>2. CASE who # "nobody"
    BY <1>4, <1>5, <2>2 DEF Opened, GuestInv, GuestSeesNoPast
  <2>3. QED BY <2>1, <2>2
<1>6. CASE Navigate
  BY <1>4, <1>6 DEF Navigate, GuestInv, GuestSeesNoPast
<1>7. CASE Export
  <2>1. /\ UNCHANGED <<who, opening, month, grid>>
        /\ DOMAIN fetching' = Fetches
        /\ \A k \in Fetches : fetching'[k] = fetching[k] \/ fetching[k].for = "nothing"
    BY <1>4, <1>7 DEF Export
  <2>2. (\A k \in Fetches : fetching'[k].for # "month") => \A k \in Fetches : fetching[k].for # "month"
    BY <2>1
  <2>3. QED BY <2>1, <2>2 DEF GuestInv, GuestSeesNoPast
<1>8. CASE ChangeFilters
  <2>1. UNCHANGED <<who, opening, month, fetching>> /\ grid' = Grid(schedule)'
    BY <1>8 DEF ChangeFilters
  <2>2. month' \in Months
    BY <2>1 DEF GuestInv
  <2>3. ASSUME who' = "guest", NEW b \in grid'.entries PROVE b.day >= Today
    <3>1. b \in Grid(schedule)'.entries
      BY <2>1, <2>3
    <3>2. b.day \in GridDays[month'] /\ ~(b.day < Today)
      BY <2>3, <3>1 DEF Grid, Visible
    <3>3. QED BY <2>2, <3>2, NotPast
  <2>4. QED BY <2>1, <2>2, <2>3 DEF GuestInv, GuestSeesNoPast
<1>9. ASSUME NEW k \in Fetches, AnswerFetch(k) PROVE GuestInv'
  <2>1. /\ UNCHANGED <<who, opening, month>>
        /\ DOMAIN fetching' = Fetches
        /\ \A j \in Fetches \ {k} : fetching'[j] = fetching[j]
    BY <1>9 DEF AnswerFetch, GuestInv
  <2>2. CASE fetching[k].for = "month"
    <3>1. grid' = Grid(schedule')
      BY <1>9, <2>2 DEF AnswerFetch
    <3>2. ASSUME who' = "guest", NEW b \in grid'.entries PROVE b.day >= Today
      <4>1. b \in Grid(schedule').entries /\ who = "guest" /\ month \in Months
        BY <2>1, <3>1, <3>2 DEF GuestInv
      <4>2. b.day \in GridDays[month] /\ ~(b.day < Today)
        BY <4>1 DEF Grid, Visible
      <4>3. QED BY <4>1, <4>2, NotPast
    <3>3. QED BY <2>1, <3>2 DEF GuestInv, GuestSeesNoPast
  <2>3. CASE fetching[k].for # "month"
    <3>1. grid' = grid
      BY <1>9, <2>3 DEF AnswerFetch
    <3>2. QED BY <2>1, <2>3, <3>1 DEF GuestInv, GuestSeesNoPast
  <2>4. QED BY <2>2, <2>3
<1>10. QED BY <1>2, <1>3, <1>5, <1>6, <1>7, <1>8, <1>9 DEF CalendarNext

\* A guest never sees past entries once the calendar has loaded, whatever a user
\* of the tab had ticked or left under way (schedFilteredData, isGuestCalendarView).
THEOREM GuestIsShown == CalendarSpec => []GuestSeesNoPast
<1>1. CalendarInit => GuestInv
  BY DEF CalendarInit, GuestInv, GuestSeesNoPast
<1>2. QED BY <1>1, GuestInductive, PTL DEF CalendarSpec, GuestInv
-----------------------------------------------------------------------------
\* While the title over the grid is not the month the buttons count from, a load
\* that will draw the grid is under way.
TitleIsAwaited == grid.title # month => \E k \in Fetches : fetching[k].for = "month"

TitleInv == DOMAIN fetching = Fetches /\ TitleIsAwaited

LEMMA TitleInductive == TitleInv /\ [CalendarNext]_calendarVars => TitleInv'
<1> SUFFICES ASSUME TitleInv, [CalendarNext]_calendarVars PROVE TitleInv'
  OBVIOUS
<1>1. \A entries : Grid(entries).title = month /\ Grid(entries)'.title = month'
  BY DEF Grid
<1>2. CASE \/ Rebook \/ Exit \/ OpenCalendar \/ OpenDay \/ (\E w \in {"user", "guest"} : Arrive(w))
           \/ UNCHANGED calendarVars
  <2>1. UNCHANGED <<month, grid, fetching>>
    BY <1>2 DEF Rebook, Exit, OpenCalendar, OpenDay, Arrive, calendarVars
  <2>2. QED BY <2>1 DEF TitleInv, TitleIsAwaited
<1>3. CASE Opened
  <2>1. CASE who = "nobody"
    BY <1>1, <1>3, <2>1 DEF Opened, TitleInv, TitleIsAwaited
  <2>2. CASE who # "nobody"
    <3>1. Fetch("month", GridDays[month])
      BY <1>3, <2>2 DEF Opened
    <3>2. QED BY <3>1, FetchSends DEF TitleInv, TitleIsAwaited
  <2>3. QED BY <2>1, <2>2
<1>4. CASE Navigate
  <2>1. PICK m \in Months : Fetch("month", GridDays[m])
    BY <1>4 DEF Navigate
  <2>2. QED BY <2>1, FetchSends DEF TitleInv, TitleIsAwaited
<1>5. CASE Export
  <2>1. UNCHANGED <<month, grid>> /\ Fetch("export", Week)
    BY <1>5 DEF Export
  <2>2. \A k \in Fetches : fetching[k].for = "month" => fetching'[k] = fetching[k]
    BY <2>1, FetchSends DEF TitleInv
  <2>3. QED BY <2>1, <2>2, FetchSends DEF TitleInv, TitleIsAwaited
<1>6. CASE ChangeFilters
  BY <1>1, <1>6 DEF ChangeFilters, TitleInv, TitleIsAwaited
<1>7. ASSUME NEW k \in Fetches, AnswerFetch(k) PROVE TitleInv'
  <2>1. /\ month' = month /\ DOMAIN fetching' = Fetches
        /\ \A j \in Fetches \ {k} : fetching'[j] = fetching[j]
    BY <1>7 DEF AnswerFetch, TitleInv
  <2>2. CASE fetching[k].for = "month"
    BY <1>1, <1>7, <2>1, <2>2 DEF AnswerFetch, TitleInv, TitleIsAwaited
  <2>3. CASE fetching[k].for # "month"
    <3>1. grid' = grid
      BY <1>7, <2>3 DEF AnswerFetch
    <3>2. QED BY <2>1, <2>3, <3>1 DEF TitleInv, TitleIsAwaited
  <2>4. QED BY <2>2, <2>3
<1>8. QED BY <1>2, <1>3, <1>4, <1>5, <1>6, <1>7 DEF CalendarNext

\* A grid under the wrong title never stays: a load of the month is under way, and
\* every answer to one, also a failure, draws the grid of the month looked at then
\* (loadScheduleData).  TitleSettles rests on it.
THEOREM NoTitleForgotten == CalendarSpec => []TitleIsAwaited
<1>1. CalendarInit => TitleInv
  BY DEF CalendarInit, TitleInv, TitleIsAwaited
<1>2. QED BY <1>1, TitleInductive, PTL DEF CalendarSpec, TitleInv
-----------------------------------------------------------------------------
(* The schedule calendar: the grid of a day                                *)

\* Any block that any grid could have.
Parts == [of : Bookings, columns : SUBSET Vehicles]

\* Two parts that cannot both be drawn.
Clash(p, q) == Cells(p.of) \cap Cells(q.of) # {} /\ p.columns \cap q.columns # {}

LEMMA Sortable ==
  ASSUME NEW b \in Bookings
  PROVE  b.from \in Nat /\ b.priority \in Nat
<1>1. b.from \in Nat /\ b.priority \in 0 .. 2
  BY CalendarAssumption
<1>2. QED BY <1>1

LEMMA LeastBy ==
  ASSUME NEW T, T # {}, NEW f \in [T -> Nat]
  PROVE  \E t \in T : \A u \in T : f[t] <= f[u]
<1> DEFINE Values == {f[t] : t \in T}
<1>1. PICK n \in Values : \A m \in Values : n <= m
  <2>1. Values \in SUBSET Nat /\ Values # {}
    OBVIOUS
  <2> HIDE DEF Values
  <2>2. QED BY <2>1, LeastNatural
<1>2. QED BY <1>1

\* What is least by two numbers, the first before the second.
LEMMA LeastByBoth ==
  ASSUME NEW T, T # {}, NEW f \in [T -> Nat], NEW g \in [T -> Nat]
  PROVE  \E t \in T : \A u \in T : f[t] < f[u] \/ (f[t] = f[u] /\ g[t] <= g[u])
<1>1. PICK t \in T : \A u \in T : f[t] <= f[u]
  BY LeastBy
<1> DEFINE U == {u \in T : f[u] = f[t]}
           h == [u \in U |-> g[u]]
<1>2. PICK v \in U : \A u \in U : h[v] <= h[u]
  <2>1. U # {} /\ h \in [U -> Nat]
    OBVIOUS
  <2> HIDE DEF U, h
  <2>2. QED BY <2>1, LeastBy
<1>3. v \in T /\ f[v] = f[t] /\ \A u \in T : f[u] = f[t] => g[v] <= g[u]
  BY <1>2
<1>4. \A u \in T : f[v] \in Nat /\ f[u] \in Nat /\ f[t] <= f[u]
  BY <1>1, <1>3
<1>5. QED BY <1>3, <1>4

\* Of two entries one is first whatever else there is.
LEMMA Foremost ==
  ASSUME NEW S, S # {}, S \subseteq Bookings
  PROVE  \E b \in S : \A a \in S : ~Preferred(a, b)
<1> DEFINE f == [b \in S |-> b.priority]
           g == [b \in S |-> b.from]
<1>1. f \in [S -> Nat] /\ g \in [S -> Nat]
  BY Sortable
<1>2. /\ \A b \in S : f[b] = b.priority /\ g[b] = b.from
      /\ \A b \in S : b.priority \in Nat /\ b.from \in Nat
  BY Sortable
<1> HIDE DEF f, g
<1>3. PICK b \in S : \A a \in S : f[b] < f[a] \/ (f[b] = f[a] /\ g[b] <= g[a])
  BY <1>1, LeastByBoth
<1>4. QED BY <1>2, <1>3 DEF Preferred

\* The same of the parts.
LEMMA ForemostPart ==
  ASSUME NEW S, S # {}, S \subseteq Parts
  PROVE  \E p \in S : \A q \in S : ~Earlier(q, p)
<1> DEFINE f == [p \in S |-> p.of.from]
           g == [p \in S |-> p.of.priority]
<1>1. \A p \in S : p.of.from \in Nat /\ p.of.priority \in Nat
  <2>1. \A p \in S : p.of \in Bookings
    BY DEF Parts
  <2>2. QED BY <2>1, Sortable
<1>2. f \in [S -> Nat] /\ g \in [S -> Nat] /\ \A p \in S : f[p] = p.of.from /\ g[p] = p.of.priority
  BY <1>1
<1> HIDE DEF f, g
<1>3. PICK p \in S : \A q \in S : f[p] < f[q] \/ (f[p] = f[q] /\ g[p] <= g[q])
  BY <1>2, LeastByBoth
<1>4. QED BY <1>1, <1>2, <1>3 DEF Earlier

LEMMA PartsFinite == IsFiniteSet(Parts)
<1> DEFINE Pairs == Bookings \X SUBSET Vehicles
           part == [pair \in Pairs |-> [of |-> pair[1], columns |-> pair[2]]]
<1>1. IsFiniteSet(Pairs)
  BY CalendarAssumption, FS_SUBSET, FS_Product
<1>2. part \in Surjection(Pairs, Parts)
  <2>1. part \in [Pairs -> Parts]
    BY DEF Parts
  <2>2. ASSUME NEW p \in Parts PROVE \E pair \in Pairs : part[pair] = p
    <3>1. <<p.of, p.columns>> \in Pairs /\ part[<<p.of, p.columns>>] = p
      BY DEF Parts
    <3>2. QED BY <3>1
  <2> HIDE DEF Pairs, part
  <2>3. QED BY <2>1, <2>2 DEF Surjection
<1> HIDE DEF Pairs, part
<1>3. QED BY <1>1, <1>2, FS_Surjection

IsInOrder(s, S) ==
  /\ s \in Surjection(1 .. Cardinality(S), S)
  /\ \A i, j \in DOMAIN s : i < j => ~Earlier(s[j], s[i])

LEMMA OrderExists ==
  ASSUME NEW S, S \subseteq Parts
  PROVE  Cardinality(S) \in Nat /\ IsInOrder(InOrder(S), S)
<1>1. IsFiniteSet(S) /\ Cardinality(S) \in Nat
  BY PartsFinite, FS_Subset, FS_CardinalityType
<1> DEFINE n == Cardinality(S)
           Sorted == {i \in 0 .. n : \A T \in SUBSET S : Cardinality(T) = i => \E s : IsInOrder(s, T)}
<1>2. 0 \in Sorted
  <2> SUFFICES ASSUME NEW T \in SUBSET S, Cardinality(T) = 0 PROVE \E s : IsInOrder(s, T)
    BY <1>1
  <2>1. T = {}
    BY <1>1, FS_Subset, FS_EmptySet
  <2> DEFINE s == [i \in 1 .. 0 |-> i]
  <2>2. s \in Surjection(1 .. Cardinality(T), T) /\ DOMAIN s = {}
    BY <2>1 DEF Surjection
  <2>3. QED BY <2>2 DEF IsInOrder
<1>3. ASSUME NEW i \in 0 .. n - 1, i \in Sorted PROVE i + 1 \in Sorted
  <2> SUFFICES ASSUME NEW T \in SUBSET S, Cardinality(T) = i + 1 PROVE \E s : IsInOrder(s, T)
    BY <1>1
  <2>1. IsFiniteSet(T) /\ T # {} /\ T \subseteq Parts
    BY <1>1, FS_Subset, FS_EmptySet
  <2>2. PICK b \in T : \A a \in T : ~Earlier(a, b)
    BY <2>1, ForemostPart
  <2>3. Cardinality(T \ {b}) = i
    <3>1. Cardinality(T \ {b}) = Cardinality(T) - 1
      BY <2>1, FS_RemoveElement
    <3>2. i \in Nat
      BY <1>1
    <3>3. QED BY <3>1, <3>2
  <2>4. PICK r : IsInOrder(r, T \ {b})
    BY <1>3, <2>3
  <2> DEFINE s == [k \in 1 .. i + 1 |-> IF k = 1 THEN b ELSE r[k - 1]]
  <2>5. /\ DOMAIN r = 1 .. i /\ \A k \in 1 .. i : r[k] \in T \ {b}
        /\ \A a \in T \ {b} : \E k \in 1 .. i : r[k] = a
    BY <2>3, <2>4 DEF IsInOrder, Surjection
  <2>6. /\ DOMAIN s = 1 .. i + 1 /\ s[1] = b /\ 1 \in 1 .. i + 1
        /\ \A k \in 1 .. i : k + 1 \in 1 .. i + 1 /\ s[k + 1] = r[k]
        /\ \A k \in 1 .. i + 1 : k # 1 => k - 1 \in 1 .. i /\ s[k] = r[k - 1]
    BY <1>1
  <2> HIDE DEF s
  <2>7. s \in [1 .. Cardinality(T) -> T]
    <3>1. \A k \in 1 .. i + 1 : s[k] \in T
      BY <2>5, <2>6
    <3>2. s = [k \in 1 .. i + 1 |-> s[k]]
      BY DEF s
    <3>3. QED BY <3>1, <3>2
  <2>8. \A a \in T : \E k \in 1 .. Cardinality(T) : s[k] = a
    BY <2>5, <2>6
  <2>9. ASSUME NEW k \in DOMAIN s, NEW l \in DOMAIN s, k < l PROVE ~Earlier(s[l], s[k])
    <3>1. CASE k = 1
      BY <2>2, <2>6, <2>7, <3>1
    <3>2. CASE k # 1
      <4>1. l # 1 /\ k - 1 < l - 1
        BY <2>6, <2>9, <3>2
      <4>2. k - 1 \in DOMAIN r /\ l - 1 \in DOMAIN r /\ s[k] = r[k - 1] /\ s[l] = r[l - 1]
        BY <2>5, <2>6, <3>2, <4>1
      <4>3. \A x, y \in DOMAIN r : x < y => ~Earlier(r[y], r[x])
        BY <2>4 DEF IsInOrder
      <4>4. QED BY <4>1, <4>2, <4>3
    <3>3. QED BY <3>1, <3>2
  <2>10. IsInOrder(s, T)
    BY <2>7, <2>8, <2>9 DEF IsInOrder, Surjection
  <2>11. QED BY <2>10
<1>4. n \in Sorted
  <2> HIDE DEF Sorted
  <2>1. \A i \in 0 .. n : i \in Sorted
    BY <1>1, <1>2, <1>3, Induction
  <2>2. QED BY <1>1, <2>1
<1>5. \E s : IsInOrder(s, S)
  BY <1>4
<1>6. QED BY <1>1, <1>5 DEF InOrder, IsInOrder

LEMMA WiderSeq == ASSUME NEW X, NEW Y, X \subseteq Y, NEW s \in Seq(X) PROVE s \in Seq(Y)
OBVIOUS

LEMMA FirstOfKind ==
  ASSUME NEW S, S \subseteq Bookings, NEW kind, NEW tab
  PROVE  FirstOf(S, kind, tab) \in Seq([of : OfKind(S, kind), columns : {tab}])
<1> DEFINE all == OfKind(S, kind)
<1>1. CASE all = {}
  BY <1>1 DEF FirstOf
<1>2. CASE all # {}
  <2>1. all \subseteq Bookings
    BY DEF OfKind
  <2>2. (CHOOSE b \in all : \A a \in all : ~Preferred(a, b)) \in all
    <3> HIDE DEF all
    <3>1. QED BY <1>2, <2>1, Foremost
  <2> DEFINE first == CHOOSE b \in all : \A a \in all : ~Preferred(a, b)
             block == [of |-> first, columns |-> tab]
  <2>3. FirstOf(S, kind, tab) = <<block>>
    BY <1>2 DEF FirstOf
  <2>4. block \in [of : all, columns : {tab}]
    BY <2>2
  <2> HIDE DEF block
  <2>5. <<block>> \in Seq([of : all, columns : {tab}])
    <3> HIDE DEF all
    <3>1. QED BY <2>4
  <2>6. QED BY <2>3, <2>5
<1>3. QED BY <1>1, <1>2

\* The blocks that a day's grid could have.
DayParts(S, tab) == [of : S, columns : SUBSET tab]

\* The order in which the parts of a day are placed.
Queue(S, tab) == FirstOf(S, "MORNING MEETING", tab) \o FirstOf(S, "LUNCH BREAK", tab)
                     \o InOrder(TripParts(S, tab))

\* Trips come by their start.
TripsInOrder(s) ==
  \A j, k \in DOMAIN s : k < j /\ s[k].of.kind = "trip" => ~Earlier(s[j], s[k])

\* They do, and each part of them comes.
LEMMA QueueProperties ==
  ASSUME NEW S, S \subseteq Bookings, NEW tab, tab \subseteq Vehicles
  PROVE  /\ Queue(S, tab) \in Seq(DayParts(S, tab))
         /\ TripsInOrder(Queue(S, tab))
         /\ \A p \in TripParts(S, tab) : \E j \in DOMAIN Queue(S, tab) : Queue(S, tab)[j] = p
<1> DEFINE meeting == FirstOf(S, "MORNING MEETING", tab)
           lunch == FirstOf(S, "LUNCH BREAK", tab)
           all == TripParts(S, tab)
           trips == InOrder(all)
           P == DayParts(S, tab)
           Special(kind) == [of : OfKind(S, kind), columns : {tab}]
           m == Len(meeting) + Len(lunch)
           n == Cardinality(all)
<1>0. all \subseteq P /\ all \subseteq Parts /\ \A p \in all : p.of.kind = "trip"
  BY DEF TripParts, OfKind, Parts, DayParts
<1>1. meeting \in Seq(Special("MORNING MEETING")) /\ lunch \in Seq(Special("LUNCH BREAK"))
  BY FirstOfKind
<1>2. n \in Nat /\ IsInOrder(trips, all)
  <2> HIDE DEF all
  <2>2. QED BY <1>0, OrderExists
<1>3. /\ trips \in [1 .. n -> all] /\ DOMAIN trips = 1 .. n
      /\ \A b \in all : \E i \in 1 .. n : trips[i] = b
      /\ \A i, j \in 1 .. n : i < j => ~Earlier(trips[j], trips[i])
  BY <1>2 DEF IsInOrder, Surjection
<1>4. trips \in Seq(all) /\ Len(trips) = n
  BY <1>2, <1>3
<1>5. /\ meeting \in Seq(P) /\ lunch \in Seq(P) /\ trips \in Seq(P)
      /\ \A i \in 1 .. Len(meeting) : meeting[i].of.kind # "trip"
      /\ \A i \in 1 .. Len(lunch) : lunch[i].of.kind # "trip"
  <2>1. \A kind : Special(kind) \subseteq P /\ \A p \in Special(kind) : p.of.kind = kind
    BY DEF OfKind, DayParts
  <2>2. \A i \in 1 .. Len(meeting) : meeting[i] \in Special("MORNING MEETING")
    <3> HIDE DEF meeting, Special
    <3>1. QED BY <1>1, ElementOfSeq
  <2>3. \A i \in 1 .. Len(lunch) : lunch[i] \in Special("LUNCH BREAK")
    <3> HIDE DEF lunch, Special
    <3>1. QED BY <1>1, ElementOfSeq
  <2> HIDE DEF meeting, lunch, trips, all, P, Special
  <2>4. meeting \in Seq(P) /\ lunch \in Seq(P) /\ trips \in Seq(P)
    BY <1>0, <1>1, <1>4, <2>1, WiderSeq
  <2>5. QED BY <2>1, <2>2, <2>3, <2>4
<1> DEFINE first == meeting \o lunch
           s == first \o trips
<1> HIDE DEF meeting, lunch, all, trips, n, P
<1>6. /\ first \in Seq(P) /\ Len(first) = m /\ m \in Nat
      /\ \A i \in 1 .. m : first[i].of.kind # "trip"
  <2>1. \A i \in 1 .. m : first[i] = IF i <= Len(meeting) THEN meeting[i] ELSE lunch[i - Len(meeting)]
    BY <1>5, ConcatProperties
  <2>2. first \in Seq(P) /\ Len(first) = m /\ Len(meeting) \in Nat /\ Len(lunch) \in Nat
    BY <1>5, ConcatProperties
  <2>3. \A i \in 1 .. m : i <= Len(meeting) => i \in 1 .. Len(meeting)
    BY <2>2
  <2>4. \A i \in 1 .. m : ~(i <= Len(meeting)) => i - Len(meeting) \in 1 .. Len(lunch)
    BY <2>2
  <2>5. QED BY <1>5, <2>1, <2>2, <2>3, <2>4
<1> HIDE DEF first, m
<1>7. /\ s \in Seq(P) /\ Len(s) = m + n /\ DOMAIN s = 1 .. m + n
      /\ \A i \in 1 .. m + n : s[i] = IF i <= m THEN first[i] ELSE trips[i - m]
  <2>1. s \in Seq(P) /\ Len(s) = m + n
    BY <1>2, <1>4, <1>5, <1>6, ConcatProperties
  <2>2. \A i \in 1 .. m + n : s[i] = IF i <= m THEN first[i] ELSE trips[i - m]
    BY <1>2, <1>4, <1>5, <1>6, ConcatProperties
  <2> HIDE DEF s
  <2>3. DOMAIN s = 1 .. m + n
    BY <2>1
  <2>4. QED BY <2>1, <2>2, <2>3
<1> HIDE DEF s
<1>8. ASSUME NEW j \in 1 .. m + n, NEW k \in 1 .. m + n, k < j, s[k].of.kind = "trip"
      PROVE  ~Earlier(s[j], s[k])
  <2>1. ~(k <= m)
    <3>1. k <= m => k \in 1 .. m
      BY <1>2, <1>6
    <3>2. QED BY <1>6, <1>7, <1>8, <3>1
  <2>2. k - m \in 1 .. n /\ j - m \in 1 .. n /\ k - m < j - m /\ ~(j <= m)
    BY <1>2, <1>6, <1>8, <2>1
  <2>3. s[k] = trips[k - m] /\ s[j] = trips[j - m]
    BY <1>7, <2>1, <2>2
  <2>4. QED BY <1>3, <2>2, <2>3
<1>9. ASSUME NEW b \in all PROVE \E j \in 1 .. m + n : s[j] = b
  <2>1. PICK i \in 1 .. n : trips[i] = b
    BY <1>3
  <2>2. m + i \in 1 .. m + n /\ ~(m + i <= m) /\ (m + i) - m = i
    BY <1>2, <1>6
  <2>3. QED BY <1>7, <2>1, <2>2
<1>10. Queue(S, tab) = s
  BY DEF Queue, s, first, meeting, lunch, trips, all
<1>11. QED BY <1>7, <1>8, <1>9, <1>10 DEF all, P, TripsInOrder
-----------------------------------------------------------------------------
\* The first i parts of s have been placed: those drawn do not clash, and one
\* left out meets no slot or clashes with one placed before it.
Placed(S, s, i, blocks) ==
  /\ blocks \in SUBSET S
  /\ \A a \in blocks : \E j \in 1 .. i : s[j] = a
  /\ \A a \in blocks : \A b \in blocks \ {a} : ~Clash(a, b)
  /\ \A j \in 1 .. i : \/ s[j] \in blocks \/ Cells(s[j].of) = {}
                       \/ \E k \in 1 .. j - 1 : s[k] \in blocks /\ Clash(s[k], s[j])

LEMMA DrawnPlaces ==
  ASSUME NEW S, NEW s \in Seq(S), NEW i \in 1 .. Len(s), NEW blocks, Placed(S, s, i - 1, blocks)
  PROVE  Placed(S, s, i, Drawn(blocks, s[i]))
<1>1. s[i] \in S /\ \A j \in 1 .. i : j \in 1 .. i - 1 \/ j = i
  OBVIOUS
<1>2. \A j \in 1 .. i - 1 : j \in 1 .. i
  OBVIOUS
<1>3. i \in 1 .. i
  OBVIOUS
<1>4. CASE Cells(s[i].of) = {} \/ \E a \in blocks : Clash(a, s[i])
  <2>1. Drawn(blocks, s[i]) = blocks
    BY <1>4 DEF Drawn, Clash
  <2>2. Cells(s[i].of) = {} \/ \E k \in 1 .. i - 1 : s[k] \in blocks /\ Clash(s[k], s[i])
    BY <1>4 DEF Placed
  <2>3. QED BY <1>1, <1>2, <2>1, <2>2 DEF Placed
<1>5. CASE ~(Cells(s[i].of) = {} \/ \E a \in blocks : Clash(a, s[i]))
  <2>1. Drawn(blocks, s[i]) = blocks \cup {s[i]}
    BY <1>5 DEF Drawn, Clash
  <2>2. \A a, b : Clash(a, b) => Clash(b, a)
    BY DEF Clash
  <2> DEFINE more == blocks \cup {s[i]}
  <2>3. more \in SUBSET S /\ \A a \in more : \E j \in 1 .. i : s[j] = a
    BY <1>1, <1>2, <1>3 DEF Placed
  <2>4. \A a \in more : \A b \in more \ {a} : ~Clash(a, b)
    BY <1>5, <2>2 DEF Placed
  <2>5. \A j \in 1 .. i : \/ s[j] \in more \/ Cells(s[j].of) = {}
                          \/ \E k \in 1 .. j - 1 : s[k] \in more /\ Clash(s[k], s[j])
    BY <1>1 DEF Placed
  <2> HIDE DEF more
  <2>6. QED BY <2>1, <2>3, <2>4, <2>5 DEF Placed, more
<1>6. QED BY <1>4, <1>5

LEMMA AllPlaced ==
  ASSUME NEW E, E \subseteq Bookings, NEW tab, tab \subseteq Vehicles
  PROVE  Placed(DayParts(E, tab), Queue(E, tab), Len(Queue(E, tab)), DayBlocks(E, tab))
<1> DEFINE S == DayParts(E, tab)
           s == Queue(E, tab)
           n == Len(s)
           A == SUBSET S
           F == [p \in A \X S |-> Drawn(p[1], p[2])]
           Runs(it) == it = [t \in SUBSET (1 .. n) |->
                               IF t = {} THEN {} ELSE Drawn(it[t \ {Max(t)}], s[Max(t)])]
           through == CHOOSE it : Runs(it)
<1>1. s \in Seq(S) /\ n \in Nat /\ DOMAIN s = 1 .. n /\ \A i \in 1 .. n : s[i] \in S
  <2>1. s \in Seq(S)
    BY QueueProperties
  <2> HIDE DEF s, S
  <2>2. QED BY <2>1
<1>2. DayBlocks(E, tab) = through[1 .. n]
  <2>1. DayBlocks(E, tab) = FoldLeft(Drawn, {}, s)
    BY DEF DayBlocks, Queue
  <2> HIDE DEF s
  <2>2. QED BY <1>1, <2>1 DEF FoldLeft, MapThenFoldSet
<1> HIDE DEF s, S
<1>3. Runs(through)
  <2>1. F \in [A \X S -> A]
    BY DEF Drawn
  <2>2. PICK it \in [SUBSET (1 .. n) -> A] : Folds(it, F, {}, s, n)
    <3>1. {} \in A
      OBVIOUS
    <3> HIDE DEF A, F
    <3>2. QED BY <1>1, <2>1, <3>1, FoldExists
  <2>3. ASSUME NEW t \in SUBSET (1 .. n), t # {}
        PROVE  F[<<it[t \ {Max(t)}], s[Max(t)]>>] = Drawn(it[t \ {Max(t)}], s[Max(t)])
    <3>1. Max(t) \in 1 .. n /\ t \ {Max(t)} \in SUBSET (1 .. n)
      BY <1>1, <2>3, LargestIndex
    <3>2. it[t \ {Max(t)}] \in A /\ s[Max(t)] \in S
      BY <1>1, <3>1
    <3> HIDE DEF A
    <3>3. QED BY <3>2
  <2>4. Runs(it)
    <3> HIDE DEF F
    <3>1. QED BY <2>2, <2>3 DEF Folds
  <2> HIDE DEF Runs
  <2>5. QED BY <2>4
<1>4. /\ through[1 .. 0] = {}
      /\ \A i \in 1 .. n : through[1 .. i] = Drawn(through[1 .. (i - 1)], s[i])
  <2> HIDE DEF through
  <2>1. through[1 .. 0] = {}
    <3>1. 1 .. 0 = {} /\ 1 .. 0 \in SUBSET (1 .. n)
      OBVIOUS
    <3>2. QED BY <1>3, <3>1
  <2>2. ASSUME NEW i \in 1 .. n
        PROVE  through[1 .. i] = Drawn(through[1 .. (i - 1)], s[i])
    <3>1. /\ 1 .. i \in SUBSET (1 .. n) /\ 1 .. i # {} /\ Max(1 .. i) = i
          /\ (1 .. i) \ {i} = 1 .. (i - 1)
      BY <1>1, LastIndex
    <3>2. through[1 .. i] = Drawn(through[(1 .. i) \ {Max(1 .. i)}], s[Max(1 .. i)])
      BY <1>3, <3>1
    <3>3. QED BY <3>1, <3>2
  <2>3. QED BY <2>1, <2>2
<1>5. Placed(S, s, n, through[1 .. n])
  <2> DEFINE P == {i \in 0 .. n : Placed(S, s, i, through[1 .. i])}
  <2> HIDE DEF through
  <2>1. 0 \in P
    BY <1>1, <1>4 DEF Placed
  <2>2. ASSUME NEW i \in 0 .. n - 1, i \in P PROVE i + 1 \in P
    <3>1. i + 1 \in 1 .. n /\ (i + 1) - 1 = i /\ Placed(S, s, i, through[1 .. i])
      BY <1>1, <2>2
    <3>2. through[1 .. (i + 1)] = Drawn(through[1 .. i], s[i + 1])
      BY <1>4, <3>1
    <3>3. Placed(S, s, i + 1, Drawn(through[1 .. i], s[i + 1]))
      BY <1>1, <3>1, DrawnPlaces
    <3>4. QED BY <1>1, <3>1, <3>2, <3>3
  <2> HIDE DEF P
  <2>3. \A i \in 0 .. n : i \in P
    BY <1>1, <2>1, <2>2, Induction
  <2>4. n \in P
    BY <1>1, <2>3
  <2>5. QED BY <2>4 DEF P
<1>6. QED BY <1>2, <1>5 DEF s, S
-----------------------------------------------------------------------------
\* The grid of a day with these entries and columns is fair (DayGridIsFair, for
\* any day and tab).
Fair(entries, tab, blocks) ==
  /\ \A p \in blocks : \A q \in blocks \ {p} : ShareSlot(p.of, q.of) => p.columns \cap q.columns = {}
  /\ \A q \in TripParts(entries, tab) \ blocks :
       ShareSlot(q.of, q.of) =>
         \E p \in blocks : /\ ShareSlot(p.of, q.of) /\ q.columns \subseteq p.columns
                           /\ p.of.kind = "trip" => p.of.from <= q.of.from

LEMMA DayBlocksFair ==
  ASSUME NEW S, S \subseteq Bookings, NEW tab, tab \subseteq Vehicles
  PROVE  DayBlocks(S, tab) \subseteq DayParts(S, tab) /\ Fair(S, tab, DayBlocks(S, tab))
<1> DEFINE P == DayParts(S, tab)
           s == Queue(S, tab)
           blocks == DayBlocks(S, tab)
<1>1. Placed(P, s, Len(s), blocks) /\ s \in Seq(P) /\ DOMAIN s = 1 .. Len(s)
  <2>1. Placed(P, s, Len(s), blocks) /\ s \in Seq(P)
    BY AllPlaced, QueueProperties
  <2> HIDE DEF s, P
  <2>2. QED BY <2>1
<1>2. TripsInOrder(s) /\ \A p \in TripParts(S, tab) : \E j \in DOMAIN s : s[j] = p
  <2>1. TripsInOrder(s)
    BY QueueProperties
  <2>2. \A p \in TripParts(S, tab) : \E j \in DOMAIN s : s[j] = p
    BY QueueProperties
  <2> HIDE DEF s
  <2>3. QED BY <2>1, <2>2
<1> HIDE DEF s, blocks
<1>3. \A a, b : ShareSlot(a, b) <=> Cells(a) \cap Cells(b) # {}
  BY DEF ShareSlot, Cells
<1>4. ASSUME NEW p \in blocks, NEW q \in blocks \ {p}, ShareSlot(p.of, q.of)
      PROVE  p.columns \cap q.columns = {}
  BY <1>1, <1>3, <1>4 DEF Placed, Clash
<1>5. ASSUME NEW q \in TripParts(S, tab) \ blocks, ShareSlot(q.of, q.of)
      PROVE  \E p \in blocks : /\ ShareSlot(p.of, q.of) /\ q.columns \subseteq p.columns
                               /\ p.of.kind = "trip" => p.of.from <= q.of.from
  <2>1. PICK j \in 1 .. Len(s) : s[j] = q
    BY <1>1, <1>2, <1>5
  <2>2. Cells(q.of) # {}
    BY <1>3, <1>5
  <2>3. PICK k \in 1 .. j - 1 : s[k] \in blocks /\ Clash(s[k], q)
    BY <1>1, <1>5, <2>1, <2>2 DEF Placed
  <2>4. k \in 1 .. Len(s) /\ k < j
    BY <1>1
  <2>5. ShareSlot(s[k].of, q.of) /\ q.columns \subseteq s[k].columns
    <3>1. PICK v \in tab : q.columns = {v}
      BY DEF TripParts
    <3>2. QED BY <1>3, <2>3, <3>1 DEF Clash
  <2>6. s[k].of.from \in Nat /\ q.of.from \in Nat
    <3>1. s[k] \in P /\ P = DayParts(S, tab)
      <4> HIDE DEF P
      <4>1. s[k] \in P
        BY <1>1, <2>4
      <4>2. QED BY <4>1 DEF P
    <3>2. s[k].of \in S
      BY <3>1 DEF DayParts
    <3>3. q.of \in S
      BY <1>5 DEF TripParts, OfKind
    <3>4. QED BY <3>2, <3>3, Sortable
  <2>7. s[k].of.kind = "trip" => ~Earlier(q, s[k])
    BY <1>1, <1>2, <2>1, <2>4 DEF TripsInOrder
  <2>8. s[k].of.kind = "trip" => s[k].of.from <= q.of.from
    BY <2>6, <2>7 DEF Earlier
  <2>9. QED BY <2>3, <2>5, <2>8
<1>6. blocks \subseteq P
  BY <1>1 DEF Placed
<1>7. QED BY <1>4, <1>5, <1>6 DEF Fair, blocks

\* What is loaded and opened is of the schedule, and the day's grid is fair.
DayInv ==
  /\ booked \subseteq Bookings /\ schedule \subseteq Bookings
  /\ day.entries \subseteq Bookings /\ day.columns \subseteq Vehicles
  /\ day.blocks \subseteq DayParts(day.entries, day.columns)
  /\ Fair(day.entries, day.columns, day.blocks)

LEMMA DayInductive == DayInv /\ [CalendarNext]_calendarVars => DayInv'
<1> SUFFICES ASSUME DayInv, [CalendarNext]_calendarVars PROVE DayInv'
  OBVIOUS
<1>1. CASE UNCHANGED <<schedule, day>> /\ booked' \subseteq Bookings
  BY <1>1 DEF DayInv
<1>2. CASE \E k \in Fetches : AnswerFetch(k)
  BY <1>2 DEF AnswerFetch, DayInv
<1>3. CASE OpenDay
  <2>1. PICK d \in GridDays[month], tab \in Tabs :
          day' = [entries |-> {b \in schedule : b.day = d /\ Visible(b)}, columns |-> tab,
                  blocks |-> DayBlocks({b \in schedule : b.day = d /\ Visible(b)}, tab)]
    BY <1>3 DEF OpenDay
  <2> DEFINE entries == {b \in schedule : b.day = d /\ Visible(b)}
  <2>2. entries \subseteq Bookings /\ tab \subseteq Vehicles
    BY CalendarAssumption DEF DayInv
  <2> HIDE DEF entries
  <2>3. /\ DayBlocks(entries, tab) \subseteq DayParts(entries, tab)
        /\ Fair(entries, tab, DayBlocks(entries, tab))
    BY <2>2, DayBlocksFair
  <2>4. /\ day'.entries = entries /\ day'.columns = tab
        /\ day'.blocks = DayBlocks(entries, tab)
    BY <2>1 DEF entries
  <2>5. booked' = booked /\ schedule' = schedule
    BY <1>3 DEF OpenDay
  <2>6. QED BY <2>2, <2>3, <2>4, <2>5 DEF DayInv
<1>4. CASE Rebook
  BY <1>1, <1>4 DEF Rebook, DayInv
<1>5. CASE \/ Exit \/ OpenCalendar \/ Opened \/ Navigate \/ ChangeFilters \/ Export
           \/ (\E w \in {"user", "guest"} : Arrive(w)) \/ UNCHANGED calendarVars
  <2>1. UNCHANGED <<booked, schedule, day>>
    BY <1>5
    DEF Exit, OpenCalendar, Opened, Navigate, ChangeFilters, Export, Arrive, calendarVars
  <2>2. QED BY <1>1, <2>1 DEF DayInv
<1>6. QED BY <1>2, <1>3, <1>4, <1>5 DEF CalendarNext

\* The day grid shows no two bookings in one cell, and leaves a trip out of a column
\* it matches only if no slot has it or the cell is taken by the meeting, the lunch
\* break or a trip that starts no later (schedBuildDayMatrix).
THEOREM DayGridCorrect == CalendarSpec => []DayGridIsFair
<1>1. CalendarInit => DayInv
  BY DEF CalendarInit, DayInv, NoDay, Fair, TripParts, OfKind
<1>2. DayInv => DayGridIsFair
  BY DEF DayInv, DayGridIsFair, Fair
<1>3. QED BY <1>1, <1>2, DayInductive, PTL DEF CalendarSpec

\* What is loaded, drawn and tab are bookings, under a month's title.
CalendarInv ==
  /\ DayInv /\ DOMAIN fetching = Fetches
  /\ CalendarTypeOK

LEMMA CalendarInductive == CalendarInv /\ [CalendarNext]_calendarVars => CalendarInv'
<1> SUFFICES ASSUME CalendarInv, [CalendarNext]_calendarVars PROVE CalendarInv'
  OBVIOUS
<1>1. DayInv'
  BY DayInductive DEF CalendarInv
<1>2. \A entries : Grid(entries).title = month /\ Grid(entries).entries \subseteq entries
  BY DEF Grid
<1>3. \A entries : Grid(entries)'.title = month' /\ Grid(entries)'.entries \subseteq entries
  BY DEF Grid
<1>4. booked' \subseteq Bookings /\ schedule' \subseteq Bookings
      /\ day'.entries \subseteq Bookings /\ day'.columns \subseteq Vehicles
      /\ day'.blocks \subseteq [of : day'.entries, columns : SUBSET day'.columns]
  BY <1>1 DEF DayInv, DayParts
<1>5. /\ DOMAIN fetching = Fetches /\ schedule \subseteq Bookings /\ grid.title \in Months
      /\ grid.entries \subseteq Bookings /\ month \in Months
      /\ \A k \in Fetches : fetching[k].for \in {"nothing", "month", "export"}
  BY DEF CalendarInv, CalendarTypeOK
<1>6. ASSUME NEW what \in {"month", "export"}, NEW days, Fetch(what, days)
      PROVE  /\ DOMAIN fetching' = Fetches
             /\ \A k \in Fetches : fetching'[k].for \in {"nothing", "month", "export"}
  <2>1. PICK k \in Fetches : fetching' = [fetching EXCEPT ![k] = [for |-> what, days |-> days]]
    BY <1>6 DEF Fetch, Unsent
  <2>2. QED BY <1>5, <2>1
<1>7. CASE \/ Rebook \/ Exit \/ OpenCalendar \/ OpenDay \/ (\E w \in {"user", "guest"} : Arrive(w))
           \/ UNCHANGED calendarVars
  <2>1. UNCHANGED <<month, archived, onlyVehicle, grid, fetching>>
    BY <1>7 DEF Rebook, Exit, OpenCalendar, OpenDay, Arrive, calendarVars
  <2>2. who' \in {"nobody", "user", "guest"} /\ opening' \in BOOLEAN
    BY <1>7
    DEF Rebook, Exit, OpenCalendar, OpenDay, Arrive, calendarVars, CalendarInv, CalendarTypeOK
  <2>3. QED BY <1>1, <1>4, <2>1, <2>2 DEF CalendarInv, CalendarTypeOK
<1>8. CASE Opened
  <2>1. UNCHANGED <<who, month, archived, onlyVehicle>> /\ opening' \in BOOLEAN
    BY <1>8 DEF Opened
  <2>2. /\ grid'.title \in Months /\ grid'.entries \subseteq Bookings
        /\ DOMAIN fetching' = Fetches
        /\ \A k \in Fetches : fetching'[k].for \in {"nothing", "month", "export"}
    BY <1>2, <1>5, <1>6, <1>8 DEF Opened
  <2>3. QED BY <1>1, <1>4, <2>1, <2>2 DEF CalendarInv, CalendarTypeOK
<1>9. CASE Navigate \/ Export
  <2>1. UNCHANGED <<who, opening, archived, onlyVehicle, grid>> /\ month' \in Months
    BY <1>5, <1>9 DEF Navigate, Export
  <2>2. /\ DOMAIN fetching' = Fetches
        /\ \A k \in Fetches : fetching'[k].for \in {"nothing", "month", "export"}
    BY <1>6, <1>9 DEF Navigate, Export
  <2>3. QED BY <1>1, <1>4, <2>1, <2>2 DEF CalendarInv, CalendarTypeOK
<1>10. CASE ChangeFilters
  <2>1. UNCHANGED <<who, opening, month, fetching>> /\ onlyVehicle' \in Vehicles \cup {Anything}
          /\ archived' \in BOOLEAN
    BY <1>10 DEF ChangeFilters, CalendarInv, CalendarTypeOK
  <2>2. grid'.title \in Months /\ grid'.entries \subseteq Bookings
    BY <1>3, <1>4, <1>5, <1>10 DEF ChangeFilters
  <2>3. QED BY <1>1, <1>4, <1>5, <2>1, <2>2 DEF CalendarInv, CalendarTypeOK
<1>11. ASSUME NEW k \in Fetches, AnswerFetch(k) PROVE CalendarInv'
  <2>1. UNCHANGED <<who, opening, month, archived, onlyVehicle>>
    BY <1>11 DEF AnswerFetch
  <2>2. /\ DOMAIN fetching' = Fetches
        /\ \A j \in Fetches : fetching'[j].for \in {"nothing", "month", "export"}
    BY <1>5, <1>11 DEF AnswerFetch, NoFetch
  <2>3. grid'.title \in Months /\ grid'.entries \subseteq Bookings
    BY <1>2, <1>4, <1>5, <1>11 DEF AnswerFetch
  <2>4. QED BY <1>1, <1>4, <2>1, <2>2, <2>3 DEF CalendarInv, CalendarTypeOK
<1>12. QED BY <1>7, <1>8, <1>9, <1>10, <1>11 DEF CalendarNext

\* Type correctness of the calendar.
THEOREM CalendarTyped == CalendarSpec => []CalendarTypeOK
<1>1. CalendarInit => CalendarInv
  <2> SUFFICES ASSUME CalendarInit PROVE CalendarInv
    OBVIOUS
  <2>1. DayInv
    BY DEF CalendarInit, DayInv, NoDay, Fair, TripParts, OfKind
  <2>2. /\ DOMAIN fetching = Fetches
        /\ \A k \in Fetches : fetching[k].for \in {"nothing", "month", "export"}
    BY DEF CalendarInit, NoFetch
  <2>3. {opening, archived} \subseteq BOOLEAN /\ who \in {"nobody", "user", "guest"}
    BY DEF CalendarInit
  <2>4. grid.title \in Months /\ grid.entries \subseteq Bookings /\ schedule \subseteq Bookings
          /\ month \in Months /\ onlyVehicle \in Vehicles \cup {Anything}
    BY DEF CalendarInit
  <2>5. /\ booked \subseteq Bookings
        /\ day.entries \subseteq Bookings /\ day.columns \subseteq Vehicles
        /\ day.blocks \subseteq [of : day.entries, columns : SUBSET day.columns]
    BY <2>1 DEF DayInv, DayParts
  <2>6. QED BY <2>1, <2>2, <2>3, <2>4, <2>5 DEF CalendarInv, CalendarTypeOK
<1>2. QED BY <1>1, CalendarInductive, PTL DEF CalendarSpec, CalendarInv
=============================================================================
