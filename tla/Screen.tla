--------------------------------- MODULE Screen ---------------------------------
(***************************************************************************)
(* The one screen of the bot: a Telegram message that handlers, a search   *)
(* and the digest edit concurrently, the session that says what it shows,  *)
(* and the row of `bot_ui_sessions` the session is restored from.          *)
(*                                                                         *)
(* Modelled from app/bot/ui.py, app/bot/views.py, app/services/digest.py   *)
(* and the handlers of app/bot/callbacks.py, app/bot/handlers.py and       *)
(* app/bot/hh_applications.py, whose steps are cut where they await.  One  *)
(* chat; the screens of one kind stand for each other ("stats" for stats,  *)
(* profile, help and hh; "vacancy" for the pages that hide a vacancy, set  *)
(* its status or register an application), and so do the buttons.  The     *)
(* pages of a draft are those of CoverLetter.                              *)
(***************************************************************************)
EXTENDS Naturals, Sequences

CONSTANTS
  Handlers,       \* tasks the dispatcher runs at once
  Job,            \* the digest of scheduled_search, or the OAuth callback
  Listing,        \* the recommended vacancies, in order
  Situations,     \* what can happen: see below
  MaxGeneration,  \* bound: operations and cancellations of one session
  MaxMessages,    \* bound: messages the bot sends
  None

Vacancies == {Listing[i] : i \in DOMAIN Listing}
Tasks == Handlers \cup {Job}
Messages == 1..MaxMessages

ASSUME ScreenAssumption ==
  /\ Job \notin Handlers
  /\ None \notin Tasks \cup Vacancies
  /\ MaxGeneration \in Nat /\ MaxMessages \in Nat

VARIABLES
  shown,     \* what each message of the bot shows
  session,   \* UISession
  hydrated,  \* _hydrated
  db,        \* the row of bot_ui_sessions
  queue,     \* the chat's lock: its holder, then those who wait
  searching, \* search_lock
  sent,      \* vacancies with is_sent
  rendered,  \* vacancies whose card the user was ever shown
  before,    \* which of two running tasks started first
  ends,      \* how often the session was dropped, by a restart or by closing it
  locks,     \* locks that tasks still waited for when the chat got another
  astray,    \* what went astray: the session's position or screen is not what
             \* was drawn, or the chat got a second message
  situation, \* what the user does (actions), whether Telegram can refuse and the
             \* session's row not be read or written (failing), and how often
             \* the session is dropped (ends)
  task

vars == <<shown, session, hydrated, db, queue, searching, sent, rendered, before, ends, locks,
          astray, situation, task>>

\* What most steps leave alone.
past == <<before, ends, locks, astray, situation>>

Screens == {"menu", "navigation", "stats", "search", "search_result", "collection",
            "collection_empty", "application_loading", "application", "confirmation",
            "application_result", "hh", "vacancy", "registered", "hh_connected"}

Contents == [screen : Screens, vac : Vacancies \cup {None}]
Page(screen) == [screen |-> screen, vac |-> None]
PageOf(screen, v) == [screen |-> screen, vac |-> v]
Card(v) == PageOf("collection", v)

Unsent == Page("unsent")
Gone == Page("gone")
Active(m) == shown[m] \notin {Unsent, Gone}

Blank == [message |-> 0, screen |-> "menu", cards |-> <<>>, index |-> 1, pending |-> None,
          navigated |-> FALSE, generation |-> 0]

Steps == {"idle", "hydrating", "answered", "card", "queued", "edited", "working",
          "wanting", "searching", "listing", "marking", "closing", "deleting", "dropping"}

\* superseded: a task that started later, and then cancelled what was running,
\* has drawn its screen.  lock: the chat's lock it waits for; orphan: the
\* session it holds was dropped; row: what it is persisting.
Idle == [at |-> "idle", action |-> "none", message |-> 0, target |-> 0,
         draw |-> Page("menu"), then |-> "end", answer |-> FALSE, generation |-> 0,
         vac |-> None, list |-> <<>>, superseded |-> FALSE,
         lock |-> 0, orphan |-> FALSE, row |-> None]

Become(p, state) == task' = [task EXCEPT ![p] = state]

\* The sequence without its element e.
Without(s, e) ==
  LET at == CHOOSE i \in DOMAIN s : s[i] = e
  IN [i \in 1..(Len(s) - 1) |-> IF i < at THEN s[i] ELSE s[i + 1]]

-----------------------------------------------------------------------------
(* The session *)

\* set_collection.
Collected(s, cards) ==
  [s EXCEPT !.cards = cards, !.index = 1, !.navigated = TRUE, !.screen = "collection"]

\* focus_vacancy.
Focused(s, v) ==
  IF \E i \in DOMAIN s.cards : s.cards[i] = v
  THEN [s EXCEPT !.index = CHOOSE i \in DOMAIN s.cards : s.cards[i] = v, !.navigated = TRUE]
  ELSE Collected(s, <<v>>)

\* move.
Moved(s) ==
  [s EXCEPT !.index = IF s.cards = <<>> THEN 1 ELSE 1 + (@ % Len(s.cards)),
            !.navigated = TRUE, !.screen = "collection"]

\* remove_from_collection keeps the position, on the nearest card.
Removed(s, v) ==
  LET others == Without(s.cards, v)
      at == CHOOSE i \in DOMAIN s.cards : s.cards[i] = v
  IN IF \A i \in DOMAIN s.cards : s.cards[i] # v THEN [s EXCEPT !.navigated = TRUE]
     ELSE [s EXCEPT !.cards = others, !.navigated = TRUE,
                    !.index = IF others = <<>> THEN 1
                              ELSE IF at > Len(others) THEN Len(others) ELSE at]

\* start_operation and cancel_operation.
Bumped(s) == [s EXCEPT !.generation = @ + 1]

\* A callback's own message becomes the session's.
Opened(s, message, screen) ==
  [s EXCEPT !.screen = screen, !.message = IF message = 0 THEN @ ELSE message]

Snapshot(s) == [message |-> s.message, screen |-> s.screen, cards |-> s.cards,
                index |-> s.index, pending |-> s.pending]

\* _hydrate.
Hydrated(s) ==
  IF db = None THEN s
  ELSE [[s EXCEPT !.message = db.message, !.pending = db.pending,
                  !.screen = IF @ = "menu" THEN db.screen ELSE @]
        EXCEPT !.cards = IF s.navigated THEN @ ELSE db.cards,
               !.index = IF s.navigated THEN @ ELSE db.index,
               !.navigated = TRUE]

\* restore in the middle of a handler: the session is read again only after it
\* was closed, and in one step, since its row is gone by then.
Current == IF hydrated THEN session ELSE Hydrated(session)

\* restore_collection.
Restored(s, v) == IF s.cards = <<>> THEN Focused(Collected(s, Listing), v) ELSE s

Fresh == SelectSeq(Listing, LAMBDA v : v \notin sent)

-----------------------------------------------------------------------------
(* Drawing: render, render_chat and _edit_or_replace *)

\* p, in state t, leaves the session s and waits for the chat's lock, to edit
\* the message of its callback or, without one, the message of the session.
RenderOn(p, t, message, s, content, then) ==
  /\ session' = Opened(s, message, content.screen)
  /\ hydrated' = TRUE
  /\ queue' = Append(queue, p)
  /\ Become(p, [t EXCEPT !.at = "queued", !.target = message, !.draw = content,
                         !.then = then, !.lock = locks])

Render(p, t, s, content, then) == RenderOn(p, t, t.message, s, content, then)

\* show_current_collection reads the current card.
ShowCurrent(p, s) ==
  IF s.cards = <<>>
  THEN Render(p, task[p], s, Page("collection_empty"), "end")
  ELSE /\ session' = s
       /\ hydrated' = TRUE
       /\ Become(p, [task[p] EXCEPT !.at = "card", !.vac = s.cards[s.index]])
       /\ UNCHANGED queue

RenderCard(p) ==
  /\ task[p].at = "card"
  /\ Render(p, task[p], Current, Card(task[p].vac), "mark")
  /\ UNCHANGED <<shown, db, searching, sent, rendered, past>>

\* Fault: a card counts as rendered whatever Telegram answered.
AlwaysRendered(answer) == TRUE

WasRendered(answer) == answer

\* What the task goes on with once its render returned.
Continue(p, t) ==
  CASE t.then = "start" ->
         /\ session' = Bumped(session)
         /\ Become(p, [t EXCEPT !.at = "working", !.generation = session.generation + 1])
    [] t.then \in {"working", "wanting", "searching"} ->
         /\ UNCHANGED session
         /\ Become(p, [t EXCEPT !.at = t.then])
    [] t.then = "mark" /\ WasRendered(t.answer) ->
         /\ UNCHANGED session
         /\ Become(p, [t EXCEPT !.at = "marking"])
    [] OTHER ->
         /\ UNCHANGED session
         /\ Become(p, Idle)

\* The message this render edits.
Target(p) == IF task[p].target # 0 THEN task[p].target ELSE Current.message

\* Every handler but prepare moves the generation when it starts, and so does
\* the digest; the OAuth callback does not.
Cancels(action) == action \notin {"prepare", "connected"}

Before(q, p) == <<q, p>> \in before

\* A session that was dropped while Telegram was asked is assigned to in vain,
\* and the one that took its place has no message to persist.
Drawn(p, m, answer) ==
  LET s == IF task[p].orphan THEN session ELSE [Current EXCEPT !.message = m]
  IN /\ shown' = [shown EXCEPT ![m] = task[p].draw]
     /\ session' = s
     /\ hydrated' = (hydrated \/ ~task[p].orphan)
     /\ rendered' = IF task[p].draw.screen = "collection"
                    THEN rendered \cup {task[p].draw.vac} ELSE rendered
     /\ task' = [q \in Tasks |->
          IF q = p THEN [task[p] EXCEPT !.at = "edited", !.answer = answer,
                                        !.row = IF s.message = 0 THEN None ELSE Snapshot(s)]
          ELSE IF task[q].at # "idle" /\ Cancels(task[p].action) /\ Before(q, p)
          THEN [task[q] EXCEPT !.superseded = TRUE]
          ELSE task[q]]

Missing(m) == IF m = 0 THEN TRUE ELSE shown[m] = Gone

\* First of those who wait for the same lock.
HoldsLock(p) ==
  /\ task[p].at = "queued"
  /\ \E i \in DOMAIN queue :
       /\ queue[i] = p
       /\ \A j \in 1..(i - 1) : task[queue[j]].lock # task[p].lock

Leave(p) == queue' = Without(queue, p)

\* edit_message_text; without a message of its own, render_chat gets None for
\* an edit that changes nothing.
Edit(p) ==
  LET m == Target(p)
  IN /\ HoldsLock(p)
     /\ ~Missing(m)
     /\ Drawn(p, m, ~(shown[m] = task[p].draw /\ task[p].target = 0))
     /\ UNCHANGED <<db, queue, searching, sent, past>>

\* There is nothing to edit: send_message.
Send(p) ==
  /\ HoldsLock(p)
  /\ Missing(Target(p))
  /\ \E m \in Messages :
       /\ shown[m] = Unsent /\ \A n \in 1..(m - 1) : shown[n] # Unsent
       /\ Drawn(p, m, TRUE)
  /\ astray' = IF \E m \in Messages : Active(m) THEN astray \cup {"messages"} ELSE astray
  /\ UNCHANGED <<db, queue, searching, sent, before, ends, locks, situation>>

\* Fault: save updates the screen of an existing row and not its collection.
PersistedScreen(p) ==
  IF db = None THEN task[p].row
  ELSE [db EXCEPT !.screen = task[p].row.screen, !.message = task[p].row.message]

Persisted(p) == task[p].row

\* _persist, still under the lock; then the task runs on.
Persist(p) ==
  /\ task[p].at = "edited"
  /\ \/ db' = IF task[p].row = None THEN db ELSE Persisted(p)
     \/ situation.failing /\ UNCHANGED db
  /\ Leave(p)
  /\ Continue(p, [task[p] EXCEPT !.row = None, !.orphan = FALSE])
  /\ UNCHANGED <<shown, hydrated, searching, sent, rendered, past>>

\* Telegram refuses or cannot be reached: nothing is drawn, nothing persisted.
DrawFails(p) ==
  /\ situation.failing
  /\ HoldsLock(p)
  /\ Leave(p)
  /\ Continue(p, [task[p] EXCEPT !.answer = FALSE, !.orphan = FALSE])
  /\ UNCHANGED <<shown, hydrated, db, searching, sent, rendered, past>>

\* mark_sent.
MarkSent(p) ==
  /\ task[p].at = "marking"
  /\ sent' = sent \cup {task[p].vac}
  /\ Become(p, Idle)
  /\ UNCHANGED <<shown, session, hydrated, db, queue, searching, rendered, past>>

-----------------------------------------------------------------------------
(* What the user does *)

\* The buttons under a content.
Offers(content) ==
  CASE content.screen = "menu" -> {"stats", "collection", "search", "close"}
    [] content.screen = "collection" -> {"next", "prepare", "menu", "vacancy"}
    [] content.screen = "vacancy" -> {"undo", "continue", "register", "back"}
    [] content.screen = "registered" -> {"undo", "menu"}
    [] content.screen = "hh_connected" ->
         {"menu"} \cup (IF content.vac = None THEN {} ELSE {"prepare", "pending_clear"})
    [] content.screen = "application" -> {"submit", "back"}
    [] content.screen \in {"application_loading", "application_result"} -> {"back"}
    [] content.screen \in {"stats", "search", "search_result", "collection_empty", "hh"} ->
         {"back"}
    [] OTHER -> {}

\* Screens whose Back leads to the collection.
ApplicationScreens == {"application_loading", "application", "confirmation",
                       "application_result", "vacancy", "registered"}

\* The digest waits until the user is back at the menu.
DigestMayDraw(s) == s.screen = "menu"

Cancelled(s) == Bumped(s)

\* The first region of a handler in state t, with the session s it restored.
Act(p, t, s) ==
  CASE t.action = "command" ->
         /\ session' = [Cancelled(s) EXCEPT !.screen = "navigation"]
         /\ Become(p, [t EXCEPT !.at = "answered"])
         /\ UNCHANGED <<hydrated, queue>>
    [] t.action = "prepare" ->
         Render(p, t, Focused(s, t.vac), Page("application_loading"), "start")
    [] t.action = "submit" ->
         Render(p, t, s, Page("confirmation"), "working")
    [] t.action = "digest" ->
         IF DigestMayDraw(s)
         THEN Render(p, t, Collected(Cancelled(s), t.list), Card(t.vac), "mark")
         ELSE session' = s /\ Become(p, Idle) /\ UNCHANGED <<hydrated, queue>>
    [] t.action = "connected" ->
         RenderOn(p, t, 0, s, PageOf("hh_connected", s.pending), "end")
    [] OTHER ->
         /\ session' = Cancelled(s)
         /\ Become(p, [t EXCEPT !.at = IF t.action = "close" THEN "closing" ELSE "answered"])
         /\ UNCHANGED <<hydrated, queue>>

\* A handler starts.  submit starts its operation first; then _hydrate marks the
\* chat before it reads the row.
Begin(p, action, m, v, list) ==
  LET s == IF action = "submit" THEN Bumped(session) ELSE session
      t == [Idle EXCEPT !.action = action, !.message = m, !.vac = v, !.list = list,
                        !.generation = s.generation]
  IN /\ task[p].at = "idle"
     /\ action \in situation.actions
     /\ session.generation < MaxGeneration
     /\ IF hydrated THEN Act(p, t, s)
        ELSE /\ Become(p, [t EXCEPT !.at = "hydrating"])
             /\ session' = s
             /\ hydrated' = TRUE
             /\ UNCHANGED queue
     /\ LET running == {q \in Tasks : task[q].at # "idle"}
        IN before' = (before \cap (running \X running)) \cup (running \X {p})
     /\ UNCHANGED <<shown, db, searching, sent, rendered, ends, locks, astray, situation>>

\* What goes astray when the row is read into a session that others used, or
\* draw from, meanwhile: its screen, until this task draws its own, and the rest
\* with it if it draws none.
Astray(p) ==
  IF [session EXCEPT !.generation = 0] = Blank /\ queue = <<>> THEN {}
  ELSE {"screen"} \cup
       IF task[p].action = "digest" /\ ~DigestMayDraw(Hydrated(session))
       THEN {"position"} ELSE {}

Hydrate(p) ==
  /\ task[p].at = "hydrating"
  /\ \/ /\ Act(p, task[p], Hydrated(session))
        /\ astray' = astray \cup Astray(p)
     \/ /\ situation.failing
        /\ Act(p, task[p], session)
        /\ UNCHANGED astray
  /\ UNCHANGED <<shown, db, searching, sent, rendered, before, ends, locks, situation>>

Tap(p, m) ==
  /\ Active(m)
  /\ \E action \in Offers(shown[m]) : Begin(p, action, m, shown[m].vac, <<>>)

\* /start and the other commands.
Command(p) == Begin(p, "command", 0, None, <<>>)

\* The digest after a scheduled search.
Digest == Fresh # <<>> /\ Begin(Job, "digest", 0, Head(Fresh), Fresh)

\* complete_authorization succeeded: the callback of the web server draws.
Connected == Begin(Job, "connected", 0, None, <<>>)

-----------------------------------------------------------------------------
(* What a handler draws after its awaits *)

Reply(p) ==
  LET t == task[p]
  IN /\ t.at = "answered"
     /\ CASE t.action = "stats" -> Render(p, t, Current, Page("stats"), "end")
         [] t.action = "next" -> ShowCurrent(p, Moved(Restored(Current, t.vac)))
         [] t.action = "collection" -> ShowCurrent(p, Collected(Current, Fresh))
         [] t.action = "undo" -> ShowCurrent(p, Current)
         [] t.action = "continue" -> ShowCurrent(p, Removed(Current, t.vac))
         [] t.action = "vacancy" ->
              Render(p, t, Restored(Current, t.vac), PageOf("vacancy", t.vac), "end")
         [] t.action = "register" ->
              Render(p, t, Removed(Restored(Current, t.vac), t.vac), Page("registered"), "end")
         [] t.action = "back" /\ session.screen \in ApplicationScreens /\ session.cards # <<>> ->
              ShowCurrent(p, Current)
         [] t.action = "search" ->
              Render(p, t, Current, Page("search"), IF searching = None THEN "wanting" ELSE "end")
         [] t.action = "pending_clear" ->
              Render(p, t, [Current EXCEPT !.pending = None], Page("menu"), "end")
         [] OTHER -> Render(p, t, Current, Page("menu"), "end")
     /\ UNCHANGED <<shown, db, searching, sent, rendered, past>>

\* Fault: the generation is not compared.
AlwaysCurrent(p) == TRUE

\* operation_is_current.
OperationIsCurrent(p) == session.generation = task[p].generation

\* prepare_application returned: a preview, no account, or an error.
Prepared(p) ==
  /\ task[p].at = "working" /\ task[p].action = "prepare"
  /\ \/ /\ ~OperationIsCurrent(p)
        /\ Become(p, Idle)
        /\ UNCHANGED <<session, hydrated, queue>>
     \/ /\ OperationIsCurrent(p)
        /\ \/ Render(p, task[p], [Current EXCEPT !.pending = None], Page("application"), "end")
           \/ Render(p, task[p], [Current EXCEPT !.pending = task[p].vac], Page("hh"), "end")
           \/ Render(p, task[p], Current, Page("application_result"), "end")
  /\ UNCHANGED <<shown, db, searching, sent, rendered, past>>

\* submit_application returned: submitted, the account is gone, or anything
\* else; what it says of the vacancy is kept even if it is not drawn.
Submitted(p) ==
  /\ task[p].at = "working" /\ task[p].action = "submit"
  /\ \E v \in Vacancies :
       \E s \in {Removed(session, v), [session EXCEPT !.pending = v], session} :
         \/ /\ ~OperationIsCurrent(p)
            /\ session' = s
            /\ astray' = IF s.cards = session.cards /\ s.index = session.index THEN astray
                         ELSE astray \cup {"position"}
            /\ Become(p, Idle)
            /\ UNCHANGED <<hydrated, queue>>
         \/ /\ OperationIsCurrent(p)
            /\ Render(p, task[p], s, Page("application_result"), "end")
            /\ UNCHANGED astray
  /\ UNCHANGED <<shown, db, searching, sent, rendered, before, ends, locks, situation>>

-----------------------------------------------------------------------------
(* A search from the menu *)

EnterSearch(p) ==
  /\ task[p].at = "wanting"
  /\ searching = None
  /\ searching' = p
  /\ Become(p, [task[p] EXCEPT !.at = "searching"])
  /\ UNCHANGED <<shown, session, hydrated, db, queue, sent, rendered, past>>

\* Fault: progress is drawn whatever is on the screen.
AnyScreen == TRUE

\* progress and the end of the search look at the screen.
StillOnSearch == session.screen = "search"

\* progress uses render_chat: it edits the session's message.
Progress(p) ==
  /\ task[p].at = "searching"
  /\ StillOnSearch
  /\ RenderOn(p, task[p], 0, Current, Page("search"), "searching")
  /\ UNCHANGED <<shown, db, searching, sent, rendered, past>>

SearchDone(p) ==
  /\ task[p].at = "searching"
  /\ searching' = None
  /\ Become(p, IF StillOnSearch THEN [task[p] EXCEPT !.at = "listing"] ELSE Idle)
  /\ UNCHANGED <<shown, session, hydrated, db, queue, sent, rendered, past>>

\* list_digest_candidates, unsent first, else all; or nothing suits.
Listed(p) ==
  LET list == IF Fresh = <<>> THEN Listing ELSE Fresh
  IN /\ task[p].at = "listing"
     /\ \/ ShowCurrent(p, Collected(Current, list))
        \/ Render(p, task[p], Current, Page("search_result"), "end")
     /\ UNCHANGED <<shown, db, searching, sent, rendered, past>>

\* The search raises, as when the database fails: the error page looks at no
\* screen.
SearchFails(p) ==
  /\ task[p].at \in {"searching", "listing"}
  /\ searching' = IF searching = p THEN None ELSE searching
  /\ Render(p, task[p], Current, Page("search_result"), "end")
  /\ UNCHANGED <<shown, db, sent, rendered, past>>

-----------------------------------------------------------------------------
(* Closing the interface, the user's chat, and restarts *)

\* close: the message is deleted, if Telegram lets it ...
CloseMessage(p) ==
  /\ task[p].at = "closing"
  /\ \/ shown' = [shown EXCEPT ![task[p].message] = Gone]
     \/ situation.failing /\ UNCHANGED shown
  /\ Become(p, [task[p] EXCEPT !.at = "deleting"])
  /\ UNCHANGED <<session, hydrated, db, queue, searching, sent, rendered, past>>

\* ... then the row, if the database does ...
CloseRow(p) ==
  /\ task[p].at = "deleting"
  /\ db' = None \/ (situation.failing /\ UNCHANGED db)
  /\ Become(p, [task[p] EXCEPT !.at = "dropping"])
  /\ UNCHANGED <<shown, session, hydrated, queue, searching, sent, rendered, past>>

\* ... and the session and the locks are dropped.  A task that holds a lock has
\* looked the session up, or is about to.
CloseSession(p) ==
  /\ task[p].at = "dropping"
  /\ ends < situation.ends
  /\ ends' = ends + 1
  /\ locks' = IF queue = <<>> THEN locks ELSE locks + 1
  /\ session' = Blank
  /\ hydrated' = FALSE
  /\ \E orphans \in SUBSET {q \in Tasks : HoldsLock(q)} :
       task' = [q \in Tasks |-> IF q = p THEN Idle
                                ELSE [task[q] EXCEPT !.orphan = @ \/ q \in orphans]]
  /\ astray' = astray \ {"position"}
  /\ UNCHANGED <<shown, db, queue, searching, sent, rendered, before, situation>>

DeleteMessage(m) ==
  /\ "delete" \in situation.actions
  /\ Active(m)
  /\ shown' = [shown EXCEPT ![m] = Gone]
  /\ UNCHANGED <<session, hydrated, db, queue, searching, sent, rendered, past, task>>

Restart ==
  /\ "restart" \in situation.actions
  /\ ends < situation.ends
  /\ ends' = ends + 1
  /\ locks' = 0
  /\ session' = Blank
  /\ hydrated' = FALSE
  /\ queue' = <<>>
  /\ searching' = None
  /\ task' = [p \in Tasks |-> Idle]
  /\ before' = {}
  /\ astray' = astray \cap {"messages"}
  /\ UNCHANGED <<shown, db, sent, rendered, situation>>

Init ==
  /\ shown = [m \in Messages |-> Unsent]
  /\ session = Blank
  /\ hydrated = FALSE
  /\ db = None
  /\ queue = <<>>
  /\ searching = None
  /\ sent = {} /\ rendered = {}
  /\ before = {}
  /\ ends = 0 /\ locks = 0 /\ astray = {}
  /\ situation \in Situations
  /\ task = [p \in Tasks |-> Idle]

Draw(p) == Edit(p) \/ Send(p) \/ Persist(p) \/ DrawFails(p)

Handle(p) ==
  \/ Hydrate(p) \/ Reply(p) \/ RenderCard(p) \/ Draw(p) \/ MarkSent(p)
  \/ Prepared(p) \/ Submitted(p)
  \/ EnterSearch(p) \/ Progress(p) \/ SearchDone(p) \/ Listed(p) \/ SearchFails(p)
  \/ CloseMessage(p) \/ CloseRow(p) \/ CloseSession(p)

Next ==
  \/ \E p \in Handlers : Command(p) \/ \E m \in Messages : Tap(p, m)
  \/ Digest \/ Connected
  \/ \E p \in Tasks : Handle(p)
  \/ \E m \in Messages : DeleteMessage(m)
  \/ Restart

Spec == Init /\ [][Next]_vars

-----------------------------------------------------------------------------
(* Properties *)

Pages == Contents \cup {Unsent, Gone}
Cards == {SubSeq(Listing, i, j) : i, j \in 1..Len(Listing)} \cup {<<>>}
         \cup {Without(Listing, v) : v \in Vacancies}

TypeOK ==
  /\ shown \in [Messages -> Pages]
  /\ session \in [message : 0..MaxMessages, screen : Screens, cards : Cards,
                  index : 1..Len(Listing), pending : Vacancies \cup {None},
                  navigated : BOOLEAN, generation : Nat]
  /\ session.cards # <<>> => session.index \in DOMAIN session.cards
  /\ hydrated \in BOOLEAN
  /\ situation \in Situations /\ ends \in 0..situation.ends /\ locks \in 0..ends
  /\ queue \in Seq(Tasks) /\ before \subseteq Tasks \X Tasks
  /\ searching \in Handlers \cup {None}
  /\ sent \subseteq Vacancies /\ rendered \subseteq Vacancies
  /\ astray \subseteq {"position", "screen", "messages"}
  /\ \A p \in Tasks : task[p].at \in Steps /\ task[p].draw \in Contents

\* Only a card the user was really shown is marked as sent, whatever Telegram
\* refuses and wherever the process dies (ARCHITECTURE.md:74).
OnlyRenderedIsSent == sent \subseteq rendered

\* The message shows this screen, if it is there.
Shows(m, screen) == Missing(m) \/ shown[m] = Page(screen)

LongOperations == {"prepare", "submit"}

\* The last page of a long operation, drawn although a handler that cancelled
\* it has drawn its own.
RedrawsLate(p) ==
  task[p].at = "edited" /\ task[p].then = "end" /\ task[p].superseded

\* The result of a submission never replaces what a handler that cancelled it
\* has drawn (operation_is_current and the order of the chat's lock), while the
\* session was not dropped: closing it forgets the generation and the lock.
SubmissionNeverRedraws ==
  ends = 0 => \A p \in Tasks : task[p].action = "submit" => ~RedrawsLate(p)

\* Telegram and the database answer, and one lock serializes the drawing.
Orderly == ~situation.failing /\ locks = 0

\* The progress of a search never replaces another screen, while the chat never
\* had two messages of the bot (README.md:29 wants one), nothing failed, the
\* interface was not closed while a page was being drawn, and the row was not
\* read over a session in use.
ProgressNeverHidesAScreen ==
  [][Orderly /\ astray \cap {"screen", "messages"} = {} =>
       \A p \in Handlers :
         HoldsLock(p) /\ task[p].then = "searching" /\ task'[p].at = "edited"
           => Shows(session.message, "search")]_vars

Quiet == \A p \in Tasks : task[p].at \in {"idle", "working", "searching"}

\* When nobody is drawing, a restart would restore the screen, the collection
\* and the position as they are (ARCHITECTURE.md:76), unless Telegram or the
\* database refuse, the interface was closed while a page was being drawn, or a
\* submission that was overtaken or a digest that was put off changed the
\* session and drew nothing.
PositionIsKept ==
  Orderly /\ "position" \notin astray /\ Quiet /\ hydrated /\ session.message # 0 =>
    /\ db # None
    /\ [db EXCEPT !.pending = None] = [Snapshot(session) EXCEPT !.pending = None]

(* What the documents say and the code does not always do *)

\* README.md:29: the chat has one active message.
OneActiveMessage == \A m, n \in Messages : Active(m) /\ Active(n) => m = n

\* ARCHITECTURE.md:76: the pending OAuth intent survives a restart.
IntentIsKept ==
  Quiet /\ hydrated /\ db # None => db.pending = session.pending

\* ARCHITECTURE.md:75: a long AI operation has a generation token and cannot
\* redraw the screen after Back or a new action.
OperationNeverRedraws ==
  \A p \in Tasks : task[p].action \in LongOperations => ~RedrawsLate(p)

\* tests/test_hh_handlers.py:580: the completion of a search cannot overwrite a
\* screen opened with Back.
SearchNeverRedraws ==
  [][\A p \in Handlers :
       task[p].action = "search" /\ task[p].then = "mark"
         /\ HoldsLock(p) /\ task'[p].at = "edited"
           => Shows(Target(p), "search")]_vars

=============================================================================
