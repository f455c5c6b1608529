------------------------------ MODULE ScreenProofs ------------------------------
(* Safety of the one screen of the bot, for any number of handlers, cards,     *)
(* messages and situations.                                                    *)
EXTENDS Screen, TLAPS

-----------------------------------------------------------------------------
(* Shapes *)

TaskFields == {"at", "action", "message", "target", "draw", "then", "answer", "generation",
               "vac", "list", "superseded", "lock", "orphan", "row"}

SessionFields == {"message", "screen", "cards", "index", "pending", "navigated", "generation"}

IsTask(t) == DOMAIN t = TaskFields /\ t.generation \in Nat
IsSession(s) == DOMAIN s = SessionFields /\ s.generation \in Nat
IsRow(r) ==
  r = [message |-> r.message, screen |-> r.screen, cards |-> r.cards, index |-> r.index,
       pending |-> r.pending]

Waiting == {"queued", "edited"}
InQueue(p) == \E i \in DOMAIN queue : queue[i] = p
Ahead(q, p) == \E i, j \in DOMAIN queue : i < j /\ queue[i] = q /\ queue[j] = p

Shape ==
  /\ DOMAIN task = Tasks /\ \A p \in Tasks : IsTask(task[p])
  /\ IsSession(session)
  /\ db # None => IsRow(db)
  /\ \A p \in Tasks : task[p].row # None => IsRow(task[p].row)
  /\ ends \in Nat /\ locks \in Nat

\* A task is in the queue from its render to its end, once.
Queue ==
  /\ queue \in Seq(Tasks)
  /\ \A i, j \in DOMAIN queue : queue[i] = queue[j] => i = j
  /\ \A p \in Tasks : InQueue(p) <=> task[p].at \in Waiting

\* While the chat has one lock, whoever draws is the first of the queue.
Lock ==
  /\ ends = 0 => locks = 0
  /\ locks = 0 => \A p \in Tasks :
       /\ task[p].lock = 0 /\ task[p].orphan = FALSE
       /\ task[p].at = "edited" => queue[1] = p

\* What a task is about to mark was drawn.
Marking ==
  /\ sent \subseteq rendered
  /\ \A p \in Tasks :
       /\ task[p].at = "queued" /\ task[p].then = "mark" => task[p].draw = Card(task[p].vac)
       /\ task[p].at = "edited" /\ task[p].then = "mark" => task[p].vac \in rendered
       /\ task[p].at = "marking" => task[p].vac \in rendered

\* A handler that cancels has moved the generation, once it is past _hydrate.
Counted(p) == task[p].at # "idle" /\ (task[p].at = "hydrating" => task[p].action = "submit")
Submits(p) == task[p].at # "idle" /\ task[p].action = "submit"
Ending(p) == task[p].at \in Waiting /\ task[p].then = "end"
Overtakes(p, q) == Before(q, p) /\ Cancels(task[p].action) /\ Counted(p)

Path ==
  \A p \in Tasks :
    /\ task[p].at \in Waiting /\ task[p].then = "start" => task[p].action = "prepare"
    /\ Submits(p) =>
         /\ task[p].at \in {"hydrating", "queued", "edited", "working"}
         /\ task[p].at \in Waiting => task[p].then \in {"working", "end"}

Generations ==
  ends = 0 => \A q \in Tasks :
    /\ task[q].generation <= session.generation
    /\ Submits(q) =>
         /\ task[q].superseded =>
              session.generation > task[q].generation /\ ~Ending(q)
         /\ \A p \in Tasks : Overtakes(p, q) =>
              /\ session.generation > task[q].generation
              /\ Ending(q) /\ task[p].at \in Waiting => Ahead(q, p)

\* Who is going to draw, or to drop the session.
Owing(p) ==
  task[p].at \in {"hydrating", "answered", "card", "queued", "closing", "deleting", "dropping"}

\* None is not one of the rows.
NoneIsNoRow == \A s : Snapshot(s) # None

Match(r, s) ==
  r # None /\ [r EXCEPT !.pending = None] = [Snapshot(s) EXCEPT !.pending = None]

Kept ==
  NoneIsNoRow /\ Orderly /\ "position" \notin astray /\ hydrated /\ session.message # 0
    /\ (\A p \in Tasks : ~Owing(p)) =>
    /\ \A p \in Tasks : task[p].at = "edited" => Match(task[p].row, session)
    /\ (\A p \in Tasks : task[p].at # "edited") => Match(db, session)

-----------------------------------------------------------------------------
(* What the operators of the session leave alone *)

Keeps(s, n) == IsSession(n) /\ n.generation = s.generation

\* Every change of the collection, and every page, keeps the generation.
LEMMA SessionKeeps ==
  ASSUME NEW s, IsSession(s)
  PROVE  /\ \A cards : Keeps(s, Collected(s, cards))
         /\ \A v : Keeps(s, Focused(s, v))
         /\ Keeps(s, Moved(s))
         /\ \A v : Keeps(s, Removed(s, v))
         /\ \A v : Keeps(s, [s EXCEPT !.pending = v])
         /\ \A v : Keeps(s, [s EXCEPT !.message = v])
         /\ \A m, screen : Keeps(s, Opened(s, m, screen))
         /\ Keeps(s, Hydrated(s))
<1>1. \A cards : Keeps(s, Collected(s, cards))
  BY DEF Keeps, IsSession, SessionFields, Collected
<1>2. \A v : Keeps(s, Focused(s, v))
  BY <1>1 DEF Keeps, IsSession, SessionFields, Focused
<1>3. Keeps(s, Moved(s))
  BY DEF Keeps, IsSession, SessionFields, Moved
<1>4. \A v : Keeps(s, Removed(s, v))
  BY DEF Keeps, IsSession, SessionFields, Removed
<1>5. /\ \A v : Keeps(s, [s EXCEPT !.pending = v])
      /\ \A v : Keeps(s, [s EXCEPT !.message = v])
  BY DEF Keeps, IsSession, SessionFields
<1>6. \A m, screen : Keeps(s, Opened(s, m, screen))
  BY DEF Keeps, IsSession, SessionFields, Opened
<1>7. Keeps(s, Hydrated(s))
  BY DEF Keeps, IsSession, SessionFields, Hydrated
<1>8. QED
  BY <1>1, <1>2, <1>3, <1>4, <1>5, <1>6, <1>7

\* restore_collection keeps it too.
LEMMA RestoredKeeps ==
  ASSUME NEW s, IsSession(s), NEW v
  PROVE  Keeps(s, Restored(s, v))
<1> DEFINE all == Collected(s, Listing)
<1>1. Keeps(s, all)
  BY SessionKeeps
<1>2. Keeps(all, Focused(all, v))
  BY <1>1, SessionKeeps DEF Keeps
<1>3. Keeps(s, s)
  BY DEF Keeps
<1>4. QED
  BY <1>1, <1>2, <1>3 DEF Restored, Keeps

\* start_operation and cancel_operation move it.
LEMMA BumpedMoves ==
  ASSUME NEW s, IsSession(s)
  PROVE  IsSession(Bumped(s)) /\ Bumped(s).generation = s.generation + 1
  BY DEF IsSession, SessionFields, Bumped

\* The session a handler goes on with in the middle.
LEMMA CurrentKeeps ==
  ASSUME Shape
  PROVE  Keeps(session, Current)
<1>1. IsSession(session)
  BY DEF Shape
<1>2. Keeps(session, session) /\ Keeps(session, Hydrated(session))
  BY <1>1, SessionKeeps DEF Keeps
<1>3. QED
  BY <1>2 DEF Current

-----------------------------------------------------------------------------
(* The steps of a handler that neither draws nor persists *)

\* What the other tasks see of a step of p.
Alone(p) == DOMAIN task' = Tasks /\ \A q \in Tasks : q # p => task'[q] = task[q]

\* p, in state t, goes on to draw, or to a step before that.
Turns(p, t, thens) ==
  /\ Alone(p)
  /\ IsTask(task'[p]) /\ IsSession(session')
  /\ \/ task'[p].at \in {"answered", "card", "closing"} /\ queue' = queue
     \/ /\ task'[p].at = "queued" /\ queue' = Append(queue, p)
        /\ task'[p].then \in thens
        /\ task'[p].then = "mark" => task'[p].draw = Card(task'[p].vac)
  /\ task'[p].lock \in {locks, t.lock}
  /\ task'[p].action = t.action /\ task'[p].generation = t.generation
  /\ task'[p].superseded = t.superseded
  /\ task'[p].orphan = t.orphan /\ task'[p].row = t.row

\* render.
LEMMA RenderTurns ==
  ASSUME Shape, NEW p \in Tasks, NEW t, IsTask(t), NEW s, IsSession(s), NEW m, NEW content,
         NEW then, then = "mark" => content = Card(t.vac),
         RenderOn(p, t, m, s, content, then)
  PROVE  /\ Turns(p, t, {then}) /\ task'[p].at = "queued"
         /\ session'.generation = s.generation
<1>1. Keeps(s, session')
  BY SessionKeeps DEF RenderOn
<1>2. /\ Alone(p)
      /\ task'[p] = [t EXCEPT !.at = "queued", !.target = m, !.draw = content,
                              !.then = then, !.lock = locks]
  BY DEF RenderOn, Become, Shape, Alone
<1>3. /\ DOMAIN task'[p] = TaskFields
      /\ task'[p].at = "queued" /\ task'[p].draw = content /\ task'[p].then = then
      /\ task'[p].lock = locks /\ task'[p].vac = t.vac
      /\ task'[p].action = t.action /\ task'[p].generation = t.generation
      /\ task'[p].superseded = t.superseded
      /\ task'[p].orphan = t.orphan /\ task'[p].row = t.row
  BY <1>2 DEF IsTask, TaskFields
<1>4. queue' = Append(queue, p)
  BY DEF RenderOn
<1>5. QED
  BY <1>1, <1>2, <1>3, <1>4 DEF Turns, IsTask, Keeps

\* show_current_collection.
LEMMA ShowTurns ==
  ASSUME Shape, NEW p \in Tasks, NEW s, IsSession(s), ShowCurrent(p, s)
  PROVE  Turns(p, task[p], {"end"}) /\ session'.generation = s.generation
<1>1. IsTask(task[p])
  BY DEF Shape
<1>2. CASE s.cards = <<>>
  <2>1. RenderOn(p, task[p], task[p].message, s, Page("collection_empty"), "end")
    BY <1>2 DEF ShowCurrent, Render
  <2>2. QED
    BY <1>1, <2>1, RenderTurns
<1>3. CASE s.cards # <<>>
  <2>1. /\ session' = s /\ UNCHANGED queue
        /\ Alone(p)
        /\ task'[p] = [task[p] EXCEPT !.at = "card", !.vac = s.cards[s.index]]
    BY <1>3 DEF ShowCurrent, Become, Shape, Alone
  <2>2. /\ IsTask(task'[p]) /\ task'[p].at = "card"
        /\ task'[p].lock = task[p].lock
        /\ task'[p].action = task[p].action /\ task'[p].generation = task[p].generation
        /\ task'[p].superseded = task[p].superseded
        /\ task'[p].orphan = task[p].orphan /\ task'[p].row = task[p].row
    BY <1>1, <2>1 DEF IsTask, TaskFields
  <2>3. QED
    BY <2>1, <2>2 DEF Turns
<1>4. QED
  BY <1>2, <1>3

\* What a handler's first region may go on with.
Thens(action) ==
  IF action = "prepare" THEN {"start"}
  ELSE IF action = "submit" THEN {"working"} ELSE {"mark", "end"}

\* The digest that waits for the menu.
PutOff(p, t, s) ==
  /\ t.action = "digest" /\ session' = s /\ Become(p, Idle) /\ UNCHANGED <<hydrated, queue>>

\* The first region of a handler goes on to draw, and moves the generation when
\* it cancels; or the digest waits.
LEMMA ActTurns ==
  ASSUME Shape, NEW p \in Tasks, NEW t, IsTask(t), NEW s, IsSession(s), Act(p, t, s)
  PROVE  \/ PutOff(p, t, s) /\ ~DigestMayDraw(s)
         \/ /\ Turns(p, t, Thens(t.action))
            /\ t.action = "submit" => task'[p].at = "queued"
            /\ session'.generation = IF Cancels(t.action) /\ t.action # "submit"
                                     THEN s.generation + 1 ELSE s.generation
<1>1. CASE t.action = "prepare"
  <2>1. IsSession(Focused(s, t.vac)) /\ Focused(s, t.vac).generation = s.generation
    BY SessionKeeps DEF Keeps
  <2>2. RenderOn(p, t, t.message, Focused(s, t.vac), Page("application_loading"), "start")
    BY <1>1 DEF Act, Render
  <2>3. QED
    BY <1>1, <2>1, <2>2, RenderTurns DEF Thens, Cancels
<1>2. CASE t.action = "submit"
  <2>1. RenderOn(p, t, t.message, s, Page("confirmation"), "working")
    BY <1>2 DEF Act, Render
  <2>2. QED
    BY <1>2, <2>1, RenderTurns DEF Thens, Cancels
<1>3. CASE t.action = "digest"
  <2>1. CASE DigestMayDraw(s)
    <3> DEFINE n == Collected(Cancelled(s), t.list)
    <3>1. IsSession(n) /\ n.generation = s.generation + 1
      BY SessionKeeps, BumpedMoves DEF Cancelled, Keeps
    <3>2. RenderOn(p, t, t.message, n, Card(t.vac), "mark")
      BY <1>3, <2>1 DEF Act, Render
    <3> HIDE DEF n
    <3>3. Turns(p, t, {"mark"}) /\ session'.generation = s.generation + 1
      BY <3>1, <3>2, RenderTurns
    <3>4. QED
      BY <1>3, <3>3 DEF Thens, Cancels, Turns
  <2>2. CASE ~DigestMayDraw(s)
    BY <1>3, <2>2 DEF Act, PutOff
  <2>3. QED
    BY <2>1, <2>2
<1>4. CASE t.action = "connected"
  <2>1. RenderOn(p, t, 0, s, PageOf("hh_connected", s.pending), "end")
    BY <1>4 DEF Act
  <2>2. Turns(p, t, {"end"}) /\ session'.generation = s.generation
    BY <2>1, RenderTurns
  <2>3. QED
    BY <1>4, <2>2 DEF Thens, Cancels, Turns
<1>5. CASE t.action \notin {"prepare", "submit", "digest", "connected"}
  <2>1. /\ \/ session' = [Cancelled(s) EXCEPT !.screen = "navigation"]
           \/ session' = Cancelled(s)
        /\ \/ Become(p, [t EXCEPT !.at = "closing"])
           \/ Become(p, [t EXCEPT !.at = "answered"])
        /\ UNCHANGED queue
    BY <1>5 DEF Act
  <2>2. IsSession(session') /\ session'.generation = s.generation + 1
    BY <2>1, BumpedMoves DEF Cancelled, IsSession, SessionFields
  <2>3. /\ Alone(p)
        /\ \/ task'[p] = [t EXCEPT !.at = "closing"]
           \/ task'[p] = [t EXCEPT !.at = "answered"]
    BY <2>1 DEF Become, Shape, Alone
  <2>4. /\ IsTask(task'[p]) /\ task'[p].at \in {"answered", "closing"}
        /\ task'[p].lock = t.lock
        /\ task'[p].action = t.action /\ task'[p].generation = t.generation
        /\ task'[p].superseded = t.superseded
        /\ task'[p].orphan = t.orphan /\ task'[p].row = t.row
    BY <2>3 DEF IsTask, TaskFields
  <2>5. QED
    BY <1>5, <2>1, <2>2, <2>3, <2>4 DEF Turns, Cancels
<1>6. QED
  BY <1>1, <1>2, <1>3, <1>4, <1>5

\* p runs on outside the lock, ...
RunsOn(p) ==
  /\ Alone(p) /\ IsTask(task'[p]) /\ IsSession(session')
  /\ task[p].at \notin Waiting
  /\ \/ task'[p].at \notin Waiting /\ queue' = queue
     \/ task'[p].at = "queued" /\ queue' = Append(queue, p)
  /\ task'[p].lock \in {0, locks, task[p].lock}
  /\ task'[p].orphan \in {FALSE, task[p].orphan}
  /\ task'[p].row \in {None, task[p].row}
  /\ db' \in {None, db}
  /\ UNCHANGED <<ends, locks, situation, rendered>>

\* ... marks nothing that was not drawn, ...
Marks(p) ==
  /\ task'[p].at = "queued" /\ task'[p].then = "mark" => task'[p].draw = Card(task'[p].vac)
  /\ task'[p].at # "marking"
  /\ \/ sent' = sent
     \/ task[p].at = "marking" /\ sent' = sent \cup {task[p].vac}

\* ... moves the generation when it cancels, ...
Moves(p) ==
  /\ session'.generation >= session.generation
  /\ task'[p].generation \in {0, task[p].generation, session.generation, session'.generation}
  /\ ~Counted(p) /\ Counted(p)' /\ Cancels(task'[p].action) =>
       session'.generation > session.generation
  /\ task[p].at # "idle" /\ task'[p].at # "idle" =>
       /\ task'[p].action = task[p].action /\ task'[p].generation = task[p].generation
       /\ task'[p].superseded = task[p].superseded
  /\ task[p].at = "idle" /\ task'[p].at # "idle" => task'[p].superseded = FALSE
  /\ task'[p].at = "queued" =>
       /\ task'[p].then = "start" => task'[p].action = "prepare"
       /\ task'[p].action = "submit" =>
            \/ task'[p].then = "working"
            \/ /\ task'[p].then = "end" /\ task[p].at = "working"
               /\ session.generation = task[p].generation
  /\ task'[p].action = "submit" /\ task'[p].at # "idle" =>
       task'[p].at \in {"hydrating", "queued", "working"}

\* ... comes after whoever runs when it starts ...
Starts(p) ==
  /\ \A q, r \in Tasks : Before(q, r)' /\ r # p => Before(q, r)
  /\ IF task[p].at = "idle" THEN \A r \in Tasks : ~Before(p, r)'
     ELSE \A q \in Tasks : Before(q, p)' => Before(q, p)

SamePosition(s, n) ==
  n.message = s.message /\ n.screen = s.screen /\ n.cards = s.cards /\ n.index = s.index

\* ... and will draw what it changed.
Debts(p) ==
  NoneIsNoRow /\ Orderly /\ "position" \notin astray' /\ hydrated' /\ session'.message # 0 =>
    \/ Owing(p)'
    \/ /\ hydrated /\ ~Owing(p) /\ "position" \notin astray
       /\ SamePosition(session, session') /\ db' = db
    \/ queue = <<>> /\ queue' = <<>> /\ db' = db /\ Match(db, session')

Goes(p) == RunsOn(p) /\ Marks(p) /\ Moves(p) /\ Starts(p) /\ Debts(p)

\* A handler that came so far is past _hydrate.
LEMMA TurnsGo ==
  ASSUME Shape, NEW p \in Tasks, NEW thens, Turns(p, task[p], thens), "start" \notin thens,
         task[p].at \notin Waiting \cup {"idle", "hydrating"},
         task[p].action = "submit" =>
           /\ task'[p].at = "queued" /\ task[p].at = "working" /\ thens = {"end"}
           /\ session.generation = task[p].generation,
         session'.generation = session.generation,
         UNCHANGED <<ends, locks, situation, rendered, db, sent, before>>
  PROVE  Goes(p)
<1>1. RunsOn(p)
  BY DEF RunsOn, Turns, Waiting
<1>2. Marks(p)
  BY DEF Marks, Turns
<1>3. Moves(p)
  BY DEF Moves, Turns, Counted, Shape, IsSession
<1>4. Starts(p)
  BY DEF Starts, Before
<1>5. Debts(p)
  BY DEF Debts, Owing, Turns
<1>6. QED
  BY <1>1, <1>2, <1>3, <1>4, <1>5 DEF Goes

LEMMA RenderCardGoes ==
  ASSUME Shape, Path, NEW p \in Tasks, RenderCard(p)
  PROVE  Goes(p)
<1>1. /\ task[p].at = "card" /\ IsTask(task[p])
      /\ RenderOn(p, task[p], task[p].message, Current, Card(task[p].vac), "mark")
      /\ UNCHANGED <<ends, locks, situation, rendered, db, sent, before>>
  BY DEF RenderCard, Render, Shape, past
<1>2. /\ Turns(p, task[p], {"mark"})
      /\ session'.generation = session.generation
  BY <1>1, RenderTurns, CurrentKeeps DEF Keeps
<1>3. task[p].action # "submit"
  BY <1>1 DEF Path, Submits
<1>4. QED
  BY <1>1, <1>2, <1>3, TurnsGo DEF Waiting

LEMMA ProgressGoes ==
  ASSUME Shape, Path, NEW p \in Tasks, Progress(p)
  PROVE  Goes(p)
<1>1. /\ task[p].at = "searching" /\ IsTask(task[p])
      /\ RenderOn(p, task[p], 0, Current, Page("search"), "searching")
      /\ UNCHANGED <<ends, locks, situation, rendered, db, sent, before>>
  BY DEF Progress, Shape, past
<1>2. /\ Turns(p, task[p], {"searching"})
      /\ session'.generation = session.generation
  BY <1>1, RenderTurns, CurrentKeeps DEF Keeps
<1>3. task[p].action # "submit"
  BY <1>1 DEF Path, Submits
<1>4. QED
  BY <1>1, <1>2, <1>3, TurnsGo DEF Waiting

LEMMA SearchFailsGoes ==
  ASSUME Shape, Path, NEW p \in Tasks, SearchFails(p)
  PROVE  Goes(p)
<1>1. /\ task[p].at \in {"searching", "listing"} /\ IsTask(task[p])
      /\ RenderOn(p, task[p], task[p].message, Current, Page("search_result"), "end")
      /\ UNCHANGED <<ends, locks, situation, rendered, db, sent, before>>
  BY DEF SearchFails, Render, Shape, past
<1>2. /\ Turns(p, task[p], {"end"})
      /\ session'.generation = session.generation
  BY <1>1, RenderTurns, CurrentKeeps DEF Keeps
<1>3. task[p].action # "submit"
  BY <1>1 DEF Path, Submits
<1>4. QED
  BY <1>1, <1>2, <1>3, TurnsGo DEF Waiting

LEMMA ListedGoes ==
  ASSUME Shape, Path, NEW p \in Tasks, Listed(p)
  PROVE  Goes(p)
<1>1. PICK list : /\ task[p].at = "listing" /\ IsTask(task[p])
                  /\ \/ ShowCurrent(p, Collected(Current, list))
                     \/ RenderOn(p, task[p], task[p].message, Current, Page("search_result"), "end")
                  /\ UNCHANGED <<ends, locks, situation, rendered, db, sent, before>>
  BY DEF Listed, Render, Shape, past
<1>2. /\ Keeps(session, Current)
      /\ Keeps(Current, Collected(Current, list))
  BY CurrentKeeps, SessionKeeps DEF Keeps
<1>3. /\ Turns(p, task[p], {"end"})
      /\ session'.generation = session.generation
  <2>1. CASE ShowCurrent(p, Collected(Current, list))
    BY <1>2, <2>1, ShowTurns DEF Keeps
  <2>2. CASE RenderOn(p, task[p], task[p].message, Current, Page("search_result"), "end")
    BY <1>1, <1>2, <2>2, RenderTurns DEF Keeps
  <2>3. QED
    BY <1>1, <2>1, <2>2
<1>4. task[p].action # "submit"
  BY <1>1 DEF Path, Submits
<1>5. QED
  BY <1>1, <1>3, <1>4, TurnsGo DEF Waiting

\* What a handler draws after its awaits: a page of its own, or a card.
LEMMA ReplyGoes ==
  ASSUME Shape, Path, NEW p \in Tasks, Reply(p)
  PROVE  Goes(p)
<1> DEFINE t == task[p]
           c == Current
           all == Restored(c, t.vac)
<1>1. /\ t.at = "answered" /\ IsTask(t)
      /\ UNCHANGED <<ends, locks, situation, rendered, db, sent, before>>
  BY DEF Reply, Shape, past
<1>2. t.action # "submit" /\ t.at \notin Waiting \cup {"idle", "hydrating"}
  BY <1>1 DEF Path, Submits, Waiting
<1>3. ASSUME NEW s, Keeps(session, s), ShowCurrent(p, s)
      PROVE  Goes(p)
  <2>1. Turns(p, t, {"end"}) /\ session'.generation = session.generation
    BY <1>3, ShowTurns DEF Keeps
  <2>2. QED
    BY <1>1, <1>2, <2>1, TurnsGo
<1>4. ASSUME NEW s, Keeps(session, s), NEW content, NEW then \in {"wanting", "end"},
             Render(p, t, s, content, then)
      PROVE  Goes(p)
  <2>1. Turns(p, t, {then}) /\ session'.generation = session.generation
    BY <1>1, <1>4, RenderTurns DEF Keeps, Render
  <2>2. QED
    BY <1>1, <1>2, <2>1, TurnsGo
<1>5. Keeps(session, c)
  BY CurrentKeeps
<1>6. Keeps(c, all)
  BY <1>5, RestoredKeeps DEF Keeps
<1> HIDE DEF c, all
<1>7. /\ Keeps(session, all)
      /\ Keeps(all, Moved(all)) /\ Keeps(all, Removed(all, t.vac))
  BY <1>5, <1>6, SessionKeeps DEF Keeps
<1>8. /\ Keeps(c, Removed(c, t.vac)) /\ Keeps(c, Collected(c, Fresh))
      /\ Keeps(c, [c EXCEPT !.pending = None])
  BY <1>5, SessionKeeps DEF Keeps
<1>9. /\ Keeps(session, Moved(all)) /\ Keeps(session, Removed(all, t.vac))
      /\ Keeps(session, Removed(c, t.vac)) /\ Keeps(session, Collected(c, Fresh))
      /\ Keeps(session, [c EXCEPT !.pending = None])
  BY <1>5, <1>6, <1>7, <1>8 DEF Keeps
<1>10. CASE t.action = "stats"
  <2>1. Render(p, t, c, Page("stats"), "end")
    BY <1>10 DEF Reply, c
  <2>2. QED
    BY <1>4, <1>5, <2>1
<1>11. CASE t.action = "next"
  <2>1. ShowCurrent(p, Moved(all))
    BY <1>11 DEF Reply, c, all
  <2>2. QED
    BY <1>3, <1>9, <2>1
<1>12. CASE t.action = "collection"
  <2>1. ShowCurrent(p, Collected(c, Fresh))
    BY <1>12 DEF Reply, c
  <2>2. QED
    BY <1>3, <1>9, <2>1
<1>13. CASE t.action = "continue"
  <2>1. ShowCurrent(p, Removed(c, t.vac))
    BY <1>13 DEF Reply, c
  <2>2. QED
    BY <1>3, <1>9, <2>1
<1>14. CASE t.action = "vacancy"
  <2>1. Render(p, t, all, PageOf("vacancy", t.vac), "end")
    BY <1>14 DEF Reply, c, all
  <2>2. QED
    BY <1>4, <1>7, <2>1
<1>15. CASE t.action = "register"
  <2>1. Render(p, t, Removed(all, t.vac), Page("registered"), "end")
    BY <1>15 DEF Reply, c, all
  <2>2. QED
    BY <1>4, <1>9, <2>1
<1>16. CASE t.action = "search"
  <2>1. \E then \in {"wanting", "end"} : Render(p, t, c, Page("search"), then)
    BY <1>16 DEF Reply, c
  <2>2. QED
    BY <1>4, <1>5, <2>1
<1>17. CASE t.action = "pending_clear"
  <2>1. Render(p, t, [c EXCEPT !.pending = None], Page("menu"), "end")
    BY <1>17 DEF Reply, c
  <2>2. QED
    BY <1>4, <1>9, <2>1
<1>18. CASE t.action \notin {"stats", "next", "collection", "continue", "vacancy", "register",
                            "search", "pending_clear"}
  <2>1. ShowCurrent(p, c) \/ Render(p, t, c, Page("menu"), "end")
    BY <1>18 DEF Reply, c
  <2>2. QED
    BY <1>3, <1>4, <1>5, <2>1
<1>19. QED
  BY <1>10, <1>11, <1>12, <1>13, <1>14, <1>15, <1>16, <1>17, <1>18

\* A handler that ends ...
LEMMA EndRuns ==
  ASSUME Shape, NEW p \in Tasks, Become(p, Idle), task[p].at \notin Waiting \cup {"idle"},
         IsSession(session'), session'.generation = session.generation,
         UNCHANGED <<queue, ends, locks, situation, rendered, db, before>>
  PROVE  /\ RunsOn(p) /\ Moves(p) /\ Starts(p)
         /\ task'[p].at = "idle"
<1>1. Alone(p) /\ task'[p] = Idle
  BY DEF Alone, Become, Shape
<1>2. /\ IsTask(Idle) /\ Idle.at = "idle" /\ Idle.lock = 0 /\ Idle.orphan = FALSE
      /\ Idle.row = None /\ Idle.generation = 0
  BY DEF IsTask, TaskFields, Idle
<1>3. RunsOn(p)
  BY <1>1, <1>2 DEF RunsOn, Waiting
<1>4. Moves(p)
  BY <1>1, <1>2 DEF Moves, Counted, Shape, IsSession
<1>5. Starts(p)
  BY DEF Starts, Before
<1>6. QED
  BY <1>1, <1>2, <1>3, <1>4, <1>5

\* ... or goes to a next step without a page.
LEMMA StepRuns ==
  ASSUME Shape, NEW p \in Tasks, NEW at \in {"searching", "listing", "deleting", "dropping"},
         Become(p, [task[p] EXCEPT !.at = at]),
         task[p].at \notin Waiting \cup {"idle", "hydrating"}, task[p].action # "submit",
         IsSession(session'), session'.generation = session.generation, db' \in {None, db},
         UNCHANGED <<queue, ends, locks, situation, rendered, before>>
  PROVE  /\ RunsOn(p) /\ Moves(p) /\ Starts(p)
         /\ task'[p].at = at
<1>1. Alone(p) /\ task'[p] = [task[p] EXCEPT !.at = at]
  BY DEF Alone, Become, Shape
<1>2. /\ IsTask(task'[p]) /\ task'[p].at = at
      /\ task'[p].lock = task[p].lock /\ task'[p].orphan = task[p].orphan
      /\ task'[p].row = task[p].row /\ task'[p].action = task[p].action
      /\ task'[p].generation = task[p].generation
      /\ task'[p].superseded = task[p].superseded
  BY <1>1 DEF IsTask, TaskFields, Shape
<1>3. RunsOn(p)
  BY <1>1, <1>2 DEF RunsOn, Waiting
<1>4. Moves(p)
  BY <1>2 DEF Moves, Counted, Shape, IsSession
<1>5. Starts(p)
  BY DEF Starts, Before
<1>6. QED
  BY <1>2, <1>3, <1>4, <1>5

LEMMA MarkSentGoes ==
  ASSUME Shape, NEW p \in Tasks, MarkSent(p)
  PROVE  Goes(p)
<1>1. RunsOn(p) /\ Moves(p) /\ Starts(p) /\ task'[p].at = "idle"
  BY EndRuns DEF MarkSent, past, Shape, Waiting
<1>2. Marks(p)
  BY <1>1 DEF Marks, MarkSent
<1>3. Debts(p)
  BY DEF Debts, MarkSent, past, SamePosition, Owing
<1>4. QED
  BY <1>1, <1>2, <1>3 DEF Goes

LEMMA EnterSearchGoes ==
  ASSUME Shape, Path, NEW p \in Tasks, EnterSearch(p)
  PROVE  Goes(p)
<1>1. task[p].at = "wanting" /\ task[p].action # "submit"
  BY DEF EnterSearch, Path, Submits
<1>2. RunsOn(p) /\ Moves(p) /\ Starts(p) /\ task'[p].at = "searching"
  BY <1>1, StepRuns DEF EnterSearch, past, Shape, Waiting
<1>3. Marks(p)
  BY <1>2 DEF Marks, EnterSearch
<1>4. Debts(p)
  BY <1>1 DEF Debts, EnterSearch, past, SamePosition, Owing
<1>5. QED
  BY <1>2, <1>3, <1>4 DEF Goes

LEMMA SearchDoneGoes ==
  ASSUME Shape, Path, NEW p \in Tasks, SearchDone(p)
  PROVE  Goes(p)
<1>1. task[p].at = "searching" /\ task[p].action # "submit"
  BY DEF SearchDone, Path, Submits
<1>2. RunsOn(p) /\ Moves(p) /\ Starts(p) /\ task'[p].at \in {"listing", "idle"}
  <2>1. CASE Become(p, [task[p] EXCEPT !.at = "listing"])
    BY <1>1, <2>1, StepRuns DEF SearchDone, past, Shape, Waiting
  <2>2. CASE Become(p, Idle)
    BY <1>1, <2>2, EndRuns DEF SearchDone, past, Shape, Waiting
  <2>3. QED
    BY <2>1, <2>2 DEF SearchDone
<1>3. Marks(p)
  BY <1>2 DEF Marks, SearchDone
<1>4. Debts(p)
  BY <1>1 DEF Debts, SearchDone, past, SamePosition, Owing
<1>5. QED
  BY <1>2, <1>3, <1>4 DEF Goes

LEMMA CloseMessageGoes ==
  ASSUME Shape, Path, NEW p \in Tasks, CloseMessage(p)
  PROVE  Goes(p)
<1>1. task[p].at = "closing" /\ task[p].action # "submit"
  BY DEF CloseMessage, Path, Submits
<1>2. RunsOn(p) /\ Moves(p) /\ Starts(p) /\ task'[p].at = "deleting"
  BY <1>1, StepRuns DEF CloseMessage, past, Shape, Waiting
<1>3. Marks(p) /\ Debts(p)
  BY <1>2 DEF Marks, Debts, Owing, CloseMessage
<1>4. QED
  BY <1>2, <1>3 DEF Goes

LEMMA CloseRowGoes ==
  ASSUME Shape, Path, NEW p \in Tasks, CloseRow(p)
  PROVE  Goes(p)
<1>1. task[p].at = "deleting" /\ task[p].action # "submit"
  BY DEF CloseRow, Path, Submits
<1>2. RunsOn(p) /\ Moves(p) /\ Starts(p) /\ task'[p].at = "dropping"
  BY <1>1, StepRuns DEF CloseRow, past, Shape, Waiting
<1>3. Marks(p) /\ Debts(p)
  BY <1>2 DEF Marks, Debts, Owing, CloseRow
<1>4. QED
  BY <1>2, <1>3 DEF Goes

\* A preparation draws its preview while its generation is the session's.
LEMMA PreparedGoes ==
  ASSUME Shape, NEW p \in Tasks, Prepared(p)
  PROVE  Goes(p)
<1>1. /\ task[p].at = "working" /\ task[p].action = "prepare" /\ IsTask(task[p])
      /\ UNCHANGED <<ends, locks, situation, rendered, db, sent, before, astray>>
  BY DEF Prepared, past, Shape
<1>2. CASE Become(p, Idle) /\ UNCHANGED <<session, hydrated, queue>>
  <2>1. RunsOn(p) /\ Moves(p) /\ Starts(p) /\ task'[p].at = "idle"
    BY <1>1, <1>2, EndRuns DEF Shape, Waiting
  <2>2. Marks(p) /\ Debts(p)
    BY <1>1, <1>2, <2>1 DEF Marks, Debts, SamePosition, Owing
  <2>3. QED
    BY <2>1, <2>2 DEF Goes
<1>3. ASSUME NEW s, Keeps(Current, s), NEW content, Render(p, task[p], s, content, "end")
      PROVE  Goes(p)
  <2>1. Turns(p, task[p], {"end"}) /\ session'.generation = session.generation
    BY <1>1, <1>3, CurrentKeeps, RenderTurns DEF Keeps, Render
  <2>2. QED
    BY <1>1, <2>1, TurnsGo DEF Waiting
<1>4. /\ Keeps(Current, Current)
      /\ \A v : Keeps(Current, [Current EXCEPT !.pending = v])
  BY CurrentKeeps, SessionKeeps DEF Keeps
<1>5. QED
  BY <1>2, <1>3, <1>4 DEF Prepared

\* A submission too; what it says of the vacancy is kept, and if that moves the
\* position the session is astray.
LEMMA SubmittedGoes ==
  ASSUME Shape, NEW p \in Tasks, Submitted(p)
  PROVE  Goes(p)
<1>1. /\ task[p].at = "working" /\ task[p].action = "submit" /\ IsTask(task[p])
      /\ IsSession(session)
      /\ UNCHANGED <<ends, locks, situation, rendered, db, sent, before>>
  BY DEF Submitted, Shape
<1>2. PICK v, s :
        /\ s \in {Removed(session, v), [session EXCEPT !.pending = v], session}
        /\ \/ /\ session' = s
              /\ astray' = IF s.cards = session.cards /\ s.index = session.index THEN astray
                           ELSE astray \cup {"position"}
              /\ Become(p, Idle)
              /\ UNCHANGED <<hydrated, queue>>
           \/ /\ session.generation = task[p].generation
              /\ Render(p, task[p], s, Page("application_result"), "end")
  BY DEF Submitted, OperationIsCurrent
<1>3. Keeps(session, s)
  <2>1. /\ Keeps(session, session) /\ Keeps(session, Removed(session, v))
        /\ Keeps(session, [session EXCEPT !.pending = v])
    BY <1>1, SessionKeeps DEF Keeps
  <2>2. QED
    BY <1>2, <2>1
<1>4. CASE Become(p, Idle) /\ session' = s /\ UNCHANGED <<hydrated, queue>>
           /\ astray' = IF s.cards = session.cards /\ s.index = session.index THEN astray
                        ELSE astray \cup {"position"}
  <2>1. RunsOn(p) /\ Moves(p) /\ Starts(p) /\ task'[p].at = "idle"
    BY <1>1, <1>3, <1>4, EndRuns DEF Waiting, Keeps
  <2>2. Marks(p)
    BY <1>1, <2>1 DEF Marks
  <2>3. s.message = session.message /\ s.screen = session.screen
    BY <1>1, <1>2 DEF IsSession, SessionFields, Removed
  <2>4. Debts(p)
    BY <1>1, <1>4, <2>3 DEF Debts, SamePosition, Owing
  <2>5. QED
    BY <2>1, <2>2, <2>4 DEF Goes
<1>5. CASE /\ session.generation = task[p].generation
           /\ Render(p, task[p], s, Page("application_result"), "end")
  <2>1. /\ Turns(p, task[p], {"end"}) /\ session'.generation = session.generation
        /\ task'[p].at = "queued"
    BY <1>1, <1>3, <1>5, RenderTurns DEF Keeps, Render
  <2>2. QED
    BY <1>1, <1>5, <2>1, TurnsGo DEF Waiting
<1>6. QED
  BY <1>2, <1>4, <1>5

\* After _hydrate the handler goes on, or the digest waits: then the session is
\* the row, if nobody used it meanwhile.
LEMMA HydrateGoes ==
  ASSUME Shape, NEW p \in Tasks, Hydrate(p)
  PROVE  Goes(p)
<1>1. /\ task[p].at = "hydrating" /\ IsTask(task[p]) /\ IsSession(session)
      /\ UNCHANGED <<ends, locks, situation, rendered, db, sent, before>>
  BY DEF Hydrate, Shape
<1>2. PICK s \in {Hydrated(session), session} :
        /\ Act(p, task[p], s)
        /\ \/ s = Hydrated(session) /\ astray' = astray \cup Astray(p)
           \/ situation.failing
  BY DEF Hydrate
<1>3. Keeps(session, s)
  BY <1>1, SessionKeeps DEF Keeps
<1>4. CASE PutOff(p, task[p], s) /\ ~DigestMayDraw(s)
  <2>1. RunsOn(p) /\ Moves(p) /\ Starts(p) /\ task'[p].at = "idle"
    BY <1>1, <1>3, <1>4, EndRuns DEF Waiting, Keeps, PutOff
  <2>2. Marks(p)
    BY <1>1, <2>1 DEF Marks
  <2>3. ASSUME NoneIsNoRow, Orderly, "position" \notin astray', session'.message # 0
        PROVE  queue = <<>> /\ Match(db, session')
    <3>1. s = Hydrated(session) /\ astray' = astray \cup Astray(p)
      BY <1>2, <2>3 DEF Orderly
    <3>2. [session EXCEPT !.generation = 0] = Blank /\ queue = <<>>
      BY <1>4, <2>3, <3>1 DEF Astray, PutOff
    <3>3. /\ session.message = 0 /\ session.screen = "menu" /\ session.navigated = FALSE
      <4> DEFINE zero == [session EXCEPT !.generation = 0]
      <4>1. /\ zero.message = session.message /\ zero.screen = session.screen
            /\ zero.navigated = session.navigated
        BY <1>1 DEF IsSession, SessionFields
      <4>2. Blank.message = 0 /\ Blank.screen = "menu" /\ Blank.navigated = FALSE
        BY DEF Blank
      <4>3. QED
        BY <3>2, <4>1, <4>2
    <3>4. db # None
      BY <1>4, <2>3, <3>1, <3>3 DEF Hydrated, PutOff
    <3>5. /\ s.message = db.message /\ s.screen = db.screen /\ s.cards = db.cards
          /\ s.index = db.index /\ s.pending = db.pending
      BY <1>1, <3>1, <3>3, <3>4 DEF Hydrated, IsSession, SessionFields
    <3>6. db = Snapshot(s)
      BY <3>4, <3>5 DEF Snapshot, Shape, IsRow
    <3>7. QED
      BY <1>4, <2>3, <3>2, <3>4, <3>6 DEF Match, PutOff
  <2>4. Debts(p)
    BY <1>1, <1>4, <2>3 DEF Debts, PutOff
  <2>5. QED
    BY <2>1, <2>2, <2>4 DEF Goes
<1>5. CASE /\ Turns(p, task[p], Thens(task[p].action))
           /\ task[p].action = "submit" => task'[p].at = "queued"
           /\ session'.generation = IF Cancels(task[p].action) /\ task[p].action # "submit"
                                    THEN s.generation + 1 ELSE s.generation
  <2>1. RunsOn(p)
    BY <1>1, <1>5 DEF RunsOn, Turns, Waiting
  <2>2. Marks(p)
    BY <1>1, <1>5 DEF Marks, Turns
  <2>3. Moves(p)
    BY <1>1, <1>3, <1>5 DEF Moves, Turns, Counted, Thens, Keeps, IsSession
  <2>4. Starts(p)
    BY <1>1 DEF Starts, Before
  <2>5. Debts(p)
    BY <1>5 DEF Debts, Owing, Turns
  <2>6. QED
    BY <2>1, <2>2, <2>3, <2>4, <2>5 DEF Goes
<1>6. QED
  BY <1>1, <1>2, <1>3, <1>4, <1>5, ActTurns DEF Keeps

\* A handler starts.
LEMMA BeginGoes ==
  ASSUME Shape, NEW p \in Tasks, NEW action, NEW m, NEW v, NEW list,
         Begin(p, action, m, v, list)
  PROVE  Goes(p)
<1> DEFINE s == IF action = "submit" THEN Bumped(session) ELSE session
           t == [Idle EXCEPT !.action = action, !.message = m, !.vac = v, !.list = list,
                             !.generation = s.generation]
<1>1. /\ task[p].at = "idle" /\ IsSession(session) /\ IsTask(task[p])
      /\ UNCHANGED <<ends, locks, situation, rendered, db, sent, astray>>
  BY DEF Begin, Shape
<1>2. /\ IsSession(s)
      /\ s.generation = IF action = "submit" THEN session.generation + 1 ELSE session.generation
  BY <1>1, BumpedMoves
<1>3. IF hydrated THEN Act(p, t, s)
      ELSE /\ Become(p, [t EXCEPT !.at = "hydrating"])
           /\ session' = s /\ queue' = queue
  BY DEF Begin
<1> HIDE DEF s
<1>4. /\ IsTask(t) /\ t.action = action /\ t.generation = s.generation
      /\ t.superseded = FALSE /\ t.orphan = FALSE /\ t.lock = 0 /\ t.row = None
  BY <1>2 DEF IsTask, IsSession, TaskFields, Idle
<1> HIDE DEF t
<1>5. Starts(p)
  BY <1>1 DEF Starts, Before, Begin
<1>6. CASE ~hydrated
  <2>1. Alone(p) /\ task'[p] = [t EXCEPT !.at = "hydrating"]
    BY <1>3, <1>6 DEF Become, Alone, Shape
  <2>2. /\ IsTask(task'[p]) /\ task'[p].at = "hydrating"
        /\ task'[p].action = action /\ task'[p].generation = s.generation
        /\ task'[p].superseded = FALSE /\ task'[p].orphan = FALSE
        /\ task'[p].lock = 0 /\ task'[p].row = None
    BY <1>4, <2>1 DEF IsTask, TaskFields
  <2>3. RunsOn(p)
    BY <1>1, <1>2, <1>3, <1>6, <2>1, <2>2 DEF RunsOn, Waiting
  <2>4. Marks(p)
    BY <1>1, <2>2 DEF Marks
  <2>5. Moves(p)
    BY <1>1, <1>2, <1>3, <1>6, <2>2 DEF Moves, Counted, IsSession
  <2>6. Debts(p)
    BY <2>2 DEF Debts, Owing
  <2>7. QED
    BY <1>5, <2>3, <2>4, <2>5, <2>6 DEF Goes
<1>7. CASE hydrated /\ PutOff(p, t, s)
  <2>1. action = "digest" /\ s = session
    BY <1>4, <1>7 DEF PutOff, s
  <2>2. Alone(p) /\ task'[p] = Idle /\ session' = session
    BY <1>7, <2>1 DEF Alone, Become, Shape, PutOff
  <2>3. /\ IsTask(Idle) /\ Idle.at = "idle" /\ Idle.lock = 0 /\ Idle.orphan = FALSE
        /\ Idle.row = None /\ Idle.generation = 0
    BY DEF IsTask, TaskFields, Idle
  <2>4. RunsOn(p)
    BY <1>1, <1>7, <2>2, <2>3 DEF RunsOn, Waiting, PutOff
  <2>5. Marks(p)
    BY <1>1, <2>2, <2>3 DEF Marks
  <2>6. Moves(p)
    BY <1>1, <2>2, <2>3 DEF Moves, Counted, IsSession
  <2>7. Debts(p)
    BY <1>1, <1>7, <2>2 DEF Debts, Owing, SamePosition
  <2>8. QED
    BY <1>5, <2>4, <2>5, <2>6, <2>7 DEF Goes
<1>8. CASE /\ hydrated /\ Turns(p, t, Thens(t.action))
           /\ t.action = "submit" => task'[p].at = "queued"
           /\ session'.generation = IF Cancels(t.action) /\ t.action # "submit"
                                    THEN s.generation + 1 ELSE s.generation
  <2>1. RunsOn(p)
    BY <1>1, <1>4, <1>8 DEF RunsOn, Turns, Waiting
  <2>2. Marks(p)
    BY <1>1, <1>8 DEF Marks, Turns
  <2>3. Moves(p)
    BY <1>1, <1>2, <1>4, <1>8 DEF Moves, Turns, Counted, Thens, IsSession
  <2>4. Debts(p)
    BY <1>8 DEF Debts, Owing, Turns
  <2>5. QED
    BY <1>5, <2>1, <2>2, <2>3, <2>4 DEF Goes
<1>9. QED
  BY <1>2, <1>3, <1>4, <1>6, <1>7, <1>8, ActTurns

-----------------------------------------------------------------------------
(* The chat's lock *)

\* Who leaves a queue leaves the others in their order.
LEMMA WithoutOne ==
  ASSUME NEW S, NEW s \in Seq(S), \A i, j \in DOMAIN s : s[i] = s[j] => i = j,
         NEW e, NEW at \in DOMAIN s, s[at] = e
  PROVE  /\ Without(s, e) \in Seq(S)
         /\ DOMAIN Without(s, e) = 1..(Len(s) - 1)
         /\ \A i \in 1..(Len(s) - 1) : Without(s, e)[i] = IF i < at THEN s[i] ELSE s[i + 1]
<1> DEFINE n == Len(s) - 1
           chosen == CHOOSE i \in DOMAIN s : s[i] = e
           w == [i \in 1..n |-> IF i < chosen THEN s[i] ELSE s[i + 1]]
<1>1. chosen = at
  OBVIOUS
<1>2. Len(s) \in Nat /\ DOMAIN s = 1..Len(s) /\ at \in 1..Len(s) /\ n \in Nat
  OBVIOUS
<1>3. w = Without(s, e)
  BY DEF Without
<1> HIDE DEF chosen
<1>4. \A i \in 1..n : w[i] = (IF i < at THEN s[i] ELSE s[i + 1]) /\ w[i] \in S
  BY <1>1, <1>2
<1>5. w \in [1..n -> S]
  BY <1>4
<1>6. w \in Seq(S)
  BY <1>2, <1>5
<1> HIDE DEF w
<1>7. QED
  BY <1>3, <1>4, <1>5, <1>6

LEMMA WithoutQueue ==
  ASSUME NEW S, NEW s \in Seq(S), \A i, j \in DOMAIN s : s[i] = s[j] => i = j,
         NEW e, \E i \in DOMAIN s : s[i] = e
  PROVE  /\ \A i, j \in DOMAIN Without(s, e) : Without(s, e)[i] = Without(s, e)[j] => i = j
         /\ \A x : (\E i \in DOMAIN Without(s, e) : Without(s, e)[i] = x)
                   <=> x # e /\ \E i \in DOMAIN s : s[i] = x
<1> DEFINE n == Len(s) - 1
           w == Without(s, e)
<1>1. PICK at \in DOMAIN s : s[at] = e
  OBVIOUS
<1>2. /\ w \in Seq(S) /\ DOMAIN w = 1..n
      /\ \A i \in 1..n : w[i] = IF i < at THEN s[i] ELSE s[i + 1]
  BY <1>1, WithoutOne
<1>3. Len(s) \in Nat /\ DOMAIN s = 1..Len(s) /\ at \in 1..Len(s) /\ n \in Nat
  BY <1>1
<1> HIDE DEF w
<1>4. ASSUME NEW i \in 1..n, NEW j \in 1..n, w[i] = w[j]
      PROVE  i = j
  BY <1>2, <1>3, <1>4
<1>5. ASSUME NEW i \in 1..n
      PROVE  w[i] # e /\ \E j \in DOMAIN s : s[j] = w[i]
  BY <1>1, <1>2, <1>3
<1>6. ASSUME NEW j \in DOMAIN s, s[j] # e
      PROVE  \E i \in 1..n : w[i] = s[j]
  <2>1. CASE j < at
    BY <1>1, <1>2, <1>3, <2>1
  <2>2. CASE j > at
    <3>1. j - 1 \in 1..n /\ ~(j - 1 < at) /\ (j - 1) + 1 = j
      BY <1>3, <2>2
    <3>2. w[j - 1] = s[j]
      BY <1>2, <3>1
    <3>3. QED
      BY <3>1, <3>2
  <2>3. j # at
    BY <1>1, <1>6
  <2>4. QED
    BY <1>3, <2>1, <2>2, <2>3
<1>7. ASSUME NEW x
      PROVE  (\E i \in 1..n : w[i] = x) <=> x # e /\ \E i \in DOMAIN s : s[i] = x
  BY <1>5, <1>6
<1>8. QED
  BY <1>2, <1>4, <1>7 DEF w

LEMMA AppendQueue ==
  ASSUME NEW S, NEW s \in Seq(S), NEW e \in S
  PROVE  /\ Append(s, e) \in Seq(S)
         /\ DOMAIN Append(s, e) = 1..(Len(s) + 1) /\ DOMAIN s = 1..Len(s) /\ Len(s) \in Nat
         /\ \A i \in DOMAIN s : Append(s, e)[i] = s[i]
         /\ Append(s, e)[Len(s) + 1] = e
  OBVIOUS

\* The first of the queue holds the lock, while there is one.
LEMMA Holder ==
  ASSUME Queue, Lock, locks = 0, NEW p \in Tasks, HoldsLock(p)
  PROVE  queue # <<>> /\ queue[1] = p /\ 1 \in DOMAIN queue
<1>1. PICK i \in DOMAIN queue : /\ queue[i] = p
                               /\ \A j \in 1..(i - 1) : task[queue[j]].lock # task[p].lock
  BY DEF HoldsLock
<1>2. DOMAIN queue = 1..Len(queue) /\ Len(queue) \in Nat
  BY DEF Queue
<1>3. CASE i # 1
  <2>1. 1 \in 1..(i - 1) /\ queue[1] \in Tasks
    BY <1>2, <1>3 DEF Queue
  <2>2. task[queue[1]].lock = 0 /\ task[p].lock = 0
    BY <2>1 DEF Lock
  <2>3. QED
    BY <1>1, <2>1, <2>2
<1>4. QED
  BY <1>1, <1>2, <1>3

-----------------------------------------------------------------------------
(* The steps under the lock *)

\* Drawing.
Draws(p) ==
  /\ HoldsLock(p) /\ DOMAIN task' = Tasks
  /\ \A q \in Tasks :
       /\ IsTask(task'[q])
       /\ task'[q].at = IF q = p THEN "edited" ELSE task[q].at
       /\ task'[q].action = task[q].action /\ task'[q].generation = task[q].generation
       /\ task'[q].then = task[q].then /\ task'[q].vac = task[q].vac
       /\ task'[q].draw = task[q].draw /\ task'[q].lock = task[q].lock
       /\ task'[q].orphan = task[q].orphan
       /\ q # p => task'[q].row = task[q].row
       /\ \/ task'[q].superseded = task[q].superseded
          \/ task[q].at # "idle" /\ Overtakes(p, q)
  /\ IsSession(session') /\ session'.generation = session.generation
  /\ task'[p].row # None => IsRow(task'[p].row)
  /\ task[p].orphan = FALSE => task'[p].row = Snapshot(session')
  /\ rendered \subseteq rendered'
  /\ task[p].draw.screen = "collection" => task[p].draw.vac \in rendered'
  /\ astray \subseteq astray'
  /\ UNCHANGED <<db, queue, sent, before, ends, locks, situation>>

LEMMA DrawnDraws ==
  ASSUME Shape, NEW p \in Tasks, NEW m, NEW answer, HoldsLock(p), Drawn(p, m, answer), m # 0,
         astray \subseteq astray', UNCHANGED <<db, queue, sent, before, ends, locks, situation>>
  PROVE  Draws(p)
<1> DEFINE s == IF task[p].orphan THEN session ELSE [Current EXCEPT !.message = m]
           r == IF s.message = 0 THEN None ELSE Snapshot(s)
           t == [task[p] EXCEPT !.at = "edited", !.answer = answer, !.row = r]
<1>1. /\ session' = s
      /\ rendered' = IF task[p].draw.screen = "collection"
                     THEN rendered \cup {task[p].draw.vac} ELSE rendered
      /\ task' = [q \in Tasks |->
           IF q = p THEN t
           ELSE IF task[q].at # "idle" /\ Cancels(task[p].action) /\ Before(q, p)
           THEN [task[q] EXCEPT !.superseded = TRUE]
           ELSE task[q]]
  BY DEF Drawn
<1>2. Keeps(session, session)
  BY DEF Shape, Keeps
<1>3. Keeps(session, s)
  BY <1>2, CurrentKeeps, SessionKeeps DEF Keeps
<1>4. task[p].orphan = FALSE => r = Snapshot(s)
  <2>1. DOMAIN Current = SessionFields
    BY CurrentKeeps DEF Keeps, IsSession
  <2>2. [Current EXCEPT !.message = m].message = m
    BY <2>1 DEF SessionFields
  <2>3. QED
    BY <2>2
<1>5. r # None => IsRow(r)
  BY DEF Snapshot, IsRow
<1> HIDE DEF s, r
<1>6. /\ IsTask(t) /\ t.at = "edited" /\ t.action = task[p].action
      /\ t.generation = task[p].generation /\ t.then = task[p].then /\ t.vac = task[p].vac
      /\ t.draw = task[p].draw /\ t.lock = task[p].lock /\ t.orphan = task[p].orphan
      /\ t.superseded = task[p].superseded /\ t.row = r
  BY DEF IsTask, TaskFields, Shape
<1> HIDE DEF t
<1>7. DOMAIN task' = Tasks /\ task'[p] = t
  BY <1>1
<1>8. Counted(p)
  BY DEF HoldsLock, Counted
<1>9. ASSUME NEW q \in Tasks, q # p
      PROVE  /\ IsTask(task'[q])
             /\ task'[q].at = task[q].at
             /\ task'[q].action = task[q].action /\ task'[q].generation = task[q].generation
             /\ task'[q].then = task[q].then /\ task'[q].vac = task[q].vac
             /\ task'[q].draw = task[q].draw /\ task'[q].lock = task[q].lock
             /\ task'[q].orphan = task[q].orphan /\ task'[q].row = task[q].row
             /\ \/ task'[q].superseded = task[q].superseded
                \/ task[q].at # "idle" /\ Overtakes(p, q)
  <2>1. CASE task'[q] = task[q]
    BY <2>1 DEF Shape
  <2>2. CASE task[q].at # "idle" /\ Cancels(task[p].action) /\ Before(q, p)
             /\ task'[q] = [task[q] EXCEPT !.superseded = TRUE]
    <3>1. Overtakes(p, q)
      BY <1>8, <2>2 DEF Overtakes
    <3>2. IsTask(task[q])
      BY DEF Shape
    <3>3. QED
      BY <2>2, <3>1, <3>2 DEF IsTask, TaskFields
  <2>3. QED
    BY <1>1, <1>9, <2>1, <2>2
<1>10. QED
  BY <1>1, <1>3, <1>4, <1>5, <1>6, <1>7, <1>9 DEF Draws, Keeps

LEMMA EditDraws ==
  ASSUME Shape, NEW p \in Tasks, Edit(p)
  PROVE  Draws(p)
<1>1. Target(p) # 0
  BY DEF Edit, Missing
<1>2. QED
  BY <1>1, DrawnDraws DEF Edit, past

LEMMA SendDraws ==
  ASSUME Shape, NEW p \in Tasks, Send(p)
  PROVE  Draws(p)
<1>1. PICK m \in Messages : Drawn(p, m, TRUE)
  BY DEF Send
<1>2. m # 0
  BY ScreenAssumption DEF Messages
<1>3. QED
  BY <1>1, <1>2, DrawnDraws DEF Send, past

\* Leaving the lock.
Leaves(p) ==
  /\ Alone(p) /\ IsTask(task'[p]) /\ IsSession(session')
  /\ task[p].at = "edited" \/ HoldsLock(p)
  /\ Leave(p)
  /\ task'[p].at \in {"idle", "working", "wanting", "searching", "marking"}
  /\ task'[p].at = "marking" => task[p].at = "edited" /\ task[p].then = "mark"
                                /\ task'[p].vac = task[p].vac
  /\ SamePosition(session, session') /\ session'.pending = session.pending
  /\ session'.generation >= session.generation
  /\ task'[p].generation \in {0, task[p].generation, session'.generation}
  /\ task'[p].at # "idle" =>
       /\ task'[p].action = task[p].action
       /\ task'[p].superseded = task[p].superseded
       /\ task[p].then # "start" => task'[p].generation = task[p].generation
       /\ task'[p].at = "working" \/ task[p].then = task'[p].at \/ task[p].then = "mark"
  /\ task'[p].lock \in {0, task[p].lock} 
  /\ task'[p].orphan = FALSE /\ task'[p].row \in {None, task[p].row}
  /\ \/ /\ task[p].at = "edited"
        /\ db' = IF task[p].row = None THEN db ELSE task[p].row
     \/ situation.failing /\ db' = db
  /\ UNCHANGED <<hydrated, sent, rendered, before, ends, locks, astray, situation>>

\* What the task, then t, goes on with: the session keeps its place.
Continues(p, t) ==
  /\ Alone(p) /\ IsTask(task'[p]) /\ IsSession(session')
  /\ task'[p].at \in {"idle", "working", "wanting", "searching", "marking"}
  /\ task'[p].at = "marking" =>
       WasRendered(t.answer) /\ t.then = "mark" /\ task'[p].vac = t.vac
  /\ SamePosition(session, session') /\ session'.pending = session.pending
  /\ session'.generation >= session.generation
  /\ task'[p].generation \in {0, t.generation, session'.generation}
  /\ task'[p].at # "idle" =>
       /\ task'[p].action = t.action /\ task'[p].superseded = t.superseded
       /\ t.then # "start" => task'[p].generation = t.generation
       /\ task'[p].at = "working" \/ t.then = task'[p].at \/ t.then = "mark"
  /\ task'[p].lock \in {0, t.lock}
  /\ task'[p].orphan \in {FALSE, t.orphan} /\ task'[p].row \in {None, t.row}

LEMMA ContinueContinues ==
  ASSUME Shape, NEW p \in Tasks, NEW t, IsTask(t), Continue(p, t)
  PROVE  Continues(p, t)
<1>1. IsSession(session)
  BY DEF Shape
<1>2. CASE t.then = "start"
  <2>1. /\ session' = Bumped(session)
        /\ Alone(p)
        /\ task'[p] = [t EXCEPT !.at = "working", !.generation = session.generation + 1]
    BY <1>2 DEF Continue, Become, Alone, Shape
  <2>2. /\ IsSession(session') /\ SamePosition(session, session')
        /\ session'.pending = session.pending
        /\ session'.generation = session.generation + 1
    BY <1>1, <2>1 DEF IsSession, SessionFields, Bumped, SamePosition
  <2>3. /\ IsTask(task'[p]) /\ task'[p].at = "working" /\ task'[p].action = t.action
        /\ task'[p].generation = session.generation + 1
        /\ task'[p].superseded = t.superseded /\ task'[p].lock = t.lock
        /\ task'[p].orphan = t.orphan /\ task'[p].row = t.row
    BY <1>1, <2>1 DEF IsTask, TaskFields, IsSession
  <2>4. QED
    BY <1>1, <1>2, <2>1, <2>2, <2>3 DEF IsSession, Continues
<1>3. CASE t.then # "start" /\ Become(p, Idle) /\ UNCHANGED session
  <2>1. Alone(p) /\ task'[p] = Idle
    BY <1>3 DEF Become, Alone, Shape
  <2>2. /\ IsTask(Idle) /\ Idle.at = "idle" /\ Idle.lock = 0 /\ Idle.orphan = FALSE
        /\ Idle.row = None /\ Idle.generation = 0
    BY DEF IsTask, TaskFields, Idle
  <2>3. /\ IsSession(session') /\ SamePosition(session, session')
        /\ session'.pending = session.pending /\ session'.generation >= session.generation
    BY <1>1, <1>3 DEF IsSession, SamePosition
  <2>4. /\ IsTask(task'[p]) /\ task'[p].at = "idle" /\ task'[p].lock = 0
        /\ task'[p].orphan \in {FALSE, t.orphan} /\ task'[p].row = None
        /\ task'[p].generation = 0
    BY <2>1, <2>2
  <2>5. QED
    BY <2>1, <2>3, <2>4 DEF Continues
<1>4. CASE /\ t.then \in {"working", "wanting", "searching"}
           /\ Become(p, [t EXCEPT !.at = t.then]) /\ UNCHANGED session
  <2>1. Alone(p) /\ task'[p] = [t EXCEPT !.at = t.then]
    BY <1>4 DEF Become, Alone, Shape
  <2>2. /\ IsTask(task'[p]) /\ task'[p].at = t.then /\ task'[p].action = t.action
        /\ task'[p].generation = t.generation
        /\ task'[p].superseded = t.superseded /\ task'[p].lock = t.lock
        /\ task'[p].orphan = t.orphan /\ task'[p].row = t.row
    BY <2>1 DEF IsTask, TaskFields
  <2>3. QED
    BY <1>1, <1>4, <2>1, <2>2 DEF IsSession, SamePosition, Continues
<1>5. CASE /\ t.then = "mark" /\ WasRendered(t.answer)
           /\ Become(p, [t EXCEPT !.at = "marking"]) /\ UNCHANGED session
  <2>1. Alone(p) /\ task'[p] = [t EXCEPT !.at = "marking"]
    BY <1>5 DEF Become, Alone, Shape
  <2>2. /\ IsTask(task'[p]) /\ task'[p].at = "marking" /\ task'[p].action = t.action
        /\ task'[p].generation = t.generation /\ task'[p].vac = t.vac
        /\ task'[p].superseded = t.superseded /\ task'[p].lock = t.lock
        /\ task'[p].orphan = t.orphan /\ task'[p].row = t.row
    BY <2>1 DEF IsTask, TaskFields
  <2>3. QED
    BY <1>1, <1>5, <2>1, <2>2 DEF IsSession, SamePosition, Continues
<1>6. QED
  BY <1>2, <1>3, <1>4, <1>5 DEF Continue

\* _persist, and the task runs on.
LEMMA PersistLeaves ==
  ASSUME Shape, NEW p \in Tasks, Persist(p)
  PROVE  Leaves(p)
<1> DEFINE t == [task[p] EXCEPT !.row = None, !.orphan = FALSE]
<1>1. /\ task[p].at = "edited" /\ IsTask(task[p]) /\ Leave(p) /\ Continue(p, t)
      /\ \/ db' = IF task[p].row = None THEN db ELSE task[p].row
         \/ situation.failing /\ db' = db
      /\ UNCHANGED <<hydrated, sent, rendered, before, ends, locks, astray, situation>>
  BY DEF Persist, Persisted, past, Shape
<1>2. /\ IsTask(t) /\ t.row = None /\ t.orphan = FALSE /\ t.lock = task[p].lock
      /\ t.action = task[p].action /\ t.generation = task[p].generation
      /\ t.superseded = task[p].superseded /\ t.vac = task[p].vac /\ t.then = task[p].then
  BY <1>1 DEF IsTask, TaskFields
<1> HIDE DEF t
<1>3. Continues(p, t)
  BY <1>1, <1>2, ContinueContinues
<1>4. QED
  BY <1>1, <1>2, <1>3 DEF Leaves, Waiting, Continues, WasRendered

LEMMA DrawFailsLeaves ==
  ASSUME Shape, NEW p \in Tasks, DrawFails(p)
  PROVE  Leaves(p)
<1> DEFINE t == [task[p] EXCEPT !.answer = FALSE, !.orphan = FALSE]
<1>1. /\ HoldsLock(p) /\ IsTask(task[p]) /\ Leave(p) /\ Continue(p, t)
      /\ situation.failing /\ db' = db
      /\ UNCHANGED <<hydrated, sent, rendered, before, ends, locks, astray, situation>>
  BY DEF DrawFails, HoldsLock, past, Shape
<1>2. /\ IsTask(t) /\ t.row = task[p].row /\ t.orphan = FALSE /\ t.lock = task[p].lock
      /\ t.action = task[p].action /\ t.generation = task[p].generation
      /\ t.superseded = task[p].superseded /\ t.vac = task[p].vac /\ t.then = task[p].then
      /\ t.answer = FALSE
  BY <1>1 DEF IsTask, TaskFields
<1> HIDE DEF t
<1>3. Continues(p, t)
  BY <1>1, <1>2, ContinueContinues
<1>4. QED
  BY <1>1, <1>2, <1>3 DEF Leaves, Waiting, Continues, WasRendered

-----------------------------------------------------------------------------
(* Shapes, the queue and the lock *)

LEMMA GoesShape ==
  ASSUME Shape, NEW p \in Tasks, RunsOn(p)
  PROVE  Shape'
<1>1. \A q \in Tasks : IsTask(task'[q]) /\ (task'[q].row # None => IsRow(task'[q].row))
  BY DEF Shape, RunsOn, Alone
<1>2. db' # None => IsRow(db')
  BY DEF Shape, RunsOn
<1>3. QED
  BY <1>1, <1>2 DEF Shape, RunsOn, Alone, IsTask, IsSession, IsRow

LEMMA DrawsShape ==
  ASSUME Shape, NEW p \in Tasks, Draws(p)
  PROVE  Shape'
<1>1. \A q \in Tasks : IsTask(task'[q]) /\ (task'[q].row # None => IsRow(task'[q].row))
  BY DEF Shape, Draws
<1>2. QED
  BY <1>1 DEF Shape, Draws, IsTask, IsSession, IsRow

LEMMA LeavesShape ==
  ASSUME Shape, NEW p \in Tasks, Leaves(p)
  PROVE  Shape'
<1>1. \A q \in Tasks : IsTask(task'[q]) /\ (task'[q].row # None => IsRow(task'[q].row))
  BY DEF Shape, Leaves, Alone
<1>2. db' # None => IsRow(db')
  BY DEF Shape, Leaves
<1>3. QED
  BY <1>1, <1>2 DEF Shape, Leaves, Alone, IsTask, IsSession, IsRow

\* A task that starts to wait is appended, ...
LEMMA GoesQueue ==
  ASSUME Queue, NEW p \in Tasks, RunsOn(p)
  PROVE  Queue'
<1>1. CASE task'[p].at \notin Waiting /\ queue' = queue
  <2>1. \A q \in Tasks : task'[q].at \in Waiting <=> task[q].at \in Waiting
    BY <1>1 DEF RunsOn, Alone
  <2>2. QED
    BY <1>1, <2>1 DEF Queue, InQueue
<1>2. CASE task'[p].at = "queued" /\ queue' = Append(queue, p)
  <2> DEFINE n == Len(queue)
  <2>1. /\ queue' \in Seq(Tasks)
        /\ DOMAIN queue' = 1..(n + 1) /\ DOMAIN queue = 1..n /\ n \in Nat
        /\ \A i \in 1..n : queue'[i] = queue[i]
        /\ queue'[n + 1] = p
    BY <1>2, AppendQueue DEF Queue
  <2> HIDE DEF n
  <2>2. \A i \in 1..n : queue[i] # p
    BY <2>1 DEF RunsOn, Queue, InQueue
  <2>3. ASSUME NEW i \in 1..(n + 1), NEW j \in 1..(n + 1), queue'[i] = queue'[j]
        PROVE  i = j
    <3>1. CASE i = n + 1 /\ j # n + 1
      BY <2>1, <2>2, <2>3, <3>1
    <3>2. CASE j = n + 1 /\ i # n + 1
      BY <2>1, <2>2, <2>3, <3>2
    <3>3. CASE i # n + 1 /\ j # n + 1
      BY <2>1, <2>3, <3>3 DEF Queue
    <3>4. QED
      BY <3>1, <3>2, <3>3
  <2>4. ASSUME NEW q \in Tasks
        PROVE  (\E i \in 1..(n + 1) : queue'[i] = q) <=> task'[q].at \in Waiting
    <3>1. CASE q = p
      BY <1>2, <2>1, <3>1 DEF Waiting
    <3>2. CASE q # p
      <4>1. task'[q] = task[q]
        BY <3>2 DEF RunsOn, Alone
      <4>2. (\E i \in 1..(n + 1) : queue'[i] = q) <=> \E i \in 1..n : queue[i] = q
        BY <2>1, <3>2
      <4>3. QED
        BY <2>1, <4>1, <4>2 DEF Queue, InQueue
    <3>3. QED
      BY <3>1, <3>2
  <2>5. QED
    BY <2>1, <2>3, <2>4 DEF Queue, InQueue
<1>3. QED
  BY <1>1, <1>2 DEF RunsOn

\* ... one that draws keeps its place, ...
LEMMA DrawsQueue ==
  ASSUME Queue, NEW p \in Tasks, Draws(p)
  PROVE  Queue'
<1>1. \A q \in Tasks : task'[q].at \in Waiting <=> task[q].at \in Waiting
  BY DEF Draws, HoldsLock, Waiting
<1>2. QED
  BY <1>1 DEF Queue, InQueue, Draws

\* ... and one that is done leaves.
LEMMA LeavesQueue ==
  ASSUME Queue, NEW p \in Tasks, Leaves(p)
  PROVE  Queue'
<1>1. InQueue(p)
  BY DEF Leaves, Queue, Waiting, HoldsLock
<1>2. PICK at \in DOMAIN queue : queue[at] = p
  BY <1>1 DEF InQueue
<1>3. /\ queue' = Without(queue, p) /\ queue \in Seq(Tasks)
      /\ \A i, j \in DOMAIN queue : queue[i] = queue[j] => i = j
  BY DEF Queue, Leaves, Leave
<1>4. queue' \in Seq(Tasks)
  BY <1>2, <1>3, WithoutOne
<1>5. /\ \A i, j \in DOMAIN queue' : queue'[i] = queue'[j] => i = j
      /\ \A x : (\E i \in DOMAIN queue' : queue'[i] = x)
                <=> x # p /\ \E i \in DOMAIN queue : queue[i] = x
  <2> DEFINE w == Without(queue, p)
  <2>1. /\ \A i, j \in DOMAIN w : w[i] = w[j] => i = j
        /\ \A x : (\E i \in DOMAIN w : w[i] = x)
                  <=> x # p /\ \E i \in DOMAIN queue : queue[i] = x
    <3>1. \E i \in DOMAIN queue : queue[i] = p
      BY <1>2
    <3>2. QED
      BY <1>3, <3>1, WithoutQueue
  <2> HIDE DEF w
  <2>2. queue' = w
    BY <1>3 DEF w
  <2>3. QED
    BY <2>1, <2>2
<1>6. ASSUME NEW q \in Tasks
      PROVE  InQueue(q)' <=> task'[q].at \in Waiting
  <2>1. InQueue(q)' <=> q # p /\ InQueue(q)
    BY <1>5 DEF InQueue
  <2>2. CASE q = p
    BY <2>1, <2>2 DEF Leaves, Waiting
  <2>3. CASE q # p
    <3>1. task'[q] = task[q]
      BY <2>3 DEF Leaves, Alone
    <3>2. InQueue(q) <=> task[q].at \in Waiting
      BY DEF Queue
    <3>3. QED
      BY <2>1, <2>3, <3>1, <3>2
  <2>4. QED
    BY <2>2, <2>3
<1>7. QED
  BY <1>4, <1>5, <1>6 DEF Queue

\* The first of the queue stays the first while it draws.
LEMMA GoesLock ==
  ASSUME Queue, Lock, NEW p \in Tasks, RunsOn(p)
  PROVE  Lock'
<1>1. (ends' = 0 => locks' = 0) /\ locks' = locks
  BY DEF Lock, RunsOn
<1>2. ASSUME locks = 0, NEW q \in Tasks
      PROVE  /\ task'[q].lock = 0 /\ task'[q].orphan = FALSE
             /\ task'[q].at = "edited" => queue'[1] = q
  <2>1. CASE q = p
    BY <1>2, <2>1 DEF Lock, RunsOn, Waiting
  <2>2. CASE q # p
    <3>1. task'[q] = task[q]
      BY <2>2 DEF RunsOn, Alone
    <3>2. task[q].lock = 0 /\ task[q].orphan = FALSE
      BY <1>2 DEF Lock
    <3>3. ASSUME task[q].at = "edited"
          PROVE  queue'[1] = q
      <4>1. queue[1] = q /\ 1 \in DOMAIN queue
        <5>1. InQueue(q)
          BY <3>3 DEF Queue, Waiting
        <5>2. 1 \in DOMAIN queue
          BY <5>1 DEF InQueue, Queue
        <5>3. QED
          BY <1>2, <3>3, <5>2 DEF Lock
      <4>2. queue' = queue \/ queue' = Append(queue, p)
        BY DEF RunsOn
      <4>3. QED
        BY <4>1, <4>2, AppendQueue DEF Queue
    <3>4. QED
      BY <3>1, <3>2, <3>3
  <2>3. QED
    BY <2>1, <2>2
<1>3. QED
  BY <1>1, <1>2 DEF Lock

LEMMA DrawsLock ==
  ASSUME Queue, Lock, NEW p \in Tasks, Draws(p)
  PROVE  Lock'
<1>1. (ends' = 0 => locks' = 0) /\ locks' = locks /\ queue' = queue
  BY DEF Lock, Draws
<1>2. ASSUME locks = 0, NEW q \in Tasks
      PROVE  /\ task'[q].lock = 0 /\ task'[q].orphan = FALSE
             /\ task'[q].at = "edited" => queue[1] = q
  <2>1. queue[1] = p
    BY <1>2, Holder DEF Draws
  <2>2. QED
    BY <1>2, <2>1 DEF Lock, Draws
<1>3. QED
  BY <1>1, <1>2 DEF Lock

\* Who leaves was the first, while the chat has one lock.
LEMMA LeavesFirst ==
  ASSUME Queue, Lock, locks = 0, NEW p \in Tasks, Leaves(p)
  PROVE  /\ queue[1] = p
         /\ \A q \in Tasks : q # p => task[q].at # "edited"
<1>1. queue[1] = p
  BY Holder DEF Leaves, Lock
<1>2. QED
  BY <1>1 DEF Lock

LEMMA LeavesLock ==
  ASSUME Queue, Lock, NEW p \in Tasks, Leaves(p)
  PROVE  Lock'
<1>1. (ends' = 0 => locks' = 0) /\ locks' = locks
  BY DEF Lock, Leaves
<1>2. ASSUME locks = 0, NEW q \in Tasks
      PROVE  /\ task'[q].lock = 0 /\ task'[q].orphan = FALSE
             /\ task'[q].at # "edited"
  BY <1>2, LeavesFirst DEF Lock, Leaves, Alone
<1>3. QED
  BY <1>1, <1>2 DEF Lock

-----------------------------------------------------------------------------
(* Marking, and the path of a handler *)

LEMMA GoesMarking ==
  ASSUME Marking, NEW p \in Tasks, RunsOn(p), Marks(p)
  PROVE  Marking'
<1>1. sent' \subseteq rendered /\ rendered' = rendered
  BY DEF Marking, Marks, RunsOn
<1>2. ASSUME NEW q \in Tasks
      PROVE  /\ task'[q].at = "queued" /\ task'[q].then = "mark"
                  => task'[q].draw = Card(task'[q].vac)
             /\ task'[q].at = "edited" /\ task'[q].then = "mark" => task'[q].vac \in rendered
             /\ task'[q].at = "marking" => task'[q].vac \in rendered
  <2>1. CASE q = p
    BY <2>1 DEF Marks, RunsOn, Waiting
  <2>2. CASE q # p
    BY <2>2 DEF Marking, RunsOn, Alone
  <2>3. QED
    BY <2>1, <2>2
<1>3. QED
  BY <1>1, <1>2 DEF Marking, Card, PageOf

LEMMA DrawsMarking ==
  ASSUME Marking, NEW p \in Tasks, Draws(p)
  PROVE  Marking'
<1>1. sent' \subseteq rendered'
  BY DEF Marking, Draws
<1>2. ASSUME task[p].then = "mark"
      PROVE  task[p].vac \in rendered'
  <2>1. task[p].at = "queued"
    BY DEF Draws, HoldsLock
  <2>2. task[p].draw = Card(task[p].vac)
    BY <1>2, <2>1 DEF Marking
  <2>3. task[p].draw.screen = "collection" /\ task[p].draw.vac = task[p].vac
    BY <2>2 DEF Card, PageOf
  <2>4. QED
    BY <2>3 DEF Draws
<1>3. ASSUME NEW q \in Tasks
      PROVE  /\ task'[q].at = "queued" /\ task'[q].then = "mark"
                  => task'[q].draw = Card(task'[q].vac)
             /\ task'[q].at = "edited" /\ task'[q].then = "mark" => task'[q].vac \in rendered'
             /\ task'[q].at = "marking" => task'[q].vac \in rendered'
  <2>1. CASE q = p
    BY <1>2, <2>1 DEF Draws
  <2>2. CASE q # p
    BY <2>2 DEF Marking, Draws
  <2>3. QED
    BY <2>1, <2>2
<1>4. QED
  BY <1>1, <1>3 DEF Marking, Card, PageOf

LEMMA LeavesMarking ==
  ASSUME Marking, NEW p \in Tasks, Leaves(p)
  PROVE  Marking'
<1>1. sent' = sent /\ rendered' = rendered
  BY DEF Leaves
<1>2. ASSUME NEW q \in Tasks
      PROVE  /\ task'[q].at = "queued" /\ task'[q].then = "mark"
                  => task'[q].draw = Card(task'[q].vac)
             /\ task'[q].at = "edited" /\ task'[q].then = "mark" => task'[q].vac \in rendered
             /\ task'[q].at = "marking" => task'[q].vac \in rendered
  <2>1. CASE q = p
    BY <2>1 DEF Leaves, Marking
  <2>2. CASE q # p
    BY <2>2 DEF Marking, Leaves, Alone
  <2>3. QED
    BY <2>1, <2>2
<1>3. QED
  BY <1>1, <1>2 DEF Marking, Card, PageOf

LEMMA GoesPath ==
  ASSUME Path, NEW p \in Tasks, RunsOn(p), Moves(p)
  PROVE  Path'
<1>1. ASSUME NEW q \in Tasks
      PROVE  /\ task'[q].at \in Waiting /\ task'[q].then = "start" => task'[q].action = "prepare"
             /\ task'[q].at # "idle" /\ task'[q].action = "submit" =>
                  /\ task'[q].at \in {"hydrating", "queued", "edited", "working"}
                  /\ task'[q].at \in Waiting => task'[q].then \in {"working", "end"}
  <2>1. CASE q = p
    BY <2>1 DEF Moves, RunsOn
  <2>2. CASE q # p
    BY <2>2 DEF Path, Submits, RunsOn, Alone
  <2>3. QED
    BY <2>1, <2>2
<1>2. QED
  BY <1>1 DEF Path, Submits

LEMMA DrawsPath ==
  ASSUME Path, NEW p \in Tasks, Draws(p)
  PROVE  Path'
<1>1. ASSUME NEW q \in Tasks
      PROVE  /\ task'[q].at \in Waiting /\ task'[q].then = "start" => task'[q].action = "prepare"
             /\ task'[q].at # "idle" /\ task'[q].action = "submit" =>
                  /\ task'[q].at \in {"hydrating", "queued", "edited", "working"}
                  /\ task'[q].at \in Waiting => task'[q].then \in {"working", "end"}
  BY DEF Path, Submits, Draws, HoldsLock, Waiting
<1>2. QED
  BY <1>1 DEF Path, Submits

LEMMA LeavesPath ==
  ASSUME Path, NEW p \in Tasks, Leaves(p)
  PROVE  Path'
<1>1. ASSUME NEW q \in Tasks
      PROVE  /\ task'[q].at \in Waiting /\ task'[q].then = "start" => task'[q].action = "prepare"
             /\ task'[q].at # "idle" /\ task'[q].action = "submit" =>
                  /\ task'[q].at \in {"hydrating", "queued", "edited", "working"}
                  /\ task'[q].at \in Waiting => task'[q].then \in {"working", "end"}
  <2>1. CASE q = p
    <3>1. task'[p].at \notin Waiting
      BY DEF Leaves, Waiting
    <3>2. ASSUME task'[p].at # "idle", task'[p].action = "submit"
          PROVE  task'[p].at = "working"
      <4>1. task[p].action = "submit" /\ task[p].at # "idle" /\ task[p].at \in Waiting
        BY <3>2 DEF Leaves, Waiting, HoldsLock
      <4>2. task[p].then \in {"working", "end"}
        BY <4>1 DEF Path, Submits
      <4>3. QED
        BY <3>2, <4>2 DEF Leaves
    <3>3. QED
      BY <2>1, <3>1, <3>2
  <2>2. CASE q # p
    BY <2>2 DEF Path, Submits, Leaves, Alone
  <2>3. QED
    BY <2>1, <2>2
<1>2. QED
  BY <1>1 DEF Path, Submits

-----------------------------------------------------------------------------
(* The generation and the queue keep a late result from being drawn *)

\* What Generations says of q, and of q and a later p.
Behind(q) == task[q].superseded => session.generation > task[q].generation /\ ~Ending(q)
Outrun(p, q) ==
  Overtakes(p, q) =>
    /\ session.generation > task[q].generation
    /\ Ending(q) /\ task[p].at \in Waiting => Ahead(q, p)

LEMMA GoesAhead ==
  ASSUME Queue, NEW p \in Tasks, RunsOn(p), NEW q \in Tasks
  PROVE  /\ \A r \in Tasks : Ahead(q, r) => Ahead(q, r)'
         /\ q # p /\ task[q].at \in Waiting /\ task'[p].at \in Waiting => Ahead(q, p)'
<1> DEFINE n == Len(queue)
<1>1. CASE queue' = queue /\ task'[p].at \notin Waiting
  BY <1>1 DEF Ahead
<1>2. CASE queue' = Append(queue, p)
  <2>1. /\ DOMAIN queue' = 1..(n + 1) /\ DOMAIN queue = 1..n /\ n \in Nat
        /\ \A i \in 1..n : queue'[i] = queue[i]
        /\ queue'[n + 1] = p
    BY <1>2, AppendQueue DEF Queue
  <2> HIDE DEF n
  <2>2. \A r \in Tasks : Ahead(q, r) => Ahead(q, r)'
    <3>1. 1..n \subseteq 1..(n + 1)
      BY <2>1
    <3>2. QED
      BY <2>1, <3>1 DEF Ahead
  <2>3. ASSUME task[q].at \in Waiting
        PROVE  Ahead(q, p)'
    <3>1. PICK i \in 1..n : queue[i] = q
      BY <2>1, <2>3 DEF Queue, InQueue
    <3>2. i \in 1..(n + 1) /\ n + 1 \in 1..(n + 1) /\ i < n + 1
      BY <2>1
    <3>3. QED
      BY <2>1, <3>1, <3>2 DEF Ahead
  <2>4. QED
    BY <2>2, <2>3
<1>3. QED
  BY <1>1, <1>2 DEF RunsOn

LEMMA GoesGenerations ==
  ASSUME Shape, Queue, Path, Generations, NEW p \in Tasks, RunsOn(p), Moves(p), Starts(p)
  PROVE  Generations'
<1> SUFFICES ASSUME ends = 0
             PROVE  \A q \in Tasks :
                      /\ task'[q].generation <= session'.generation
                      /\ Submits(q)' => Behind(q)' /\ \A r \in Tasks : Outrun(r, q)'
  BY DEF Generations, RunsOn, Behind, Outrun
<1>1. /\ session.generation \in Nat /\ session'.generation \in Nat
      /\ session'.generation >= session.generation
      /\ \A q \in Tasks : task[q].generation \in Nat
  BY DEF Shape, IsSession, IsTask, RunsOn, Moves
<1>2. \A q \in Tasks : q # p => task'[q] = task[q]
  BY DEF RunsOn, Alone
<1>3. \A q \in Tasks : task[q].generation <= session.generation
  BY DEF Generations
<1>4. \A q \in Tasks : Submits(q) => Behind(q) /\ \A r \in Tasks : Outrun(r, q)
  BY DEF Generations, Behind, Outrun
<1>5. ASSUME NEW q \in Tasks
      PROVE  task'[q].generation <= session'.generation
  <2>1. CASE q = p
    BY <1>1, <1>3, <2>1 DEF Moves
  <2>2. CASE q # p
    BY <1>1, <1>2, <1>3, <2>2
  <2>3. QED
    BY <2>1, <2>2
<1>6. ASSUME NEW q \in Tasks, q # p, Submits(q)'
      PROVE  Behind(q)' /\ \A r \in Tasks : Outrun(r, q)'
  <2>1. /\ task'[q] = task[q] /\ Submits(q)
        /\ Behind(q) /\ \A r \in Tasks : Outrun(r, q)
    BY <1>2, <1>4, <1>6 DEF Submits
  <2>2. Behind(q)'
    BY <1>1, <2>1 DEF Behind, Ending
  <2>3. ASSUME NEW r \in Tasks, r # p
        PROVE  Outrun(r, q)'
    <3>1. task'[r] = task[r]
      BY <1>2, <2>3
    <3>2. Overtakes(r, q)' => Overtakes(r, q)
      BY <2>3, <3>1 DEF Overtakes, Counted, Starts
    <3>3. Ahead(q, r) => Ahead(q, r)'
      BY GoesAhead
    <3>4. QED
      BY <1>1, <2>1, <3>1, <3>2, <3>3 DEF Outrun, Ending
  <2>4. Outrun(p, q)'
    <3>1. SUFFICES ASSUME Overtakes(p, q)'
                   PROVE  /\ session'.generation > task[q].generation
                          /\ Ending(q)' /\ task'[p].at \in Waiting => Ahead(q, p)'
      BY <2>1 DEF Outrun
    <3>2. Ending(q)' /\ task'[p].at \in Waiting => Ahead(q, p)'
      BY <1>6, <2>1, GoesAhead DEF Ending
    <3>3. session'.generation > task[q].generation
      <4>1. CASE Counted(p)
        <5>1. Overtakes(p, q)
          BY <3>1, <4>1 DEF Overtakes, Counted, Starts, Moves
        <5>2. QED
          BY <1>1, <2>1, <5>1 DEF Outrun
      <4>2. CASE ~Counted(p)
        <5>1. session'.generation > session.generation
          BY <3>1, <4>2 DEF Overtakes, Moves
        <5>2. QED
          BY <1>1, <1>3, <5>1
      <4>3. QED
        BY <4>1, <4>2
    <3>4. QED
      BY <3>2, <3>3
  <2>5. QED
    BY <2>2, <2>3, <2>4
<1>7. ASSUME Submits(p)'
      PROVE  Behind(p)' /\ \A r \in Tasks : Outrun(r, p)'
  <2>1. CASE task[p].at = "idle"
    <3>1. task'[p].superseded = FALSE /\ \A r \in Tasks : ~Before(p, r)'
      BY <1>7, <2>1 DEF Submits, Moves, Starts
    <3>2. QED
      BY <3>1 DEF Behind, Outrun, Overtakes
  <2>2. CASE task[p].at # "idle"
    <3>1. /\ Submits(p) /\ Behind(p) /\ \A r \in Tasks : Outrun(r, p)
          /\ task'[p].superseded = task[p].superseded
          /\ task'[p].generation = task[p].generation /\ task'[p].action = task[p].action
      BY <1>4, <1>7, <2>2 DEF Submits, Moves
    <3>2. Ending(p)' => session.generation = task[p].generation
      BY <1>7 DEF Ending, Submits, Moves, RunsOn, Waiting
    <3>3. Behind(p)'
      BY <1>1, <3>1, <3>2 DEF Behind
    <3>4. ASSUME NEW r \in Tasks
          PROVE  Outrun(r, p)'
      <4>1. Overtakes(r, p)' => Overtakes(r, p)
        <5>1. CASE r = p
          BY <2>2, <3>1, <5>1 DEF Overtakes, Counted, Starts, Submits
        <5>2. CASE r # p
          BY <1>2, <5>2 DEF Overtakes, Counted, Starts
        <5>3. QED
          BY <5>1, <5>2
      <4>2. QED
        BY <1>1, <3>1, <3>2, <4>1 DEF Outrun
    <3>5. QED
      BY <3>3, <3>4
  <2>3. QED
    BY <2>1, <2>2
<1>8. QED
  BY <1>5, <1>6, <1>7

LEMMA DrawsGenerations ==
  ASSUME Shape, Queue, Lock, Generations, NEW p \in Tasks, Draws(p)
  PROVE  Generations'
<1> SUFFICES ASSUME ends = 0
             PROVE  \A q \in Tasks :
                      /\ task'[q].generation <= session'.generation
                      /\ Submits(q)' => Behind(q)' /\ \A r \in Tasks : Outrun(r, q)'
  BY DEF Generations, Draws, Behind, Outrun
<1>1. session'.generation = session.generation /\ queue' = queue /\ before' = before
  BY DEF Draws
<1>2. \A q \in Tasks : /\ task'[q].generation = task[q].generation
                       /\ task'[q].action = task[q].action /\ task'[q].then = task[q].then
                       /\ task'[q].at \in Waiting <=> task[q].at \in Waiting
                       /\ Submits(q)' <=> Submits(q)
                       /\ Ending(q)' <=> Ending(q)
                       /\ Counted(q)' <=> Counted(q)
  BY DEF Draws, HoldsLock, Waiting, Submits, Ending, Counted
<1>3. \A q \in Tasks : Submits(q) => Behind(q) /\ \A r \in Tasks : Outrun(r, q)
  BY DEF Generations, Behind, Outrun
<1>4. ASSUME NEW q \in Tasks, Submits(q)
      PROVE  Behind(q)'
  <2>1. CASE task'[q].superseded = task[q].superseded
    BY <1>1, <1>2, <1>3, <1>4, <2>1 DEF Behind
  <2>2. CASE Overtakes(p, q)
    <3>1. task[p].at \in Waiting
      BY DEF Draws, HoldsLock, Waiting
    <3>2. /\ session.generation > task[q].generation
          /\ Ending(q) => Ahead(q, p)
      BY <1>3, <1>4, <2>2, <3>1 DEF Outrun
    <3>3. ~Ahead(q, p)
      <4>1. /\ queue[1] = p /\ 1 \in DOMAIN queue
            /\ \A i \in DOMAIN queue : queue[i] = p => i = 1
        <5>1. HoldsLock(p) /\ locks = 0
          BY DEF Draws, Lock
        <5>2. queue[1] = p /\ 1 \in DOMAIN queue
          BY <5>1, Holder
        <5>3. QED
          BY <5>2 DEF Queue
      <4>2. DOMAIN queue = 1..Len(queue) /\ Len(queue) \in Nat
        BY DEF Queue
      <4>3. QED
        BY <4>1, <4>2 DEF Ahead
    <3>4. QED
      BY <1>1, <1>2, <3>2, <3>3 DEF Behind
  <2>3. QED
    BY <2>1, <2>2 DEF Draws
<1>5. ASSUME NEW q \in Tasks, Submits(q), NEW r \in Tasks
      PROVE  Outrun(r, q)'
  <2>1. Overtakes(r, q)' <=> Overtakes(r, q)
    BY <1>1, <1>2 DEF Overtakes, Before
  <2>2. Ahead(q, r)' <=> Ahead(q, r)
    BY <1>1 DEF Ahead
  <2>3. QED
    BY <1>1, <1>2, <1>3, <1>5, <2>1, <2>2 DEF Outrun
<1>6. \A q \in Tasks : task'[q].generation <= session'.generation
  BY <1>1, <1>2 DEF Generations
<1>7. QED
  BY <1>2, <1>4, <1>5, <1>6

\* Who stays keeps its place behind who stays.
LEMMA LeavesAhead ==
  ASSUME Queue, Lock, locks = 0, NEW p \in Tasks, Leaves(p), NEW q \in Tasks, NEW r \in Tasks,
         q # p, Ahead(q, r)
  PROVE  Ahead(q, r)'
<1> DEFINE n == Len(queue) - 1
<1>1. /\ queue \in Seq(Tasks) /\ queue' = Without(queue, p)
      /\ \A i, j \in DOMAIN queue : queue[i] = queue[j] => i = j
  BY DEF Queue, Leaves, Leave
<1>2. PICK i \in DOMAIN queue, j \in DOMAIN queue : i < j /\ queue[i] = q /\ queue[j] = r
  BY DEF Ahead
<1>3. Len(queue) \in Nat /\ DOMAIN queue = 1..Len(queue)
  BY <1>1
<1>4. queue[1] = p /\ 1 \in DOMAIN queue
  BY <1>2, <1>3, LeavesFirst
<1>5. /\ DOMAIN Without(queue, p) = 1..n
      /\ \A k \in 1..n : Without(queue, p)[k] = IF k < 1 THEN queue[k] ELSE queue[k + 1]
  BY <1>1, <1>4, WithoutOne
<1>6. DOMAIN queue' = 1..n /\ \A k \in 1..n : queue'[k] = queue[k + 1]
  BY <1>1, <1>3, <1>5
<1>7. i # 1
  BY <1>2, <1>4
<1>8. /\ i - 1 \in 1..n /\ j - 1 \in 1..n /\ i - 1 < j - 1
      /\ (i - 1) + 1 = i /\ (j - 1) + 1 = j
  BY <1>2, <1>3, <1>7
<1>9. queue'[i - 1] = q /\ queue'[j - 1] = r
  BY <1>2, <1>6, <1>8
<1>10. QED
  BY <1>6, <1>8, <1>9 DEF Ahead

LEMMA LeavesGenerations ==
  ASSUME Shape, Queue, Lock, Path, Generations, NEW p \in Tasks, Leaves(p)
  PROVE  Generations'
<1> SUFFICES ASSUME ends = 0
             PROVE  \A q \in Tasks :
                      /\ task'[q].generation <= session'.generation
                      /\ Submits(q)' => Behind(q)' /\ \A r \in Tasks : Outrun(r, q)'
  BY DEF Generations, Leaves, Behind, Outrun
<1>1. /\ session.generation \in Nat /\ session'.generation \in Nat
      /\ session'.generation >= session.generation /\ before' = before
      /\ \A q \in Tasks : task[q].generation \in Nat
  BY DEF Shape, IsSession, IsTask, Leaves
<1>2. \A q \in Tasks : q # p => task'[q] = task[q]
  BY DEF Leaves, Alone
<1>3. \A q \in Tasks : task[q].generation <= session.generation
  BY DEF Generations
<1>4. \A q \in Tasks : Submits(q) => Behind(q) /\ \A r \in Tasks : Outrun(r, q)
  BY DEF Generations, Behind, Outrun
<1>5. task[p].at \in Waiting /\ task'[p].at \notin Waiting /\ Counted(p)
  BY DEF Leaves, HoldsLock, Waiting, Counted
<1>6. ASSUME NEW q \in Tasks
      PROVE  task'[q].generation <= session'.generation
  <2>1. CASE q = p
    BY <1>1, <1>3, <2>1 DEF Leaves
  <2>2. CASE q # p
    BY <1>1, <1>2, <1>3, <2>2
  <2>3. QED
    BY <2>1, <2>2
<1>7. ASSUME NEW q \in Tasks, Submits(q)'
      PROVE  /\ Submits(q) /\ task'[q].generation = task[q].generation
             /\ task'[q].superseded = task[q].superseded
             /\ Ending(q)' => Ending(q) /\ q # p
  <2>1. CASE q = p
    <3>1. Submits(p) /\ task'[p].superseded = task[p].superseded
      BY <1>5, <1>7, <2>1 DEF Submits, Leaves, Waiting
    <3>2. task[p].then # "start"
      BY <1>5, <3>1 DEF Path, Submits
    <3>3. task'[p].generation = task[p].generation
      BY <1>7, <2>1, <3>2 DEF Submits, Leaves
    <3>4. QED
      BY <1>5, <2>1, <3>1, <3>3 DEF Ending
  <2>2. CASE q # p
    BY <1>2, <1>7, <2>2 DEF Submits, Ending
  <2>3. QED
    BY <2>1, <2>2
<1>8. ASSUME NEW q \in Tasks, Submits(q)'
      PROVE  Behind(q)'
  BY <1>1, <1>4, <1>7, <1>8 DEF Behind
<1>9. ASSUME NEW q \in Tasks, Submits(q)', NEW r \in Tasks
      PROVE  Outrun(r, q)'
  <2>1. SUFFICES ASSUME Overtakes(r, q)'
                 PROVE  /\ session'.generation > task'[q].generation
                        /\ Ending(q)' /\ task'[r].at \in Waiting => Ahead(q, r)'
    BY DEF Outrun
  <2>2. Overtakes(r, q)
    <3>1. CASE r = p
      BY <1>1, <1>5, <2>1, <3>1 DEF Overtakes, Counted, Leaves, Before
    <3>2. CASE r # p
      BY <1>1, <1>2, <2>1, <3>2 DEF Overtakes, Counted, Before
    <3>3. QED
      BY <3>1, <3>2
  <2>3. /\ session.generation > task[q].generation
        /\ Ending(q) /\ task[r].at \in Waiting => Ahead(q, r)
    BY <1>4, <1>7, <1>9, <2>2 DEF Outrun
  <2>4. task'[r].at \in Waiting => task[r].at \in Waiting
    BY <1>2, <1>5
  <2>5. Ending(q)' /\ task'[r].at \in Waiting => Ahead(q, r)'
    BY <1>7, <1>9, <2>3, <2>4, LeavesAhead DEF Lock
  <2>6. session'.generation > task'[q].generation
    BY <1>1, <1>7, <1>9, <2>3
  <2>7. QED
    BY <2>5, <2>6
<1>10. QED
  BY <1>6, <1>8, <1>9

-----------------------------------------------------------------------------
(* The row keeps what was drawn *)

LEMMA MatchMoves ==
  ASSUME NEW r, NEW s, NEW n, SamePosition(s, n), Match(r, s)
  PROVE  Match(r, n)
<1>1. [Snapshot(n) EXCEPT !.pending = None] = [Snapshot(s) EXCEPT !.pending = None]
  BY DEF Snapshot, SamePosition
<1>2. QED
  BY <1>1 DEF Match

LEMMA GoesKept ==
  ASSUME Queue, Kept, NEW p \in Tasks, RunsOn(p), Debts(p)
  PROVE  Kept'
<1> SUFFICES ASSUME NoneIsNoRow, Orderly', "position" \notin astray', hydrated',
                    session'.message # 0,
                    \A q \in Tasks : ~Owing(q)'
             PROVE  /\ \A q \in Tasks : task'[q].at = "edited" => Match(task'[q].row, session')
                    /\ (\A q \in Tasks : task'[q].at # "edited") => Match(db', session')
  BY DEF Kept, Match
<1>1. \A q \in Tasks : q # p => task'[q] = task[q]
  BY DEF RunsOn, Alone
<1>2. task[p].at # "edited" /\ task'[p].at # "edited"
  BY DEF RunsOn, Waiting
<1>3. Orderly
  BY DEF Orderly, RunsOn
<1>4. CASE /\ hydrated /\ ~Owing(p) /\ "position" \notin astray
           /\ SamePosition(session, session') /\ db' = db
  <2>1. \A q \in Tasks : ~Owing(q)
    BY <1>1, <1>4 DEF Owing
  <2>2. session.message # 0
    BY <1>4 DEF SamePosition
  <2>3. /\ \A q \in Tasks : task[q].at = "edited" => Match(task[q].row, session)
        /\ (\A q \in Tasks : task[q].at # "edited") => Match(db, session)
    BY <1>3, <1>4, <2>1, <2>2 DEF Kept
  <2>4. ASSUME NEW q \in Tasks, task'[q].at = "edited"
        PROVE  Match(task'[q].row, session')
    <3>1. task'[q] = task[q]
      BY <1>1, <1>2, <2>4
    <3>2. QED
      BY <1>4, <2>3, <2>4, <3>1, MatchMoves
  <2>5. ASSUME \A q \in Tasks : task'[q].at # "edited"
        PROVE  Match(db', session')
    <3>1. \A q \in Tasks : task[q].at # "edited"
      BY <1>1, <1>2, <2>5
    <3>2. QED
      BY <1>4, <2>3, <3>1, MatchMoves
  <2>6. QED
    BY <2>4, <2>5
<1>5. CASE queue = <<>> /\ db' = db /\ Match(db, session')
  <2>1. \A q \in Tasks : task[q].at # "edited"
    BY <1>5 DEF Queue, InQueue, Waiting
  <2>2. QED
    BY <1>1, <1>2, <1>5, <2>1
<1>6. QED
  BY <1>3, <1>4, <1>5 DEF Debts

LEMMA DrawsKept ==
  ASSUME Queue, Lock, NEW p \in Tasks, Draws(p)
  PROVE  Kept'
<1> SUFFICES ASSUME NoneIsNoRow, Orderly'
             PROVE  /\ \A q \in Tasks : task'[q].at = "edited" => Match(task'[q].row, session')
                    /\ \E q \in Tasks : task'[q].at = "edited"
  BY DEF Kept, Match
<1>1. locks = 0 /\ HoldsLock(p)
  BY DEF Orderly, Draws
<1>2. queue[1] = p
  BY <1>1, Holder
<1>3. task'[p].row = Snapshot(session')
  BY <1>1 DEF Draws, Lock
<1>4. Match(task'[p].row, session')
  BY <1>3 DEF Match, NoneIsNoRow
<1>5. \A q \in Tasks : q # p => task'[q].at # "edited"
  BY <1>1, <1>2 DEF Lock, Draws
<1>6. task'[p].at = "edited"
  BY DEF Draws
<1>7. QED
  BY <1>4, <1>5, <1>6

LEMMA LeavesKept ==
  ASSUME Queue, Lock, Kept, NEW p \in Tasks, Leaves(p)
  PROVE  Kept'
<1> SUFFICES ASSUME NoneIsNoRow, Orderly', "position" \notin astray', hydrated',
                    session'.message # 0,
                    \A q \in Tasks : ~Owing(q)'
             PROVE  /\ \A q \in Tasks : task'[q].at # "edited"
                    /\ Match(db', session')
  BY DEF Kept, Match
<1>1. \A q \in Tasks : q # p => task'[q] = task[q]
  BY DEF Leaves, Alone
<1>2. Orderly /\ "position" \notin astray /\ hydrated /\ session.message # 0
  BY DEF Orderly, Leaves, SamePosition
<1>3. task[p].at = "edited" /\ db' = IF task[p].row = None THEN db ELSE task[p].row
  BY <1>2 DEF Leaves, Orderly
<1>4. \A q \in Tasks : ~Owing(q)
  BY <1>1, <1>3 DEF Owing
<1>5. Match(task[p].row, session)
  BY <1>2, <1>3, <1>4 DEF Kept
<1>6. Match(db', session')
  BY <1>3, <1>5, MatchMoves DEF Match, Leaves
<1>7. \A q \in Tasks : task'[q].at # "edited"
  BY <1>1, <1>2, LeavesFirst DEF Leaves, Orderly
<1>8. QED
  BY <1>6, <1>7

-----------------------------------------------------------------------------
(* The invariant *)

IInv == Shape /\ Queue /\ Lock /\ Marking /\ Path /\ Generations /\ Kept

LEMMA InitIInv ==
  ASSUME Init
  PROVE  IInv
<1>1. /\ \A p \in Tasks : task[p] = Idle
      /\ DOMAIN task = Tasks /\ queue = <<>> /\ session = Blank /\ hydrated = FALSE
      /\ db = None /\ sent = {} /\ ends = 0 /\ locks = 0
  BY DEF Init
<1>2. /\ IsTask(Idle) /\ Idle.at = "idle" /\ Idle.lock = 0 /\ Idle.orphan = FALSE
      /\ Idle.row = None /\ Idle.generation = 0
  BY DEF IsTask, TaskFields, Idle
<1>3. IsSession(Blank) /\ Blank.generation = 0
  BY DEF IsSession, SessionFields, Blank
<1>4. Shape
  BY <1>1, <1>2, <1>3 DEF Shape
<1>5. Queue
  BY <1>1, <1>2 DEF Queue, InQueue, Waiting
<1>6. Lock /\ Marking
  BY <1>1, <1>2 DEF Lock, Marking
<1>7. Path /\ Kept
  BY <1>1, <1>2 DEF Path, Submits, Waiting, Kept
<1>8. Generations
  BY <1>1, <1>2, <1>3 DEF Generations, Submits
<1>9. QED
  BY <1>4, <1>5, <1>6, <1>7, <1>8 DEF IInv

\* A task that runs outside the lock keeps it, ...
LEMMA GoesIInv ==
  ASSUME IInv, NEW p \in Tasks, Goes(p)
  PROVE  IInv'
<1>1. /\ Shape /\ Queue /\ Lock /\ Marking /\ Path /\ Generations /\ Kept
      /\ RunsOn(p) /\ Marks(p) /\ Moves(p) /\ Starts(p) /\ Debts(p)
  BY DEF IInv, Goes
<1>2. Shape' /\ Queue' /\ Lock'
  BY <1>1, GoesShape, GoesQueue, GoesLock
<1>3. Marking' /\ Path'
  BY <1>1, GoesMarking, GoesPath
<1>4. Generations' /\ Kept'
  BY <1>1, GoesGenerations, GoesKept
<1>5. QED
  BY <1>2, <1>3, <1>4 DEF IInv

\* ... one that draws keeps it, ...
LEMMA DrawsIInv ==
  ASSUME IInv, NEW p \in Tasks, Draws(p)
  PROVE  IInv'
<1>1. Shape /\ Queue /\ Lock /\ Marking /\ Path /\ Generations /\ Kept
  BY DEF IInv
<1>2. Shape' /\ Queue' /\ Lock'
  BY <1>1, DrawsShape, DrawsQueue, DrawsLock
<1>3. Marking' /\ Path'
  BY <1>1, DrawsMarking, DrawsPath
<1>4. Generations' /\ Kept'
  BY <1>1, DrawsGenerations, DrawsKept
<1>5. QED
  BY <1>2, <1>3, <1>4 DEF IInv

\* ... and one that leaves the lock keeps it.
LEMMA LeavesIInv ==
  ASSUME IInv, NEW p \in Tasks, Leaves(p)
  PROVE  IInv'
<1>1. Shape /\ Queue /\ Lock /\ Marking /\ Path /\ Generations /\ Kept
  BY DEF IInv
<1>2. Shape' /\ Queue' /\ Lock'
  BY <1>1, LeavesShape, LeavesQueue, LeavesLock
<1>3. Marking' /\ Path'
  BY <1>1, LeavesMarking, LeavesPath
<1>4. Generations' /\ Kept'
  BY <1>1, LeavesGenerations, LeavesKept
<1>5. QED
  BY <1>2, <1>3, <1>4 DEF IInv

\* Dropping the session touches neither the queue nor what is drawn.
LEMMA CloseSessionIInv ==
  ASSUME IInv, NEW p \in Tasks, CloseSession(p)
  PROVE  IInv'
<1> USE DEF IInv
<1>1. /\ task[p].at = "dropping" /\ ends' = ends + 1 /\ ends \in Nat /\ locks \in Nat
      /\ locks' = IF queue = <<>> THEN locks ELSE locks + 1
      /\ session' = Blank /\ hydrated' = FALSE
      /\ UNCHANGED <<db, queue, sent, rendered>>
  BY DEF CloseSession, Shape
<1>2. PICK orphans \in SUBSET {q \in Tasks : HoldsLock(q)} :
        task' = [q \in Tasks |-> IF q = p THEN Idle
                                 ELSE [task[q] EXCEPT !.orphan = @ \/ q \in orphans]]
  BY DEF CloseSession
<1>3. /\ IsTask(Idle) /\ Idle.at = "idle" /\ Idle.lock = 0 /\ Idle.orphan = FALSE
      /\ Idle.row = None /\ Idle.generation = 0
  BY DEF IsTask, TaskFields, Idle
<1>4. DOMAIN task' = Tasks /\ task'[p] = Idle
  BY <1>2
<1>5. ASSUME NEW q \in Tasks, q # p
      PROVE  /\ IsTask(task'[q]) /\ task'[q].at = task[q].at /\ task'[q].then = task[q].then
             /\ task'[q].draw = task[q].draw /\ task'[q].vac = task[q].vac
             /\ task'[q].action = task[q].action /\ task'[q].lock = task[q].lock
             /\ task'[q].row = task[q].row
             /\ task'[q].orphan = (task[q].orphan \/ q \in orphans)
  <2>1. task'[q] = [task[q] EXCEPT !.orphan = @ \/ q \in orphans]
    BY <1>2, <1>5
  <2>2. IsTask(task[q])
    BY DEF Shape
  <2>3. QED
    BY <2>1, <2>2 DEF IsTask, TaskFields
<1>6. Shape'
  <2>1. IsSession(Blank)
    BY DEF IsSession, SessionFields, Blank
  <2>2. QED
    BY <1>1, <1>3, <1>4, <1>5, <2>1 DEF Shape, IsTask, IsSession, IsRow
<1>7. Queue'
  <2>1. \A q \in Tasks : task'[q].at \in Waiting <=> task[q].at \in Waiting
    BY <1>1, <1>3, <1>4, <1>5 DEF Waiting
  <2>2. QED
    BY <1>1, <2>1 DEF Queue, InQueue
<1>8. Lock'
  <2>1. ends' # 0
    BY <1>1
  <2>2. ASSUME locks' = 0, NEW q \in Tasks
        PROVE  /\ task'[q].lock = 0 /\ task'[q].orphan = FALSE
               /\ task'[q].at # "edited"
    <3>1. locks = 0 /\ queue = <<>>
      BY <1>1, <2>2
    <3>2. ~HoldsLock(q) /\ task[q].at # "edited"
      BY <3>1 DEF HoldsLock, Queue, InQueue, Waiting
    <3>3. q \notin orphans
      BY <3>2
    <3>4. QED
      BY <1>3, <1>4, <1>5, <3>1, <3>2, <3>3 DEF Lock
  <2>3. QED
    BY <2>1, <2>2 DEF Lock
<1>9. Marking'
  BY <1>1, <1>3, <1>4, <1>5 DEF Marking, Card, PageOf
<1>10. Path'
  BY <1>3, <1>4, <1>5 DEF Path, Submits, Waiting
<1>11. Generations' /\ Kept'
  BY <1>1 DEF Generations, Kept
<1>12. QED
  BY <1>6, <1>7, <1>8, <1>9, <1>10, <1>11

\* After a restart nobody runs.
LEMMA RestartIInv ==
  ASSUME IInv, Restart
  PROVE  IInv'
<1> USE DEF IInv
<1>1. /\ \A p \in Tasks : task'[p] = Idle
      /\ DOMAIN task' = Tasks /\ queue' = <<>> /\ session' = Blank /\ hydrated' = FALSE
      /\ ends' = ends + 1 /\ ends \in Nat /\ locks' = 0
      /\ UNCHANGED <<db, sent, rendered>>
  BY DEF Restart, Shape
<1>2. /\ IsTask(Idle) /\ Idle.at = "idle" /\ Idle.lock = 0 /\ Idle.orphan = FALSE
      /\ Idle.row = None
  BY DEF IsTask, TaskFields, Idle
<1>3. IsSession(Blank)
  BY DEF IsSession, SessionFields, Blank
<1>4. Shape'
  BY <1>1, <1>2, <1>3 DEF Shape, IsTask, IsSession, IsRow
<1>5. Queue'
  BY <1>1, <1>2 DEF Queue, InQueue, Waiting
<1>6. Lock' /\ Marking'
  BY <1>1, <1>2 DEF Lock, Marking
<1>7. Path' /\ Generations' /\ Kept'
  BY <1>1, <1>2 DEF Path, Submits, Waiting, Generations, Kept
<1>8. QED
  BY <1>4, <1>5, <1>6, <1>7

\* What the messages show does not matter to it.
LEMMA RestIInv ==
  ASSUME IInv,
         UNCHANGED <<session, hydrated, db, queue, sent, rendered, past, task>>
  PROVE  IInv'
<1> USE DEF IInv, past
<1>1. Shape' /\ Queue' /\ Lock' /\ Marking' /\ Path'
  BY DEF Shape, IsTask, IsSession, IsRow, Queue, InQueue, Lock, Marking, Card, PageOf,
         Path, Submits
<1>2. Generations'
  BY DEF Generations, Submits, Ending, Overtakes, Before, Counted, Ahead
<1>3. Kept'
  BY DEF Kept, Orderly, Owing, Match, Snapshot
<1>4. QED
  BY <1>1, <1>2, <1>3

LEMMA HandleIInv ==
  ASSUME IInv, NEW p \in Tasks, Handle(p)
  PROVE  IInv'
<1>1. Shape /\ Path
  BY DEF IInv
<1>2. CASE Goes(p)
  BY <1>2, GoesIInv
<1>3. CASE Draws(p)
  BY <1>3, DrawsIInv
<1>4. CASE Leaves(p)
  BY <1>4, LeavesIInv
<1>5. CASE Hydrate(p)
  BY <1>1, <1>2, <1>5, HydrateGoes
<1>6. CASE Reply(p)
  BY <1>1, <1>2, <1>6, ReplyGoes
<1>7. CASE RenderCard(p)
  BY <1>1, <1>2, <1>7, RenderCardGoes
<1>8. CASE Edit(p)
  BY <1>1, <1>3, <1>8, EditDraws
<1>9. CASE Send(p)
  BY <1>1, <1>3, <1>9, SendDraws
<1>10. CASE Persist(p)
  BY <1>1, <1>4, <1>10, PersistLeaves
<1>11. CASE DrawFails(p)
  BY <1>1, <1>4, <1>11, DrawFailsLeaves
<1>12. CASE MarkSent(p)
  BY <1>1, <1>2, <1>12, MarkSentGoes
<1>13. CASE Prepared(p)
  BY <1>1, <1>2, <1>13, PreparedGoes
<1>14. CASE Submitted(p)
  BY <1>1, <1>2, <1>14, SubmittedGoes
<1>15. CASE EnterSearch(p)
  BY <1>1, <1>2, <1>15, EnterSearchGoes
<1>16. CASE Progress(p)
  BY <1>1, <1>2, <1>16, ProgressGoes
<1>17. CASE SearchDone(p)
  BY <1>1, <1>2, <1>17, SearchDoneGoes
<1>18. CASE Listed(p)
  BY <1>1, <1>2, <1>18, ListedGoes
<1>19. CASE SearchFails(p)
  BY <1>1, <1>2, <1>19, SearchFailsGoes
<1>20. CASE CloseMessage(p)
  BY <1>1, <1>2, <1>20, CloseMessageGoes
<1>21. CASE CloseRow(p)
  BY <1>1, <1>2, <1>21, CloseRowGoes
<1>22. CASE CloseSession(p)
  BY <1>22, CloseSessionIInv
<1>23. QED
  BY <1>5, <1>6, <1>7, <1>8, <1>9, <1>10, <1>11, <1>12, <1>13, <1>14, <1>15, <1>16, <1>17,
     <1>18, <1>19, <1>20, <1>21, <1>22
  DEF Handle, Draw

LEMMA NextIInv ==
  ASSUME IInv, [Next]_vars
  PROVE  IInv'
<1>1. ASSUME NEW p \in Tasks, NEW action, NEW m, NEW v, NEW list, Begin(p, action, m, v, list)
      PROVE  IInv'
  BY <1>1, BeginGoes, GoesIInv DEF IInv
<1>2. CASE \E p \in Handlers : Command(p) \/ \E m \in Messages : Tap(p, m)
  BY <1>1, <1>2 DEF Command, Tap, Tasks
<1>3. CASE Digest \/ Connected
  BY <1>1, <1>3 DEF Digest, Connected, Tasks
<1>4. CASE \E p \in Tasks : Handle(p)
  BY <1>4, HandleIInv
<1>5. CASE \E m \in Messages : DeleteMessage(m)
  BY <1>5, RestIInv DEF DeleteMessage
<1>6. CASE Restart
  BY <1>6, RestartIInv
<1>7. CASE UNCHANGED vars
  BY <1>7, RestIInv DEF vars, past
<1>8. QED
  BY <1>2, <1>3, <1>4, <1>5, <1>6, <1>7 DEF Next

\* The invariant holds in every reachable state.
THEOREM ScreenInvariant == Spec => []IInv
<1>1. Init => IInv
  BY InitIInv
<1>2. IInv /\ [Next]_vars => IInv'
  BY NextIInv
<1>3. QED
  BY <1>1, <1>2, PTL DEF Spec

\* Whatever Telegram refuses and wherever the process dies, only a card the user
\* was shown is marked as sent (mark_sent after a render that answered).
THEOREM RenderedOnly == Spec => []OnlyRenderedIsSent
<1>1. IInv => OnlyRenderedIsSent
  BY DEF IInv, Marking, OnlyRenderedIsSent
<1>2. QED
  BY <1>1, ScreenInvariant, PTL

\* The result of a submission never replaces what a handler that cancelled it has
\* drawn, while the session was not dropped: the generation moved before that
\* handler waited for the lock, and the lock is first come, first served.
THEOREM NoLateRedraw == Spec => []SubmissionNeverRedraws
<1>1. IInv => SubmissionNeverRedraws
  <2> SUFFICES ASSUME IInv, ends = 0, NEW p \in Tasks, task[p].action = "submit", RedrawsLate(p)
               PROVE  FALSE
    BY DEF SubmissionNeverRedraws
  <2>1. Submits(p) /\ task[p].superseded /\ Ending(p)
    BY DEF RedrawsLate, Submits, Ending, Waiting
  <2>2. QED
    BY <2>1 DEF IInv, Generations
<1>2. QED
  BY <1>1, ScreenInvariant, PTL

\* When nobody draws, the row is the session's screen, collection and position.
THEOREM PositionSurvives ==
  ASSUME NoneIsNoRow
  PROVE  Spec => []PositionIsKept
<1>1. IInv => PositionIsKept
  <2> SUFFICES ASSUME IInv, Orderly, "position" \notin astray, Quiet, hydrated,
                      session.message # 0
               PROVE  Match(db, session)
    BY DEF PositionIsKept, Match
  <2>1. \A p \in Tasks : ~Owing(p) /\ task[p].at # "edited"
    BY DEF Quiet, Owing
  <2>2. QED
    BY <2>1, NoneIsNoRow DEF IInv, Kept
<1>2. QED
  BY <1>1, ScreenInvariant, PTL

-----------------------------------------------------------------------------
(* What the messages show *)

SearchPage == Page("search")

\* A page is not what stands for no page, and there is one page of the search.
IsPage(c) == c.screen \notin {"unsent", "gone"} /\ (c.screen = "search" => c = SearchPage)

\* The messages the session, its row and the handlers speak of were sent.
Known(m) == m = 0 \/ (m \in Messages /\ shown[m] # Unsent)

Messaging ==
  /\ DOMAIN shown = Messages
  /\ Known(session.message)
  /\ db # None => Known(db.message)
  /\ \A p \in Tasks :
       /\ Known(task[p].message) /\ Known(task[p].target)
       /\ task[p].row # None => Known(task[p].row.message)
       /\ IsPage(task[p].draw)

OneMessage == "messages" \notin astray => OneActiveMessage

\* While the session is not restored, nobody waits to draw.
Restoring == ~hydrated /\ locks = 0 => queue = <<>>

\* Whose search may draw its progress.
Searches(p) ==
  \/ task[p].at \in {"wanting", "searching"}
  \/ task[p].at \in Waiting /\ task[p].then \in {"wanting", "searching"}

Calm == Orderly /\ astray \cap {"screen", "messages"} = {}

\* The page of the chat, now ...
Everywhere(page) == \A m \in Messages : Active(m) => shown[m] = page

\* ... and when everybody has drawn.
Ends(page) ==
  IF queue = <<>> THEN Everywhere(page) ELSE task[queue[Len(queue)]].draw = page

\* The row says that a session restored from it is on the search's page.
RowSearches == queue = <<>> /\ db # None /\ db.screen = "search"

\* While a search may draw its progress, the session, its row and a row on its
\* way only say that the chat is on the search's page if it is going to be.
Searched ==
  Calm /\ (\E p \in Tasks : Searches(p)) =>
    /\ session.screen = "search" => Ends(SearchPage)
    /\ RowSearches => Everywhere(SearchPage)
    /\ \A p \in Tasks :
         task[p].at = "edited" /\ queue[Len(queue)] = p /\ task[p].row.screen = "search"
           => task[p].draw = SearchPage

\* What was drawn is on the screen while its task holds the lock, and progress
\* comes right after the search's page.
Drawing ==
  Calm =>
    /\ \A p \in Tasks :
         task[p].at = "edited" => Everywhere(task[p].draw) /\ task[p].row # None
    /\ \A i \in DOMAIN queue :
         task[queue[i]].at = "queued" /\ task[queue[i]].then = "searching" =>
           IF i = 1 THEN Everywhere(SearchPage) ELSE task[queue[i - 1]].draw = SearchPage

-----------------------------------------------------------------------------
(* What a step outside the lock shows and says *)

Like(s, n) ==
  /\ IsSession(n)
  /\ n.message = s.message /\ n.screen \in {s.screen, "collection"}

LEMMA SessionLike ==
  ASSUME NEW s, IsSession(s), NEW v, NEW cards
  PROVE  /\ Like(s, s) /\ Like(s, Collected(s, cards)) /\ Like(s, Focused(s, v))
         /\ Like(s, Moved(s)) /\ Like(s, Removed(s, v)) /\ Like(s, Bumped(s))
         /\ Like(s, [s EXCEPT !.pending = v])
<1>1. Like(s, s)
  BY DEF Like
<1>2. ASSUME NEW c PROVE Like(s, Collected(s, c))
  BY DEF Like, IsSession, SessionFields, Collected
<1>3. Like(s, Focused(s, v))
  <2>1. CASE \E i \in DOMAIN s.cards : s.cards[i] = v
    BY <2>1 DEF Like, IsSession, SessionFields, Focused
  <2>2. CASE ~\E i \in DOMAIN s.cards : s.cards[i] = v
    BY <1>2, <2>2 DEF Focused
  <2>3. QED
    BY <2>1, <2>2
<1>4. Like(s, Moved(s))
  BY DEF Like, IsSession, SessionFields, Moved
<1>5. Like(s, Removed(s, v))
  BY DEF Like, IsSession, SessionFields, Removed
<1>6. Like(s, Bumped(s)) /\ Like(s, [s EXCEPT !.pending = v])
  BY DEF Like, IsSession, SessionFields, Bumped
<1>7. QED
  BY <1>1, <1>2, <1>3, <1>4, <1>5, <1>6

LEMMA LikeLike ==
  ASSUME NEW s, NEW n, NEW k, Like(s, n), Like(n, k)
  PROVE  Like(s, k)
  BY DEF Like

LEMMA RestoredLike ==
  ASSUME NEW s, IsSession(s), NEW v
  PROVE  Like(s, Restored(s, v))
<1> DEFINE all == Collected(s, Listing)
<1>1. Like(s, s) /\ Like(s, all)
  BY SessionLike
<1>2. Like(all, Focused(all, v))
  BY <1>1, SessionLike DEF Like
<1> HIDE DEF all
<1>3. Like(s, Focused(all, v))
  BY <1>1, <1>2, LikeLike
<1>4. QED
  BY <1>1, <1>3 DEF Restored, all

\* A session the handler may go on with says nothing new of the screen.
Found(s) ==
  /\ IsSession(s) /\ Known(s.message)
  /\ Calm' /\ s.screen = "search" => session.screen = "search" \/ RowSearches

LEMMA LikeFound ==
  ASSUME NEW s, Found(s), NEW n, Like(s, n)
  PROVE  Found(n)
  BY DEF Found, Like

LEMMA HydratedFound ==
  ASSUME Shape, Messaging, Calm' => queue = <<>>
  PROVE  Found(Hydrated(session))
<1>1. IsSession(session) /\ Keeps(session, Hydrated(session))
  BY SessionKeeps DEF Shape
<1>2. CASE db = None
  BY <1>1, <1>2 DEF Hydrated, Found, Messaging
<1>3. CASE db # None
  <2>1. /\ Hydrated(session).message = db.message
        /\ Hydrated(session).screen \in {session.screen, db.screen}
    BY <1>1, <1>3 DEF Hydrated, IsSession, SessionFields
  <2>2. QED
    BY <1>1, <1>3, <2>1 DEF Found, Messaging, RowSearches, Keeps
<1>4. QED
  BY <1>2, <1>3

LEMMA CurrentFound ==
  ASSUME Shape, Messaging, Restoring, locks' = locks
  PROVE  Found(Current) /\ Found(session)
<1>1. Found(session)
  BY DEF Found, Messaging, Shape
<1>2. CASE hydrated
  BY <1>1, <1>2 DEF Current
<1>3. CASE ~hydrated
  <2>1. Calm' => queue = <<>>
    BY <1>3 DEF Calm, Orderly, Restoring
  <2>2. QED
    BY <1>1, <1>3, <2>1, HydratedFound DEF Current
<1>4. QED
  BY <1>1, <1>2, <1>3

\* What the session says after a step of p, and the messages p speaks of.
Views(p) ==
  /\ Known(session'.message)
  /\ Known(task'[p].message) /\ Known(task'[p].target) /\ IsPage(task'[p].draw)
  /\ hydrated => hydrated'
  /\ task'[p].at = "queued" =>
       /\ hydrated' /\ session'.screen = task'[p].draw.screen
       /\ task'[p].then = "searching" => task[p].at = "searching" /\ session.screen = "search"
  /\ task'[p].at # "queued" =>
       /\ Searches(p)' => Searches(p)
       /\ Calm' /\ session'.screen = "search" => session.screen = "search" \/ RowSearches

LEMMA RenderViews ==
  ASSUME Shape, NEW p \in Tasks, NEW t, IsTask(t), Known(t.message),
         NEW s, Found(s), NEW m, Known(m), NEW content, IsPage(content),
         NEW then, then = "searching" => task[p].at = "searching" /\ session.screen = "search",
         RenderOn(p, t, m, s, content, then)
  PROVE  Views(p) /\ task'[p].at = "queued"
<1>1. /\ session' = Opened(s, m, content.screen) /\ hydrated' = TRUE
      /\ task'[p] = [t EXCEPT !.at = "queued", !.target = m, !.draw = content,
                              !.then = then, !.lock = locks]
  BY DEF RenderOn, Become, Shape
<1>2. /\ task'[p].at = "queued" /\ task'[p].message = t.message /\ task'[p].target = m
      /\ task'[p].draw = content /\ task'[p].then = then
  BY <1>1 DEF IsTask, TaskFields
<1>3. session'.screen = content.screen /\ session'.message \in {s.message, m}
  BY <1>1 DEF Opened, Found, IsSession, SessionFields
<1>4. QED
  BY <1>1, <1>2, <1>3 DEF Views, Found

LEMMA ShowViews ==
  ASSUME Shape, Messaging, NEW p \in Tasks, NEW s, Found(s), ShowCurrent(p, s)
  PROVE  Views(p)
<1>1. /\ IsTask(task[p]) /\ Known(task[p].message) /\ Known(task[p].target)
      /\ IsPage(task[p].draw)
  BY DEF Shape, Messaging
<1>2. CASE s.cards = <<>>
  <2>1. RenderOn(p, task[p], task[p].message, s, Page("collection_empty"), "end")
    BY <1>2 DEF ShowCurrent, Render
  <2>2. IsPage(Page("collection_empty"))
    BY DEF IsPage, Page
  <2>3. QED
    BY <1>1, <2>1, <2>2, RenderViews
<1>3. CASE s.cards # <<>>
  <2>1. /\ session' = s /\ hydrated' = TRUE
        /\ task'[p] = [task[p] EXCEPT !.at = "card", !.vac = s.cards[s.index]]
    BY <1>3 DEF ShowCurrent, Become, Shape
  <2>2. /\ task'[p].at = "card" /\ task'[p].message = task[p].message
        /\ task'[p].target = task[p].target /\ task'[p].draw = task[p].draw
    BY <1>1, <2>1 DEF IsTask, TaskFields
  <2>3. QED
    BY <1>1, <2>1, <2>2 DEF Views, Found, Searches, Waiting
<1>4. QED
  BY <1>2, <1>3

LEMMA IdleIsHarmless ==
  Idle.message = 0 /\ Idle.target = 0 /\ IsPage(Idle.draw) /\ Idle.at = "idle"
  BY DEF Idle, IsPage, Page

\* The first region of a handler.
LEMMA ActViews ==
  ASSUME Shape, NEW p \in Tasks, NEW t, IsTask(t),
         Known(t.message), Known(t.target), IsPage(t.draw),
         NEW s, Found(s), Act(p, t, s)
  PROVE  Views(p)
<1>1. IsSession(s)
  BY DEF Found
<1>2. CASE t.action = "prepare"
  <2>1. Found(Focused(s, t.vac))
    BY <1>1, SessionLike, LikeFound
  <2>2. RenderOn(p, t, t.message, Focused(s, t.vac), Page("application_loading"), "start")
    BY <1>2 DEF Act, Render
  <2>3. IsPage(Page("application_loading"))
    BY DEF IsPage, Page
  <2>4. QED
    BY <2>1, <2>2, <2>3, RenderViews
<1>3. CASE t.action = "submit"
  <2>1. RenderOn(p, t, t.message, s, Page("confirmation"), "working")
    BY <1>3 DEF Act, Render
  <2>2. IsPage(Page("confirmation"))
    BY DEF IsPage, Page
  <2>3. QED
    BY <2>1, <2>2, RenderViews
<1>4. CASE t.action = "digest"
  <2>1. CASE DigestMayDraw(s)
    <3> DEFINE b == Cancelled(s)
               n == Collected(b, t.list)
    <3>1. Like(s, b)
      BY <1>1, SessionLike DEF Cancelled
    <3> HIDE DEF b
    <3>2. Like(b, n)
      BY <3>1, SessionLike DEF Like
    <3>3. RenderOn(p, t, t.message, n, Card(t.vac), "mark")
      BY <1>4, <2>1 DEF Act, Render, b
    <3> HIDE DEF n
    <3>4. Found(n)
      BY <3>1, <3>2, LikeFound
    <3>5. IsPage(Card(t.vac))
      BY DEF IsPage, Card, PageOf
    <3>6. QED
      BY <3>3, <3>4, <3>5, RenderViews
  <2>2. CASE ~DigestMayDraw(s)
    <3>1. session' = s /\ hydrated' = hydrated /\ task'[p] = Idle
      BY <1>4, <2>2 DEF Act, Become, Shape
    <3>2. QED
      BY <3>1, IdleIsHarmless DEF Views, Found, Known, Searches, Waiting
  <2>3. QED
    BY <2>1, <2>2
<1>5. CASE t.action = "connected"
  <2>1. RenderOn(p, t, 0, s, PageOf("hh_connected", s.pending), "end")
    BY <1>5 DEF Act
  <2>2. IsPage(PageOf("hh_connected", s.pending)) /\ Known(0)
    BY DEF IsPage, PageOf, Known
  <2>3. QED
    BY <2>1, <2>2, RenderViews
<1>6. CASE t.action \notin {"prepare", "submit", "digest", "connected"}
  <2>1. /\ \/ session' = [Cancelled(s) EXCEPT !.screen = "navigation"]
           \/ session' = Cancelled(s)
        /\ \/ task'[p] = [t EXCEPT !.at = "closing"]
           \/ task'[p] = [t EXCEPT !.at = "answered"]
        /\ hydrated' = hydrated
    BY <1>6 DEF Act, Become, Shape
  <2>2. session'.message = s.message /\ session'.screen \in {s.screen, "navigation"}
    BY <1>1, <2>1 DEF Cancelled, Bumped, IsSession, SessionFields
  <2>3. /\ task'[p].at \in {"closing", "answered"} /\ task'[p].message = t.message
        /\ task'[p].target = t.target /\ task'[p].draw = t.draw
    BY <2>1 DEF IsTask, TaskFields
  <2>4. QED
    BY <2>1, <2>2, <2>3 DEF Views, Found, Searches, Waiting
<1>7. QED
  BY <1>2, <1>3, <1>4, <1>5, <1>6

Fades == DOMAIN shown' = Messages /\ \A m \in Messages : shown'[m] \in {shown[m], Gone}

Sees(p) == Fades /\ astray \subseteq astray' /\ Views(p)

\* What the lemmas below assume.
Looks == Shape /\ Messaging /\ Restoring

LEMMA QuietFades ==
  ASSUME Looks, shown' = shown
  PROVE  Fades
  BY DEF Looks, Messaging, Fades

LEMMA TaskKnown ==
  ASSUME Looks, NEW p \in Tasks
  PROVE  /\ Shape /\ Messaging /\ IsTask(task[p]) /\ IsSession(session)
         /\ Known(task[p].message) /\ Known(task[p].target) /\ IsPage(task[p].draw)
  BY DEF Looks, Shape, Messaging

LEMMA CurrentLooks ==
  ASSUME Looks, locks' = locks
  PROVE  /\ Found(Current) /\ Found(session)
         /\ IsSession(Current) /\ IsSession(session)
<1>1. Found(Current) /\ Found(session)
  BY CurrentFound DEF Looks
<1>2. QED
  BY <1>1 DEF Found

LEMMA RenderCardSees ==
  ASSUME Looks, NEW p \in Tasks, RenderCard(p)
  PROVE  Sees(p)
<1>1. /\ RenderOn(p, task[p], task[p].message, Current, Card(task[p].vac), "mark")
      /\ UNCHANGED <<shown, locks, astray>>
  BY DEF RenderCard, Render, past
<1>2. IsPage(Card(task[p].vac))
  BY DEF IsPage, Card, PageOf
<1>3. Views(p)
  BY <1>1, <1>2, TaskKnown, CurrentLooks, RenderViews
<1>4. QED
  BY <1>1, <1>3, QuietFades DEF Sees

LEMMA ProgressSees ==
  ASSUME Looks, NEW p \in Tasks, Progress(p)
  PROVE  Sees(p)
<1>1. /\ RenderOn(p, task[p], 0, Current, Page("search"), "searching")
      /\ task[p].at = "searching" /\ session.screen = "search"
      /\ UNCHANGED <<shown, locks, astray>>
  BY DEF Progress, StillOnSearch, past
<1>2. IsPage(Page("search")) /\ Known(0)
  BY DEF IsPage, Page, SearchPage, Known
<1>3. Views(p)
  BY <1>1, <1>2, TaskKnown, CurrentLooks, RenderViews
<1>4. QED
  BY <1>1, <1>3, QuietFades DEF Sees

LEMMA SearchFailsSees ==
  ASSUME Looks, NEW p \in Tasks, SearchFails(p)
  PROVE  Sees(p)
<1>1. /\ RenderOn(p, task[p], task[p].message, Current, Page("search_result"), "end")
      /\ UNCHANGED <<shown, locks, astray>>
  BY DEF SearchFails, Render, past
<1>2. IsPage(Page("search_result"))
  BY DEF IsPage, Page
<1>3. Views(p)
  BY <1>1, <1>2, TaskKnown, CurrentLooks, RenderViews
<1>4. QED
  BY <1>1, <1>3, QuietFades DEF Sees

LEMMA ListedSees ==
  ASSUME Looks, NEW p \in Tasks, Listed(p)
  PROVE  Sees(p)
<1>1. PICK list : /\ \/ ShowCurrent(p, Collected(Current, list))
                     \/ RenderOn(p, task[p], task[p].message, Current, Page("search_result"), "end")
                  /\ UNCHANGED <<shown, locks, astray>>
  BY DEF Listed, Render, past
<1>2. Found(Current) /\ IsSession(Current)
  BY <1>1, CurrentLooks
<1>3. Found(Collected(Current, list))
  BY <1>2, SessionLike, LikeFound
<1>4. IsPage(Page("search_result"))
  BY DEF IsPage, Page
<1>5. Views(p)
  BY <1>1, <1>2, <1>3, <1>4, TaskKnown, ShowViews, RenderViews
<1>6. QED
  BY <1>1, <1>5, QuietFades DEF Sees

LEMMA ReplySees ==
  ASSUME Looks, NEW p \in Tasks, Reply(p)
  PROVE  Sees(p)
<1> DEFINE t == task[p]
           c == Current
           all == Restored(c, t.vac)
<1>1. UNCHANGED <<shown, locks, astray>>
  BY DEF Reply, past
<1> SUFFICES Views(p)
  BY <1>1, QuietFades DEF Sees
<1>2. ASSUME NEW s, Found(s), ShowCurrent(p, s)
      PROVE  Views(p)
  BY <1>2, TaskKnown, ShowViews
<1>3. ASSUME NEW s, Found(s), NEW content, IsPage(content), NEW then \in {"wanting", "end"},
             Render(p, t, s, content, then)
      PROVE  Views(p)
  BY <1>3, TaskKnown, RenderViews DEF Render
<1>4. Found(c) /\ IsSession(c)
  BY <1>1, CurrentLooks
<1>5. Like(c, all)
  BY <1>4, RestoredLike
<1> HIDE DEF c, all
<1>6. Found(all) /\ IsSession(all)
  BY <1>4, <1>5, LikeFound DEF Like
<1>7. /\ Found(Moved(all)) /\ Found(Removed(all, t.vac))
      /\ Found(Removed(c, t.vac)) /\ Found(Collected(c, Fresh))
      /\ Found([c EXCEPT !.pending = None])
  BY <1>4, <1>6, SessionLike, LikeFound
<1>8. /\ IsPage(Page("stats")) /\ IsPage(Page("registered")) /\ IsPage(Page("search"))
      /\ IsPage(Page("menu")) /\ IsPage(PageOf("vacancy", t.vac))
  BY DEF IsPage, Page, PageOf, SearchPage
<1>9. CASE t.action = "stats"
  <2>1. Render(p, t, c, Page("stats"), "end")
    BY <1>9 DEF Reply, c
  <2>2. QED
    BY <1>3, <1>4, <1>8, <2>1
<1>10. CASE t.action = "next"
  <2>1. ShowCurrent(p, Moved(all))
    BY <1>10 DEF Reply, c, all
  <2>2. QED
    BY <1>2, <1>7, <2>1
<1>11. CASE t.action = "collection"
  <2>1. ShowCurrent(p, Collected(c, Fresh))
    BY <1>11 DEF Reply, c
  <2>2. QED
    BY <1>2, <1>7, <2>1
<1>12. CASE t.action = "continue"
  <2>1. ShowCurrent(p, Removed(c, t.vac))
    BY <1>12 DEF Reply, c
  <2>2. QED
    BY <1>2, <1>7, <2>1
<1>13. CASE t.action = "vacancy"
  <2>1. Render(p, t, all, PageOf("vacancy", t.vac), "end")
    BY <1>13 DEF Reply, c, all
  <2>2. QED
    BY <1>3, <1>6, <1>8, <2>1
<1>14. CASE t.action = "register"
  <2>1. Render(p, t, Removed(all, t.vac), Page("registered"), "end")
    BY <1>14 DEF Reply, c, all
  <2>2. QED
    BY <1>3, <1>7, <1>8, <2>1
<1>15. CASE t.action = "search"
  <2>1. \E then \in {"wanting", "end"} : Render(p, t, c, Page("search"), then)
    BY <1>15 DEF Reply, c
  <2>2. QED
    BY <1>3, <1>4, <1>8, <2>1
<1>16. CASE t.action = "pending_clear"
  <2>1. Render(p, t, [c EXCEPT !.pending = None], Page("menu"), "end")
    BY <1>16 DEF Reply, c
  <2>2. QED
    BY <1>3, <1>7, <1>8, <2>1
<1>17. CASE t.action \notin {"stats", "next", "collection", "continue", "vacancy", "register",
                            "search", "pending_clear"}
  <2>1. ShowCurrent(p, c) \/ Render(p, t, c, Page("menu"), "end")
    BY <1>17 DEF Reply, c
  <2>2. QED
    BY <1>2, <1>3, <1>4, <1>8, <2>1
<1>18. QED
  BY <1>9, <1>10, <1>11, <1>12, <1>13, <1>14, <1>15, <1>16, <1>17

\* A step without a page.
LEMMA StepViews ==
  ASSUME Looks, NEW p \in Tasks,
         NEW at \in {"searching", "listing", "deleting", "dropping"},
         Become(p, Idle) \/ Become(p, [task[p] EXCEPT !.at = at]),
         at = "searching" => Searches(p),
         NEW s, Like(session, s), session' = s, hydrated' = hydrated
  PROVE  Views(p)
<1>1. /\ IsTask(task[p]) /\ Known(task[p].message) /\ Known(task[p].target)
      /\ IsPage(task[p].draw) /\ Known(session.message)
  BY DEF Looks, Shape, Messaging
<1>2. session'.message = session.message /\ session'.screen \in {session.screen, "collection"}
  BY DEF Like
<1>3. CASE task'[p] = Idle
  BY <1>1, <1>2, <1>3, IdleIsHarmless DEF Views, Known, Searches, Waiting
<1>4. CASE task'[p] = [task[p] EXCEPT !.at = at]
  <2>1. /\ task'[p].at = at /\ task'[p].message = task[p].message
        /\ task'[p].target = task[p].target /\ task'[p].draw = task[p].draw
    BY <1>1, <1>4 DEF IsTask, TaskFields
  <2>2. QED
    BY <1>1, <1>2, <2>1 DEF Views, Searches, Waiting
<1>5. QED
  BY <1>3, <1>4 DEF Become, Looks, Shape

LEMMA MarkSentSees ==
  ASSUME Looks, NEW p \in Tasks, MarkSent(p)
  PROVE  Sees(p)
<1>1. Become(p, Idle) /\ UNCHANGED <<shown, session, hydrated, astray>>
  BY DEF MarkSent, past
<1>2. Like(session, session)
  BY TaskKnown, SessionLike
<1>3. Views(p)
  BY <1>1, <1>2, StepViews
<1>4. QED
  BY <1>1, <1>3, QuietFades DEF Sees

LEMMA EnterSearchSees ==
  ASSUME Looks, NEW p \in Tasks, EnterSearch(p)
  PROVE  Sees(p)
<1>1. /\ Become(p, [task[p] EXCEPT !.at = "searching"]) /\ Searches(p)
      /\ UNCHANGED <<shown, session, hydrated, astray>>
  BY DEF EnterSearch, past, Searches
<1>2. Like(session, session)
  BY TaskKnown, SessionLike
<1>3. Views(p)
  BY <1>1, <1>2, StepViews
<1>4. QED
  BY <1>1, <1>3, QuietFades DEF Sees

LEMMA SearchDoneSees ==
  ASSUME Looks, NEW p \in Tasks, SearchDone(p)
  PROVE  Sees(p)
<1>1. /\ Become(p, [task[p] EXCEPT !.at = "listing"]) \/ Become(p, Idle)
      /\ UNCHANGED <<shown, session, hydrated, astray>>
  BY DEF SearchDone, past
<1>2. Like(session, session)
  BY TaskKnown, SessionLike
<1>3. Views(p)
  BY <1>1, <1>2, StepViews
<1>4. QED
  BY <1>1, <1>3, QuietFades DEF Sees

LEMMA CloseMessageSees ==
  ASSUME Looks, NEW p \in Tasks, CloseMessage(p)
  PROVE  Sees(p)
<1>1. /\ Become(p, [task[p] EXCEPT !.at = "deleting"])
      /\ UNCHANGED <<session, hydrated, astray>>
      /\ shown' \in {shown, [shown EXCEPT ![task[p].message] = Gone]}
  BY DEF CloseMessage, past
<1>2. Like(session, session)
  BY TaskKnown, SessionLike
<1>3. Views(p)
  BY <1>1, <1>2, StepViews
<1>4. Fades
  BY <1>1 DEF Fades, Looks, Messaging
<1>5. QED
  BY <1>1, <1>3, <1>4 DEF Sees

LEMMA CloseRowSees ==
  ASSUME Looks, NEW p \in Tasks, CloseRow(p)
  PROVE  Sees(p)
<1>1. /\ Become(p, [task[p] EXCEPT !.at = "dropping"])
      /\ UNCHANGED <<shown, session, hydrated, astray>>
  BY DEF CloseRow, past
<1>2. Like(session, session)
  BY TaskKnown, SessionLike
<1>3. Views(p)
  BY <1>1, <1>2, StepViews
<1>4. QED
  BY <1>1, <1>3, QuietFades DEF Sees

LEMMA PreparedSees ==
  ASSUME Looks, NEW p \in Tasks, Prepared(p)
  PROVE  Sees(p)
<1>1. UNCHANGED <<shown, locks, astray>>
  BY DEF Prepared, past
<1> SUFFICES Views(p)
  BY <1>1, QuietFades DEF Sees
<1>2. CASE Become(p, Idle) /\ UNCHANGED <<session, hydrated>>
  <2>1. Like(session, session)
    BY TaskKnown, SessionLike
  <2>2. QED
    BY <1>2, <2>1, StepViews
<1>3. ASSUME NEW s, Found(s), NEW content, IsPage(content), Render(p, task[p], s, content, "end")
      PROVE  Views(p)
  BY <1>3, TaskKnown, RenderViews DEF Render
<1>4. Found(Current) /\ IsSession(Current)
  BY <1>1, CurrentLooks
<1>5. \A v : Found([Current EXCEPT !.pending = v])
  BY <1>4, SessionLike, LikeFound
<1>6. IsPage(Page("application")) /\ IsPage(Page("hh")) /\ IsPage(Page("application_result"))
  BY DEF IsPage, Page
<1>7. CASE Render(p, task[p], [Current EXCEPT !.pending = None], Page("application"), "end")
  BY <1>3, <1>5, <1>6, <1>7
<1>8. CASE Render(p, task[p], [Current EXCEPT !.pending = task[p].vac], Page("hh"), "end")
  BY <1>3, <1>5, <1>6, <1>8
<1>9. CASE Render(p, task[p], Current, Page("application_result"), "end")
  BY <1>3, <1>4, <1>6, <1>9
<1>10. QED
  BY <1>2, <1>7, <1>8, <1>9 DEF Prepared

LEMMA SubmittedSees ==
  ASSUME Looks, NEW p \in Tasks, Submitted(p)
  PROVE  Sees(p)
<1>1. UNCHANGED <<shown, locks>>
  BY DEF Submitted
<1>2. PICK v, s :
        /\ s \in {Removed(session, v), [session EXCEPT !.pending = v], session}
        /\ \/ /\ session' = s
              /\ astray' \in {astray, astray \cup {"position"}}
              /\ Become(p, Idle)
              /\ UNCHANGED <<hydrated, queue>>
           \/ /\ Render(p, task[p], s, Page("application_result"), "end")
              /\ UNCHANGED astray
  BY DEF Submitted
<1>3. astray \subseteq astray'
  BY <1>2
<1> SUFFICES Views(p)
  BY <1>1, <1>3, QuietFades DEF Sees
<1>4. Like(session, s)
  BY <1>2, TaskKnown, SessionLike
<1>5. CASE session' = s /\ Become(p, Idle) /\ UNCHANGED <<hydrated, queue>>
  BY <1>4, <1>5, StepViews
<1>6. CASE Render(p, task[p], s, Page("application_result"), "end")
  <2>1. Found(s)
    BY <1>1, <1>4, CurrentLooks, LikeFound
  <2>2. IsPage(Page("application_result"))
    BY DEF IsPage, Page
  <2>3. QED
    BY <1>6, <2>1, <2>2, TaskKnown, RenderViews DEF Render
<1>7. QED
  BY <1>2, <1>5, <1>6

\* The row is read over a session in use only if that goes astray.
LEMMA HydrateSees ==
  ASSUME Looks, NEW p \in Tasks, Hydrate(p)
  PROVE  Sees(p)
<1>1. UNCHANGED <<shown, locks, situation>>
  BY DEF Hydrate
<1>2. \/ /\ Act(p, task[p], Hydrated(session))
         /\ astray' = astray \cup Astray(p)
      \/ /\ Act(p, task[p], session)
         /\ astray' = astray
  BY DEF Hydrate
<1>3. Fades /\ astray \subseteq astray'
  BY <1>1, <1>2, QuietFades
<1>4. CASE Act(p, task[p], Hydrated(session)) /\ astray' = astray \cup Astray(p)
  <2>1. Calm' => queue = <<>>
    BY <1>4 DEF Calm, Astray
  <2>2. Found(Hydrated(session))
    BY <2>1, HydratedFound DEF Looks
  <2>3. Views(p)
    BY <1>4, <2>2, TaskKnown, ActViews
  <2>4. QED
    BY <1>3, <2>3 DEF Sees
<1>5. CASE Act(p, task[p], session)
  <2>1. Views(p)
    BY <1>1, <1>5, CurrentLooks, TaskKnown, ActViews
  <2>2. QED
    BY <1>3, <2>1 DEF Sees
<1>6. QED
  BY <1>2, <1>4, <1>5

LEMMA BeginSees ==
  ASSUME Looks, NEW p \in Tasks, NEW action, NEW m, Known(m), NEW v, NEW list,
         Begin(p, action, m, v, list)
  PROVE  Sees(p)
<1> DEFINE s == IF action = "submit" THEN Bumped(session) ELSE session
           t == [Idle EXCEPT !.action = action, !.message = m, !.vac = v, !.list = list,
                             !.generation = s.generation]
<1>1. UNCHANGED <<shown, locks, astray>>
  BY DEF Begin
<1> SUFFICES Views(p)
  BY <1>1, QuietFades DEF Sees
<1>2. IF hydrated THEN Act(p, t, s)
      ELSE /\ Become(p, [t EXCEPT !.at = "hydrating"])
           /\ session' = s /\ hydrated' = TRUE
  BY DEF Begin
<1>3. Like(session, s)
  BY TaskKnown, SessionLike
<1>4. Found(s) /\ IsSession(s)
  BY <1>1, <1>3, CurrentLooks, LikeFound DEF Like
<1> HIDE DEF s
<1>5. /\ IsTask(t) /\ t.message = m /\ t.target = 0 /\ t.draw = Idle.draw
  BY <1>4 DEF IsTask, IsSession, TaskFields, Idle
<1>6. /\ Known(t.message) /\ Known(t.target) /\ IsPage(t.draw)
  BY <1>5, IdleIsHarmless DEF Known
<1> HIDE DEF t
<1>7. CASE hydrated
  BY <1>2, <1>4, <1>5, <1>6, <1>7, TaskKnown, ActViews
<1>8. CASE ~hydrated
  <2>1. /\ task'[p] = [t EXCEPT !.at = "hydrating"] /\ session' = s /\ hydrated' = TRUE
    BY <1>2, <1>8 DEF Become, Looks, Shape
  <2>2. /\ task'[p].at = "hydrating" /\ task'[p].message = t.message
        /\ task'[p].target = t.target /\ task'[p].draw = t.draw
    BY <1>5, <2>1 DEF IsTask, TaskFields
  <2>3. QED
    BY <1>4, <1>6, <2>1, <2>2 DEF Views, Found, Searches, Waiting
<1>9. QED
  BY <1>7, <1>8

-----------------------------------------------------------------------------
(* What a step under the lock shows *)

\* One message gets the page, an active one or, if that goes astray or no other
\* is active, a new one.
Paints(p) ==
  /\ \E m \in Messages :
       /\ shown' = [shown EXCEPT ![m] = task[p].draw]
       /\ \/ Active(m)
          \/ shown[m] = Unsent /\ (("messages" \in astray') \/ \A n \in Messages : ~Active(n))
       /\ session'.message \in {session.message, m}
       /\ task'[p].row # None => task'[p].row.message = session'.message
  /\ \A q \in Tasks :
       task'[q].message = task[q].message /\ task'[q].target = task[q].target
  /\ hydrated => hydrated' /\ session'.screen = session.screen
  /\ hydrated /\ task'[p].row # None => task'[p].row.screen = session.screen

LEMMA DrawnPaints ==
  ASSUME Looks, NEW p \in Tasks, NEW m \in Messages, NEW answer, HoldsLock(p),
         Drawn(p, m, answer),
         \/ Active(m)
         \/ shown[m] = Unsent /\ (("messages" \in astray') \/ \A n \in Messages : ~Active(n))
  PROVE  Paints(p)
<1> DEFINE s == IF task[p].orphan THEN session ELSE [Current EXCEPT !.message = m]
           r == IF s.message = 0 THEN None ELSE Snapshot(s)
           t == [task[p] EXCEPT !.at = "edited", !.answer = answer, !.row = r]
<1>1. /\ session' = s /\ shown' = [shown EXCEPT ![m] = task[p].draw]
      /\ hydrated' = (hydrated \/ ~task[p].orphan)
      /\ task' = [q \in Tasks |->
           IF q = p THEN t
           ELSE IF task[q].at # "idle" /\ Cancels(task[p].action) /\ Before(q, p)
           THEN [task[q] EXCEPT !.superseded = TRUE]
           ELSE task[q]]
  BY DEF Drawn
<1>2. IsSession(session) /\ IsSession(Current) /\ \A q \in Tasks : IsTask(task[q])
  <2>1. Keeps(session, session)
    BY DEF Looks, Shape, Keeps
  <2>2. QED
    BY <2>1, CurrentKeeps DEF Looks, Shape, Keeps
<1>3. /\ s.message \in {session.message, m}
      /\ hydrated => s.screen = session.screen
  BY <1>2 DEF IsSession, SessionFields, Current
<1>4. r # None => r.message = s.message /\ r.screen = s.screen
  BY DEF Snapshot
<1> HIDE DEF s, r
<1>5. t.message = task[p].message /\ t.target = task[p].target /\ t.row = r
  BY <1>2 DEF IsTask, TaskFields
<1> HIDE DEF t
<1>6. ASSUME NEW q \in Tasks
      PROVE  task'[q].message = task[q].message /\ task'[q].target = task[q].target
  <2>1. CASE q = p
    BY <1>1, <1>5, <2>1
  <2>2. CASE q # p
    <3>1. task'[q] = task[q] \/ task'[q] = [task[q] EXCEPT !.superseded = TRUE]
      BY <1>1, <2>2
    <3>2. IsTask(task[q])
      BY <1>2
    <3>3. QED
      BY <3>1, <3>2 DEF IsTask, TaskFields
  <2>3. QED
    BY <2>1, <2>2
<1>7. task'[p] = t
  BY <1>1
<1>8. QED
  BY <1>1, <1>3, <1>4, <1>5, <1>6, <1>7 DEF Paints

LEMMA EditPaints ==
  ASSUME Looks, NEW p \in Tasks, Edit(p)
  PROVE  Paints(p)
<1> DEFINE m == Target(p)
<1>1. /\ HoldsLock(p) /\ ~Missing(m) /\ UNCHANGED locks
      /\ Drawn(p, m, ~(shown[m] = task[p].draw /\ task[p].target = 0))
  BY DEF Edit, past
<1>2. Known(m)
  <2>1. Found(Current) /\ Known(task[p].target)
    BY <1>1, CurrentLooks, TaskKnown
  <2>2. QED
    BY <2>1 DEF Found, Target
<1> HIDE DEF m
<1>3. m \in Messages /\ Active(m)
  BY <1>1, <1>2 DEF Known, Missing, Active
<1>4. QED
  BY <1>1, <1>3, DrawnPaints

LEMMA SendPaints ==
  ASSUME Looks, NEW p \in Tasks, Send(p)
  PROVE  Paints(p)
<1>1. PICK m \in Messages : shown[m] = Unsent /\ Drawn(p, m, TRUE)
  BY DEF Send
<1>2. HoldsLock(p) /\ (("messages" \in astray') \/ \A n \in Messages : ~Active(n))
  BY DEF Send
<1>3. QED
  BY <1>1, <1>2, DrawnPaints

\* Who leaves the lock speaks of the same messages, and goes on searching only
\* if its render was to be followed by that.
Departs(p) ==
  /\ shown' = shown
  /\ Known(task'[p].message) /\ Known(task'[p].target) /\ IsPage(task'[p].draw)
  /\ Searches(p)' => task[p].then \in {"wanting", "searching"}

LEMMA ContinueDeparts ==
  ASSUME Looks, NEW p \in Tasks, NEW t, IsTask(t), Continue(p, t), shown' = shown,
         t.message = task[p].message, t.target = task[p].target, t.draw = task[p].draw,
         t.then = task[p].then
  PROVE  Departs(p)
<1>1. Known(t.message) /\ Known(t.target) /\ IsPage(t.draw)
  BY TaskKnown
<1>2. DOMAIN task = Tasks
  BY DEF Looks, Shape
<1>3. CASE Become(p, Idle)
  <2>1. task'[p] = Idle
    BY <1>2, <1>3 DEF Become
  <2>2. QED
    BY <2>1, IdleIsHarmless DEF Departs, Known, Searches, Waiting
<1>4. CASE \/ Become(p, [t EXCEPT !.at = "working", !.generation = session.generation + 1])
           \/ Become(p, [t EXCEPT !.at = "marking"])
  <2>1. \/ task'[p] = [t EXCEPT !.at = "working", !.generation = session.generation + 1]
        \/ task'[p] = [t EXCEPT !.at = "marking"]
    BY <1>2, <1>4 DEF Become
  <2>2. /\ task'[p].at \in {"working", "marking"} /\ task'[p].message = t.message
        /\ task'[p].target = t.target /\ task'[p].draw = t.draw
    BY <2>1 DEF IsTask, TaskFields
  <2>3. QED
    BY <1>1, <2>2 DEF Departs, Searches, Waiting
<1>5. CASE t.then \in {"working", "wanting", "searching"} /\ Become(p, [t EXCEPT !.at = t.then])
  <2>1. task'[p] = [t EXCEPT !.at = t.then]
    BY <1>2, <1>5 DEF Become
  <2>2. /\ task'[p].at = t.then /\ task'[p].message = t.message
        /\ task'[p].target = t.target /\ task'[p].draw = t.draw
    BY <2>1 DEF IsTask, TaskFields
  <2>3. QED
    BY <1>1, <1>5, <2>2 DEF Departs, Searches, Waiting
<1>6. QED
  BY <1>3, <1>4, <1>5 DEF Continue

LEMMA PersistDeparts ==
  ASSUME Looks, NEW p \in Tasks, Persist(p)
  PROVE  Departs(p)
<1> DEFINE t == [task[p] EXCEPT !.row = None, !.orphan = FALSE]
<1>1. Continue(p, t) /\ shown' = shown
  BY DEF Persist
<1>2. /\ IsTask(t) /\ t.message = task[p].message /\ t.target = task[p].target
      /\ t.draw = task[p].draw /\ t.then = task[p].then
  BY TaskKnown DEF IsTask, TaskFields
<1> HIDE DEF t
<1>3. QED
  BY <1>1, <1>2, ContinueDeparts

LEMMA DrawFailsDeparts ==
  ASSUME Looks, NEW p \in Tasks, DrawFails(p)
  PROVE  Departs(p)
<1> DEFINE t == [task[p] EXCEPT !.answer = FALSE, !.orphan = FALSE]
<1>1. Continue(p, t) /\ shown' = shown
  BY DEF DrawFails
<1>2. /\ IsTask(t) /\ t.message = task[p].message /\ t.target = task[p].target
      /\ t.draw = task[p].draw /\ t.then = task[p].then
  BY TaskKnown DEF IsTask, TaskFields
<1> HIDE DEF t
<1>3. QED
  BY <1>1, <1>2, ContinueDeparts

-----------------------------------------------------------------------------
(* The messages *)

StillKnown(m) == m = 0 \/ (m \in Messages /\ shown'[m] # Unsent)

LEMMA FadesKnown ==
  ASSUME Fades, NEW m, Known(m)
  PROVE  StillKnown(m)
<1>1. Gone # Unsent
  BY DEF Gone, Unsent, Page
<1>2. QED
  BY <1>1 DEF Fades, Known, StillKnown

LEMMA PaintsKnown ==
  ASSUME Looks, NEW p \in Tasks, Paints(p)
  PROVE  /\ DOMAIN shown' = Messages
         /\ \A m : Known(m) => StillKnown(m)
         /\ StillKnown(session'.message)
<1>1. PICK m \in Messages :
        /\ shown' = [shown EXCEPT ![m] = task[p].draw]
        /\ session'.message \in {session.message, m}
  BY DEF Paints
<1>2. task[p].draw # Unsent
  BY TaskKnown DEF IsPage, Unsent, Page
<1>3. DOMAIN shown = Messages /\ Known(session.message)
  BY DEF Looks, Messaging
<1>4. QED
  BY <1>1, <1>2, <1>3 DEF Known, StillKnown

LEMMA SeesMessaging ==
  ASSUME Looks, NEW p \in Tasks, RunsOn(p), Sees(p)
  PROVE  Messaging'
<1>1. \A m : Known(m) => StillKnown(m)
  BY FadesKnown DEF Sees
<1>2. DOMAIN shown' = Messages /\ StillKnown(session'.message)
  BY <1>1 DEF Sees, Fades, Views
<1>3. db' # None => StillKnown(db'.message)
  BY <1>1 DEF RunsOn, Looks, Messaging
<1>4. ASSUME NEW q \in Tasks
      PROVE  /\ StillKnown(task'[q].message) /\ StillKnown(task'[q].target)
             /\ task'[q].row # None => StillKnown(task'[q].row.message)
             /\ IsPage(task'[q].draw)
  <2>1. CASE q = p
    BY <1>1, <2>1 DEF RunsOn, Sees, Views, Looks, Messaging
  <2>2. CASE q # p
    <3>1. task'[q] = task[q]
      BY <2>2 DEF RunsOn, Alone
    <3>2. QED
      BY <1>1, <3>1 DEF Looks, Messaging
  <2>3. QED
    BY <2>1, <2>2
<1>5. QED
  BY <1>2, <1>3, <1>4 DEF Messaging, Known, StillKnown

LEMMA PaintsMessaging ==
  ASSUME Looks, NEW p \in Tasks, Draws(p), Paints(p)
  PROVE  Messaging'
<1>1. /\ DOMAIN shown' = Messages /\ \A m : Known(m) => StillKnown(m)
      /\ StillKnown(session'.message)
  BY PaintsKnown
<1>2. db' # None => StillKnown(db'.message)
  BY <1>1 DEF Draws, Looks, Messaging
<1>3. ASSUME NEW q \in Tasks
      PROVE  /\ StillKnown(task'[q].message) /\ StillKnown(task'[q].target)
             /\ task'[q].row # None => StillKnown(task'[q].row.message)
             /\ IsPage(task'[q].draw)
  <2>1. /\ task'[q].message = task[q].message /\ task'[q].target = task[q].target
        /\ task'[q].draw = task[q].draw
    BY DEF Paints, Draws
  <2>2. task'[q].row # None => StillKnown(task'[q].row.message)
    <3>1. CASE q = p
      BY <1>1, <3>1 DEF Paints
    <3>2. CASE q # p
      <4>1. task'[q].row = task[q].row
        BY <3>2 DEF Draws
      <4>2. QED
        BY <1>1, <4>1 DEF Looks, Messaging
    <3>3. QED
      BY <3>1, <3>2
  <2>3. QED
    BY <1>1, <2>1, <2>2 DEF Looks, Messaging
<1>4. QED
  BY <1>1, <1>2, <1>3 DEF Messaging, Known, StillKnown

LEMMA DepartsMessaging ==
  ASSUME Looks, NEW p \in Tasks, Leaves(p), Departs(p)
  PROVE  Messaging'
<1>1. \A m : Known(m) => StillKnown(m)
  BY DEF Departs, Known, StillKnown
<1>2. DOMAIN shown' = Messages /\ StillKnown(session'.message)
  BY <1>1 DEF Departs, Leaves, SamePosition, Looks, Messaging
<1>3. db' # None => StillKnown(db'.message)
  BY <1>1 DEF Leaves, Looks, Messaging
<1>4. ASSUME NEW q \in Tasks
      PROVE  /\ StillKnown(task'[q].message) /\ StillKnown(task'[q].target)
             /\ task'[q].row # None => StillKnown(task'[q].row.message)
             /\ IsPage(task'[q].draw)
  <2>1. CASE q = p
    BY <1>1, <2>1 DEF Leaves, Departs, Looks, Messaging
  <2>2. CASE q # p
    <3>1. task'[q] = task[q]
      BY <2>2 DEF Leaves, Alone
    <3>2. QED
      BY <1>1, <3>1 DEF Looks, Messaging
  <2>3. QED
    BY <2>1, <2>2
<1>5. QED
  BY <1>2, <1>3, <1>4 DEF Messaging, Known, StillKnown

\* A message that faded shows nothing new.
LEMMA FadesActive ==
  ASSUME Fades
  PROVE  /\ \A m \in Messages : Active(m)' => Active(m) /\ shown'[m] = shown[m]
         /\ OneActiveMessage => OneActiveMessage'
         /\ \A page : Everywhere(page) => Everywhere(page)'
<1>1. \A m \in Messages : Active(m)' => Active(m) /\ shown'[m] = shown[m]
  BY DEF Fades, Active
<1>2. QED
  BY <1>1 DEF OneActiveMessage, Everywhere

\* After a page was drawn it is what the chat's one message shows.
LEMMA PaintsEverywhere ==
  ASSUME Looks, OneMessage, NEW p \in Tasks, Paints(p), astray \subseteq astray',
         "messages" \notin astray'
  PROVE  /\ OneActiveMessage'
         /\ \A n \in Messages : Active(n)' => shown'[n] = task[p].draw
<1>1. PICK m \in Messages :
        /\ shown' = [shown EXCEPT ![m] = task[p].draw]
        /\ Active(m) \/ \A n \in Messages : ~Active(n)
  BY DEF Paints
<1>2. OneActiveMessage
  BY DEF OneMessage
<1>3. DOMAIN shown = Messages
  BY DEF Looks, Messaging
<1>4. \A n \in Messages : Active(n)' => n = m
  BY <1>1, <1>2, <1>3 DEF OneActiveMessage, Active
<1>5. shown'[m] = task[p].draw
  BY <1>1, <1>3
<1>6. QED
  BY <1>4, <1>5 DEF OneActiveMessage

-----------------------------------------------------------------------------
(* The screen of the search *)

\* While the chat has one lock, a task in the queue draws as its first.
LEMMA First ==
  ASSUME IInv, Calm, NEW p \in Tasks, task[p].at = "edited" \/ HoldsLock(p)
  PROVE  /\ queue # <<>> /\ queue[1] = p /\ DOMAIN queue = 1..Len(queue) /\ Len(queue) \in Nat
         /\ Len(queue) >= 1 /\ task[p].orphan = FALSE
         /\ \A i, j \in 1..Len(queue) : queue[i] = queue[j] => i = j
         /\ \A i \in 1..Len(queue) : queue[i] \in Tasks
<1>1. Queue /\ Lock /\ locks = 0
  BY DEF IInv, Calm, Orderly
<1>2. /\ queue \in Seq(Tasks) /\ task[p].orphan = FALSE
      /\ \A i, j \in DOMAIN queue : queue[i] = queue[j] => i = j
  BY <1>1 DEF Queue, Lock
<1>3. InQueue(p) /\ queue[1] = p
  <2>1. CASE task[p].at = "edited"
    BY <1>1, <2>1 DEF Queue, Lock, Waiting
  <2>2. CASE HoldsLock(p)
    BY <1>1, <2>2, Holder DEF InQueue
  <2>3. QED
    BY <2>1, <2>2
<1>4. queue # <<>> /\ DOMAIN queue = 1..Len(queue) /\ Len(queue) \in Nat /\ Len(queue) >= 1
  BY <1>2, <1>3 DEF InQueue
<1>5. QED
  BY <1>2, <1>3, <1>4

\* What the last of the queue is going to draw, after a step of another task.
LEMMA EndsStays ==
  ASSUME Queue, NEW p \in Tasks, Alone(p), task[p].at \notin Waiting, queue' = queue, Fades,
         Ends(SearchPage)
  PROVE  Ends(SearchPage)'
<1>1. CASE queue = <<>>
  BY <1>1, FadesActive DEF Ends, Everywhere, Fades
<1>2. CASE queue # <<>>
  <2> DEFINE last == queue[Len(queue)]
  <2>1. Len(queue) \in DOMAIN queue /\ last \in Tasks
    BY <1>2 DEF Queue
  <2>2. InQueue(last)
    BY <2>1 DEF InQueue
  <2>3. last # p
    BY <2>1, <2>2 DEF Queue
  <2>4. task'[last] = task[last]
    BY <2>1, <2>3 DEF Alone
  <2>5. QED
    BY <1>2, <2>4 DEF Ends, SearchPage, Page
<1>3. QED
  BY <1>1, <1>2

\* A task outside the lock.
LEMMA SeesCalm ==
  ASSUME NEW p \in Tasks, RunsOn(p), Sees(p), Calm'
  PROVE  Calm
  BY DEF Calm, Orderly, RunsOn, Sees

LEMMA SeesSearched ==
  ASSUME IInv, Looks, Searched, NEW p \in Tasks, RunsOn(p), Sees(p)
  PROVE  Searched'
<1> SUFFICES ASSUME Calm', NEW r \in Tasks, Searches(r)'
             PROVE  /\ session'.screen = "search" => Ends(SearchPage)'
                    /\ RowSearches' => Everywhere(SearchPage)'
                    /\ \A q \in Tasks :
                         task'[q].at = "edited" /\ queue'[Len(queue')] = q
                           /\ task'[q].row.screen = "search"
                           => task'[q].draw = SearchPage'
  BY DEF Searched
<1>1. Calm /\ Queue /\ queue \in Seq(Tasks)
  BY SeesCalm DEF IInv, Queue
<1>2. /\ Alone(p) /\ task[p].at \notin Waiting /\ Views(p) /\ Fades
  BY DEF RunsOn, Sees
<1>3. SearchPage' = SearchPage
  BY DEF SearchPage, Page
<1>4. CASE task'[p].at = "queued" /\ queue' = Append(queue, p)
  <2>1. queue' # <<>> /\ queue'[Len(queue')] = p
    BY <1>1, <1>4, AppendQueue
  <2>2. session'.screen = "search" => task'[p].draw = SearchPage
    BY <1>2, <1>4 DEF Views, IsPage
  <2>3. QED
    BY <1>3, <1>4, <2>1, <2>2 DEF Ends, RowSearches
<1>5. CASE task'[p].at \notin Waiting /\ queue' = queue
  <2>1. Searches(r)
    <3>1. CASE r = p
      BY <1>2, <1>5, <3>1 DEF Views, Waiting
    <3>2. CASE r # p
      <4>1. task'[r] = task[r]
        BY <1>2, <3>2 DEF Alone
      <4>2. QED
        BY <4>1 DEF Searches
    <3>3. QED
      BY <3>1, <3>2
  <2>2. /\ session.screen = "search" => Ends(SearchPage)
        /\ RowSearches => Everywhere(SearchPage)
        /\ \A q \in Tasks :
             task[q].at = "edited" /\ queue[Len(queue)] = q /\ task[q].row.screen = "search"
               => task[q].draw = SearchPage
    BY <1>1, <2>1 DEF Searched
  <2>3. Everywhere(SearchPage) => Everywhere(SearchPage)'
    BY <1>2, <1>3, FadesActive DEF Everywhere
  <2>4. Ends(SearchPage) => Ends(SearchPage)'
    BY <1>1, <1>2, <1>5, EndsStays
  <2>5. RowSearches => Ends(SearchPage)
    BY <2>2 DEF RowSearches, Ends
  <2>6. session'.screen = "search" => session.screen = "search" \/ RowSearches
    BY <1>2, <1>5 DEF Views, Waiting
  <2>7. RowSearches' => RowSearches
    BY <1>5 DEF RowSearches, RunsOn
  <2>8. ASSUME NEW q \in Tasks, task'[q].at = "edited"
        PROVE  task'[q] = task[q]
    BY <1>2, <1>5, <2>8 DEF Alone, Waiting
  <2>9. QED
    BY <1>3, <1>5, <2>2, <2>3, <2>4, <2>5, <2>6, <2>7, <2>8
<1>6. QED
  BY <1>4, <1>5 DEF RunsOn

LEMMA SeesDrawing ==
  ASSUME IInv, Looks, Searched, Drawing, NEW p \in Tasks, RunsOn(p), Sees(p)
  PROVE  Drawing'
<1> SUFFICES ASSUME Calm'
             PROVE  /\ \A q \in Tasks : task'[q].at = "edited" =>
                         Everywhere(task[q].draw)' /\ task'[q].row # None
                    /\ \A i \in DOMAIN queue' :
                         task'[queue'[i]].at = "queued" /\ task'[queue'[i]].then = "searching" =>
                           IF i = 1 THEN Everywhere(SearchPage)'
                           ELSE task'[queue'[i - 1]].draw = SearchPage
  BY DEF Drawing, SearchPage, Page
<1>1. /\ Calm /\ Queue /\ queue \in Seq(Tasks)
  BY SeesCalm DEF IInv, Queue
<1>2. /\ Alone(p) /\ task[p].at \notin Waiting /\ Views(p) /\ Fades
  BY DEF RunsOn, Sees
<1>3. /\ DOMAIN queue = 1..Len(queue) /\ Len(queue) \in Nat
      /\ \A i \in 1..Len(queue) : queue[i] \in Tasks
  BY <1>1
<1>4. \A i \in 1..Len(queue) : queue[i] # p
  BY <1>1, <1>2, <1>3 DEF Queue, InQueue
<1>5. \A i \in 1..Len(queue) : task'[queue[i]] = task[queue[i]]
  BY <1>2, <1>3, <1>4 DEF Alone
<1>6. Everywhere(SearchPage) => Everywhere(SearchPage)'
  BY <1>2, FadesActive DEF Everywhere, SearchPage, Page
<1>7. ASSUME NEW q \in Tasks, task'[q].at = "edited"
      PROVE  Everywhere(task[q].draw)' /\ task'[q].row # None
  <2>1. task'[q] = task[q]
    BY <1>2, <1>7 DEF Alone, RunsOn, Waiting
  <2>2. Everywhere(task[q].draw) /\ task[q].row # None
    BY <1>1, <1>7, <2>1 DEF Drawing
  <2>3. QED
    BY <1>2, <2>1, <2>2, FadesActive DEF Everywhere
<1>8. ASSUME NEW i \in 1..Len(queue), task'[queue[i]].at = "queued",
             task'[queue[i]].then = "searching"
      PROVE  IF i = 1 THEN Everywhere(SearchPage)' ELSE task'[queue[i - 1]].draw = SearchPage
  <2>1. IF i = 1 THEN Everywhere(SearchPage) ELSE task[queue[i - 1]].draw = SearchPage
    BY <1>1, <1>3, <1>5, <1>8 DEF Drawing
  <2>2. i # 1 => i - 1 \in 1..Len(queue)
    BY <1>3
  <2>3. QED
    BY <1>5, <1>6, <2>1, <2>2
<1>9. CASE task'[p].at \notin Waiting /\ queue' = queue
  BY <1>3, <1>7, <1>8, <1>9
<1>10. CASE task'[p].at = "queued" /\ queue' = Append(queue, p)
  <2> DEFINE n == Len(queue)
  <2>1. /\ DOMAIN queue' = 1..(n + 1) /\ n \in Nat /\ queue'[n + 1] = p
        /\ \A i \in 1..n : queue'[i] = queue[i]
    BY <1>1, <1>10, AppendQueue
  <2>2. ASSUME task'[p].then = "searching"
        PROVE  IF n = 0 THEN Everywhere(SearchPage)' ELSE task'[queue[n]].draw = SearchPage
    <3>1. Searches(p) /\ session.screen = "search"
      BY <1>2, <1>10, <2>2 DEF Views, Searches
    <3>2. Ends(SearchPage)
      BY <1>1, <3>1 DEF Searched
    <3>3. n = 0 <=> queue = <<>>
      BY <1>1
    <3>4. QED
      BY <1>3, <1>5, <1>6, <3>2, <3>3 DEF Ends
  <2> HIDE DEF n
  <2>3. ASSUME NEW i \in 1..(n + 1), task'[queue'[i]].at = "queued",
               task'[queue'[i]].then = "searching"
        PROVE  IF i = 1 THEN Everywhere(SearchPage)' ELSE task'[queue'[i - 1]].draw = SearchPage
    <3>1. CASE i = n + 1
      <4>1. IF n = 0 THEN Everywhere(SearchPage)' ELSE task'[queue[n]].draw = SearchPage
        BY <2>1, <2>2, <2>3, <3>1
      <4>2. n # 0 => queue'[i - 1] = queue[n] /\ i # 1
        BY <2>1, <3>1
      <4>3. n = 0 => i = 1
        BY <3>1
      <4>4. QED
        BY <4>1, <4>2, <4>3
    <3>2. CASE i # n + 1
      <4>1. i \in 1..n /\ queue'[i] = queue[i] /\ (i # 1 => queue'[i - 1] = queue[i - 1])
        BY <2>1, <3>2
      <4>2. QED
        BY <1>8, <2>3, <4>1 DEF n
    <3>3. QED
      BY <3>1, <3>2
  <2>4. QED
    BY <1>7, <2>1, <2>3
<1>11. QED
  BY <1>9, <1>10 DEF RunsOn

\* A task that draws: it is the first of the queue, and the session says what the
\* last of the queue is going to draw.
LEMMA PaintsSearched ==
  ASSUME IInv, Looks, Searched, NEW p \in Tasks, Draws(p), Paints(p)
  PROVE  Searched'
<1> SUFFICES ASSUME Calm', NEW r \in Tasks, Searches(r)'
             PROVE  /\ session'.screen = "search" => Ends(SearchPage)'
                    /\ RowSearches' => Everywhere(SearchPage)'
                    /\ \A q \in Tasks :
                         task'[q].at = "edited" /\ queue'[Len(queue')] = q
                           /\ task'[q].row.screen = "search"
                           => task'[q].draw = SearchPage'
  BY DEF Searched
<1>1. Calm /\ HoldsLock(p) /\ queue' = queue
  BY DEF Calm, Orderly, Draws
<1>2. /\ queue # <<>> /\ queue[1] = p /\ DOMAIN queue = 1..Len(queue) /\ Len(queue) \in Nat
      /\ Len(queue) >= 1 /\ \A i \in 1..Len(queue) : queue[i] \in Tasks
  BY <1>1, First
<1>3. hydrated
  BY <1>1, <1>2 DEF Looks, Restoring, Calm, Orderly
<1>4. \A q \in Tasks :
        /\ task'[q].draw = task[q].draw /\ task'[q].then = task[q].then
        /\ task'[q].at = IF q = p THEN "edited" ELSE task[q].at
  BY DEF Draws
<1>5. Searches(r)
  BY <1>1, <1>4 DEF Searches, Waiting, HoldsLock
<1>6. session.screen = "search" => task[queue[Len(queue)]].draw = SearchPage
  BY <1>1, <1>2, <1>5 DEF Searched, Ends
<1>7. /\ session'.screen = session.screen
      /\ task'[p].row # None => task'[p].row.screen = session.screen
  BY <1>3 DEF Paints
<1>8. task[p].orphan = FALSE /\ task'[p].row = Snapshot(session')
  BY <1>1, First DEF Draws
<1>9. task'[p].row.screen = session.screen
  BY <1>7, <1>8 DEF Snapshot
<1>10. SearchPage' = SearchPage
  BY DEF SearchPage, Page
<1>11. ASSUME NEW q \in Tasks, task'[q].at = "edited"
       PROVE  q = p
  BY <1>1, <1>2, <1>4, <1>11, First
<1>12. ~RowSearches'
  BY <1>1, <1>2 DEF RowSearches
<1>13. session'.screen = "search" => Ends(SearchPage)'
  BY <1>1, <1>2, <1>4, <1>6, <1>7, <1>10 DEF Ends
<1>14. QED
  BY <1>1, <1>2, <1>4, <1>6, <1>9, <1>10, <1>11, <1>12, <1>13

LEMMA PaintsDrawing ==
  ASSUME NoneIsNoRow, IInv, Looks, OneMessage, Drawing, NEW p \in Tasks, Draws(p), Paints(p)
  PROVE  Drawing'
<1> SUFFICES ASSUME Calm'
             PROVE  /\ \A q \in Tasks : task'[q].at = "edited" =>
                         Everywhere(task[q].draw)' /\ task'[q].row # None
                    /\ \A i \in DOMAIN queue' :
                         task'[queue'[i]].at = "queued" /\ task'[queue'[i]].then = "searching" =>
                           IF i = 1 THEN Everywhere(SearchPage)'
                           ELSE task'[queue'[i - 1]].draw = SearchPage
  BY DEF Drawing, SearchPage, Page
<1>1. Calm /\ HoldsLock(p) /\ queue' = queue
  BY DEF Calm, Orderly, Draws
<1>2. /\ queue # <<>> /\ queue[1] = p /\ DOMAIN queue = 1..Len(queue) /\ Len(queue) \in Nat
      /\ Len(queue) >= 1 /\ task[p].orphan = FALSE
      /\ \A i, j \in 1..Len(queue) : queue[i] = queue[j] => i = j
      /\ \A i \in 1..Len(queue) : queue[i] \in Tasks
  BY <1>1, First
<1>3. \A q \in Tasks :
        /\ task'[q].draw = task[q].draw /\ task'[q].then = task[q].then
        /\ task'[q].at = IF q = p THEN "edited" ELSE task[q].at
  BY DEF Draws
<1>4. ASSUME NEW q \in Tasks, task'[q].at = "edited"
      PROVE  Everywhere(task[q].draw)' /\ task'[q].row # None
  <2>1. q = p
    BY <1>1, <1>2, <1>3, <1>4, First
  <2>2. task'[p].row # None
    BY <1>2 DEF NoneIsNoRow, Draws
  <2>3. \A n \in Messages : Active(n)' => shown'[n] = task[p].draw
    BY PaintsEverywhere DEF Draws, Calm
  <2>4. QED
    BY <1>3, <2>1, <2>2, <2>3 DEF Everywhere
<1>5. ASSUME NEW i \in DOMAIN queue', task'[queue'[i]].at = "queued",
             task'[queue'[i]].then = "searching"
      PROVE  i # 1 /\ task'[queue'[i - 1]].draw = SearchPage
  <2>1. i \in 1..Len(queue) /\ queue[i] \in Tasks /\ queue'[i] = queue[i]
    BY <1>1, <1>2
  <2>2. i # 1
    BY <1>2, <1>3, <1>5, <2>1
  <2>3. i - 1 \in 1..Len(queue) /\ queue[i - 1] \in Tasks /\ queue'[i - 1] = queue[i - 1]
    BY <1>1, <1>2, <2>1, <2>2
  <2>4. queue[i] # p
    BY <1>2, <2>1, <2>2
  <2>5. task[queue[i]].at = "queued" /\ task[queue[i]].then = "searching"
    BY <1>3, <1>5, <2>1, <2>4
  <2>6. task[queue[i - 1]].draw = SearchPage
    BY <1>1, <1>2, <2>1, <2>2, <2>5 DEF Drawing
  <2>7. QED
    BY <1>3, <2>2, <2>3, <2>6
<1>6. QED
  BY <1>4, <1>5

LEMMA LengthIs ==
  ASSUME NEW S, NEW s \in Seq(S), NEW n \in Nat, DOMAIN s = 1..n
  PROVE  Len(s) = n
<1> DEFINE k == Len(s)
<1>1. k \in Nat /\ DOMAIN s = 1..k
  OBVIOUS
<1> HIDE DEF k
<1>2. k \in 1..n \/ k = 0
  <2>1. k \in 1..k \/ k = 0
    BY <1>1
  <2>2. QED
    BY <1>1, <2>1
<1>3. n \in 1..k \/ n = 0
  <2>1. n \in 1..n \/ n = 0
    OBVIOUS
  <2>2. QED
    BY <1>1, <2>1
<1>4. k = n
  <2>1. k \in Nat /\ n \in Nat
    BY <1>1
  <2>2. QED
    BY ONLY <1>2, <1>3, <2>1
<1>5. QED
  BY <1>4 DEF k

\* A task that leaves the lock: what it drew is on the screen, and is what the
\* next of the queue finds.
LEMMA DepartsSearched ==
  ASSUME IInv, Looks, Searched, Drawing, NEW p \in Tasks, Leaves(p), Departs(p)
  PROVE  Searched'
<1> SUFFICES ASSUME Calm', NEW r \in Tasks, Searches(r)'
             PROVE  /\ session'.screen = "search" => Ends(SearchPage)'
                    /\ RowSearches' => Everywhere(SearchPage)'
                    /\ \A q \in Tasks :
                         task'[q].at = "edited" /\ queue'[Len(queue')] = q
                           /\ task'[q].row.screen = "search"
                           => task'[q].draw = SearchPage'
  BY DEF Searched
<1>1. /\ Calm /\ ~situation.failing /\ task[p].at = "edited"
      /\ db' = IF task[p].row = None THEN db ELSE task[p].row
      /\ Alone(p) /\ task'[p].at # "edited" /\ session'.screen = session.screen
      /\ queue' = Without(queue, p) /\ shown' = shown
  BY DEF Calm, Orderly, Leaves, Leave, Departs, SamePosition
<1>2. /\ queue # <<>> /\ queue[1] = p /\ DOMAIN queue = 1..Len(queue) /\ Len(queue) \in Nat
      /\ Len(queue) >= 1
      /\ \A i, j \in 1..Len(queue) : queue[i] = queue[j] => i = j
      /\ \A i \in 1..Len(queue) : queue[i] \in Tasks
  BY <1>1, First
<1>3. Everywhere(task[p].draw) /\ task[p].row # None
  BY <1>1 DEF Drawing
<1>4. Searches(r)
  <2>1. CASE r = p
    BY <1>1, <2>1 DEF Departs, Searches, Waiting
  <2>2. CASE r # p
    BY <1>1, <2>2 DEF Alone, Searches
  <2>3. QED
    BY <2>1, <2>2
<1>5. /\ session.screen = "search" => task[queue[Len(queue)]].draw = SearchPage
      /\ \A q \in Tasks :
           task[q].at = "edited" /\ queue[Len(queue)] = q /\ task[q].row.screen = "search"
             => task[q].draw = SearchPage
  BY <1>1, <1>2, <1>4 DEF Searched, Ends
<1>6. /\ queue' \in Seq(Tasks) /\ DOMAIN queue' = 1..(Len(queue) - 1)
      /\ \A i \in 1..(Len(queue) - 1) : queue'[i] = queue[i + 1]
  <2>1. queue \in Seq(Tasks) /\ 1 \in DOMAIN queue
    BY <1>2 DEF IInv, Queue
  <2>2. /\ Without(queue, p) \in Seq(Tasks)
        /\ DOMAIN Without(queue, p) = 1..(Len(queue) - 1)
        /\ \A i \in 1..(Len(queue) - 1) :
             Without(queue, p)[i] = IF i < 1 THEN queue[i] ELSE queue[i + 1]
    BY <1>2, <2>1, WithoutOne
  <2>3. \A i \in 1..(Len(queue) - 1) : ~(i < 1)
    BY <1>2
  <2>4. QED
    BY <1>1, <2>2, <2>3
<1>7. Len(queue') = Len(queue) - 1
  <2>1. Len(queue) - 1 \in Nat
    BY <1>2
  <2>2. QED
    BY ONLY <1>6, <2>1, LengthIs
<1>8. SearchPage' = SearchPage
  BY DEF SearchPage, Page
<1>9. Everywhere(SearchPage)' <=> Everywhere(SearchPage)
  BY <1>1, <1>8 DEF Everywhere, Active
<1>10. CASE Len(queue) = 1
  <2>1. queue[Len(queue)] = p /\ queue' = <<>>
    BY <1>2, <1>6, <1>7, <1>10
  <2>2. session.screen = "search" => Everywhere(SearchPage)
    BY <1>3, <1>5, <2>1
  <2>3. RowSearches' => Everywhere(SearchPage)
    BY <1>1, <1>3, <1>5, <2>1 DEF RowSearches
  <2>4. Ends(SearchPage)' <=> Everywhere(SearchPage)'
    BY <2>1 DEF Ends
  <2>5. \A q \in Tasks : task'[q].at # "edited"
    <3>1. \A q \in Tasks : task[q].at = "edited" => q = p
      BY <1>1, <1>2, First
    <3>2. QED
      BY <1>1, <3>1 DEF Alone
  <2>6. QED
    BY <1>1, <1>8, <1>9, <2>2, <2>3, <2>4, <2>5
<1>11. CASE Len(queue) # 1
  <2> DEFINE last == queue[Len(queue)]
  <2>1. queue' # <<>> /\ queue'[Len(queue')] = last /\ last \in Tasks /\ last # p
    BY <1>2, <1>6, <1>7, <1>11
  <2>2. task'[last] = task[last]
    BY <1>1, <2>1 DEF Alone
  <2>3. \A q \in Tasks : task'[q].at # "edited"
    <3>1. \A q \in Tasks : task[q].at = "edited" => q = p
      BY <1>1, <1>2, First
    <3>2. QED
      BY <1>1, <3>1 DEF Alone
  <2>4. session'.screen = "search" => Ends(SearchPage)'
    BY <1>1, <1>5, <1>8, <2>1, <2>2 DEF Ends
  <2>5. QED
    BY <2>1, <2>3, <2>4 DEF RowSearches
<1>12. QED
  BY <1>10, <1>11

LEMMA DepartsDrawing ==
  ASSUME IInv, Looks, Drawing, NEW p \in Tasks, Leaves(p), Departs(p)
  PROVE  Drawing'
<1> SUFFICES ASSUME Calm'
             PROVE  /\ \A q \in Tasks : task'[q].at # "edited"
                    /\ \A i \in DOMAIN queue' :
                         task'[queue'[i]].at = "queued" /\ task'[queue'[i]].then = "searching" =>
                           IF i = 1 THEN Everywhere(SearchPage)'
                           ELSE task'[queue'[i - 1]].draw = SearchPage
  BY DEF Drawing, SearchPage, Page
<1>1. /\ Calm /\ ~situation.failing /\ task[p].at = "edited"
      /\ Alone(p) /\ task'[p].at # "edited"
      /\ queue' = Without(queue, p) /\ shown' = shown
  BY DEF Calm, Orderly, Leaves, Leave, Departs
<1>2. /\ queue # <<>> /\ queue[1] = p /\ DOMAIN queue = 1..Len(queue) /\ Len(queue) \in Nat
      /\ Len(queue) >= 1
      /\ \A i, j \in 1..Len(queue) : queue[i] = queue[j] => i = j
      /\ \A i \in 1..Len(queue) : queue[i] \in Tasks
  BY <1>1, First
<1>3. \A q \in Tasks : task'[q].at # "edited"
  <2>1. \A q \in Tasks : task[q].at = "edited" => q = p
    BY <1>1, <1>2, First
  <2>2. QED
    BY <1>1, <2>1 DEF Alone
<1>4. /\ DOMAIN queue' = 1..(Len(queue) - 1)
      /\ \A i \in 1..(Len(queue) - 1) : queue'[i] = queue[i + 1]
  <2>1. queue \in Seq(Tasks) /\ 1 \in DOMAIN queue
    BY <1>2 DEF IInv, Queue
  <2>2. /\ DOMAIN Without(queue, p) = 1..(Len(queue) - 1)
        /\ \A i \in 1..(Len(queue) - 1) :
             Without(queue, p)[i] = IF i < 1 THEN queue[i] ELSE queue[i + 1]
    BY <1>2, <2>1, WithoutOne
  <2>3. \A i \in 1..(Len(queue) - 1) : ~(i < 1)
    BY <1>2
  <2>4. QED
    BY <1>1, <2>2, <2>3
<1>5. Everywhere(SearchPage)' <=> Everywhere(SearchPage)
  BY <1>1 DEF Everywhere, Active, SearchPage, Page
<1>6. ASSUME NEW i \in 1..(Len(queue) - 1), task'[queue'[i]].at = "queued",
             task'[queue'[i]].then = "searching"
      PROVE  IF i = 1 THEN Everywhere(SearchPage)' ELSE task'[queue'[i - 1]].draw = SearchPage
  <2>1. /\ i + 1 \in 1..Len(queue) /\ i \in 1..Len(queue) /\ i + 1 # 1 /\ (i + 1) - 1 = i
        /\ queue'[i] = queue[i + 1] /\ i >= 1 /\ i \in Nat
    BY <1>2, <1>4
  <2>2. queue[i + 1] # p /\ queue[i + 1] \in Tasks
    BY <1>2, <2>1
  <2>3. task'[queue'[i]] = task[queue[i + 1]]
    BY <1>1, <2>1, <2>2 DEF Alone
  <2>4. task[queue[i]].draw = SearchPage
    BY <1>1, <1>2, <1>6, <2>1, <2>3 DEF Drawing
  <2>5. CASE i = 1
    <3>1. Everywhere(task[p].draw)
      BY <1>1 DEF Drawing
    <3>2. QED
      BY <1>2, <1>5, <2>4, <2>5, <3>1
  <2>6. CASE i # 1
    <3>1. i - 1 \in 1..(Len(queue) - 1) /\ (i - 1) + 1 = i
      BY <1>2, <2>1, <2>6
    <3>2. queue'[i - 1] = queue[i] /\ queue[i] # p /\ queue[i] \in Tasks
      BY <1>2, <1>4, <2>1, <2>6, <3>1
    <3>3. QED
      BY <1>1, <2>4, <2>6, <3>2 DEF Alone
  <2>7. QED
    BY <2>5, <2>6
<1>7. QED
  BY <1>3, <1>4, <1>6

-----------------------------------------------------------------------------
(* The invariant of what is shown *)

Showing == Messaging /\ OneMessage /\ Restoring /\ Searched /\ Drawing

LEMMA InitShowing ==
  ASSUME Init
  PROVE  Showing
<1>1. /\ \A p \in Tasks : task[p] = Idle
      /\ shown = [m \in Messages |-> Unsent] /\ session = Blank /\ db = None /\ queue = <<>>
  BY DEF Init
<1>2. Idle.row = None /\ Idle.then = "end" /\ Blank.message = 0
  BY DEF Idle, Blank
<1>3. Messaging
  BY <1>1, <1>2, IdleIsHarmless DEF Messaging, Known
<1>4. OneMessage
  BY <1>1 DEF OneMessage, OneActiveMessage, Active
<1>5. Restoring /\ Searched /\ Drawing
  BY <1>1, IdleIsHarmless DEF Restoring, Searched, Searches, Waiting, Drawing
<1>6. QED
  BY <1>3, <1>4, <1>5 DEF Showing

LEMMA SeesShowing ==
  ASSUME IInv, Showing, NEW p \in Tasks, Goes(p), Sees(p)
  PROVE  Showing'
<1>1. RunsOn(p) /\ Looks
  BY DEF Goes, Looks, IInv, Showing
<1>2. Messaging'
  BY <1>1, SeesMessaging
<1>3. OneMessage'
  BY FadesActive DEF OneMessage, Sees, Showing
<1>4. Restoring'
  BY <1>1 DEF Restoring, Looks, RunsOn, Sees, Views
<1>5. Searched' /\ Drawing'
  BY <1>1, SeesSearched, SeesDrawing DEF Showing
<1>6. QED
  BY <1>2, <1>3, <1>4, <1>5 DEF Showing

LEMMA PaintsShowing ==
  ASSUME NoneIsNoRow, IInv, Showing, NEW p \in Tasks, Draws(p), Paints(p)
  PROVE  Showing'
<1>1. Looks
  BY DEF Looks, IInv, Showing
<1>2. Messaging'
  BY <1>1, PaintsMessaging
<1>3. OneMessage'
  BY <1>1, PaintsEverywhere DEF OneMessage, Draws, Showing
<1>4. Restoring'
  BY <1>1 DEF Restoring, Looks, Draws, Paints
<1>5. Searched' /\ Drawing'
  BY <1>1, PaintsSearched, PaintsDrawing DEF Showing
<1>6. QED
  BY <1>2, <1>3, <1>4, <1>5 DEF Showing

LEMMA DepartsShowing ==
  ASSUME IInv, Showing, NEW p \in Tasks, Leaves(p), Departs(p)
  PROVE  Showing'
<1>1. Looks /\ Queue
  BY DEF Looks, IInv, Showing
<1>2. Messaging'
  BY <1>1, DepartsMessaging
<1>3. OneMessage'
  BY DEF OneMessage, OneActiveMessage, Active, Departs, Leaves, Showing
<1>4. Restoring'
  <2>1. InQueue(p)
    BY <1>1 DEF Leaves, Queue, Waiting, HoldsLock
  <2>2. queue # <<>>
    BY <2>1 DEF InQueue
  <2>3. QED
    BY <1>1, <2>2 DEF Restoring, Looks, Leaves
<1>5. Searched' /\ Drawing'
  BY <1>1, DepartsSearched, DepartsDrawing DEF Showing
<1>6. QED
  BY <1>2, <1>3, <1>4, <1>5 DEF Showing

\* Dropping the session: the chat gets no other lock only if nobody draws.
LEMMA CloseSessionShowing ==
  ASSUME IInv, Showing, NEW p \in Tasks, CloseSession(p)
  PROVE  Showing'
<1>1. /\ task[p].at = "dropping" /\ session' = Blank /\ hydrated' = FALSE
      /\ locks \in Nat /\ locks' = IF queue = <<>> THEN locks ELSE locks + 1
      /\ astray' = astray \ {"position"}
      /\ UNCHANGED <<shown, db, queue, situation>>
  BY DEF CloseSession, IInv, Shape
<1>2. PICK orphans \in SUBSET {q \in Tasks : HoldsLock(q)} :
        task' = [q \in Tasks |-> IF q = p THEN Idle
                                 ELSE [task[q] EXCEPT !.orphan = @ \/ q \in orphans]]
  BY DEF CloseSession
<1>3. task'[p] = Idle /\ Idle.row = None /\ Idle.then = "end"
  BY <1>2 DEF Idle
<1>4. ASSUME NEW q \in Tasks, q # p
      PROVE  /\ task'[q].at = task[q].at /\ task'[q].then = task[q].then
             /\ task'[q].draw = task[q].draw /\ task'[q].message = task[q].message
             /\ task'[q].target = task[q].target /\ task'[q].row = task[q].row
  <2>1. task'[q] = [task[q] EXCEPT !.orphan = @ \/ q \in orphans]
    BY <1>2, <1>4
  <2>2. IsTask(task[q])
    BY DEF IInv, Shape
  <2>3. QED
    BY <2>1, <2>2 DEF IsTask, TaskFields
<1>5. Blank.message = 0 /\ Blank.screen = "menu"
  BY DEF Blank
<1>6. Messaging'
  <2>1. \A m : Known(m) => StillKnown(m)
    BY <1>1 DEF Known, StillKnown
  <2>2. DOMAIN shown' = Messages /\ StillKnown(session'.message)
    BY <1>1, <1>5 DEF StillKnown, Showing, Messaging
  <2>3. db' # None => StillKnown(db'.message)
    BY <1>1, <2>1 DEF Showing, Messaging
  <2>4. ASSUME NEW q \in Tasks
        PROVE  /\ StillKnown(task'[q].message) /\ StillKnown(task'[q].target)
               /\ task'[q].row # None => StillKnown(task'[q].row.message)
               /\ IsPage(task'[q].draw)
    <3>1. CASE q = p
      BY <1>3, <3>1, IdleIsHarmless DEF StillKnown
    <3>2. CASE q # p
      BY <1>4, <2>1, <3>2 DEF Showing, Messaging
    <3>3. QED
      BY <3>1, <3>2
  <2>5. QED
    BY <2>2, <2>3, <2>4 DEF Messaging, Known, StillKnown
<1>7. OneMessage'
  BY <1>1 DEF OneMessage, OneActiveMessage, Active, Showing
<1>8. Restoring'
  BY <1>1 DEF Restoring
<1>9. ASSUME Calm'
      PROVE  Calm /\ queue = <<>>
  BY <1>1, <1>9 DEF Calm, Orderly
<1>10. queue = <<>> => \A q \in Tasks : task[q].at \notin Waiting
  BY DEF IInv, Queue, InQueue
<1>11. \A q \in Tasks : Searches(q)' => Searches(q)
  BY <1>3, <1>4, IdleIsHarmless DEF Searches, Waiting
<1>12. Everywhere(SearchPage) => Everywhere(SearchPage)'
  BY <1>1 DEF Everywhere, Active, SearchPage, Page
<1>13. \A q \in Tasks : queue = <<>> => task'[q].at # "edited"
  BY <1>3, <1>4, <1>10, IdleIsHarmless DEF Waiting
<1>14. Searched'
  <2> SUFFICES ASSUME Calm', NEW r \in Tasks, Searches(r)'
               PROVE  /\ session'.screen # "search"
                      /\ RowSearches' => Everywhere(SearchPage)'
                      /\ \A q \in Tasks : task'[q].at # "edited"
    BY DEF Searched
  <2>1. RowSearches => Everywhere(SearchPage)
    BY <1>9, <1>11 DEF Showing, Searched
  <2>2. RowSearches' => RowSearches
    BY <1>1 DEF RowSearches
  <2>3. QED
    BY <1>1, <1>5, <1>9, <1>12, <1>13, <2>1, <2>2
<1>15. Drawing'
  BY <1>1, <1>9, <1>13 DEF Drawing
<1>16. QED
  BY <1>6, <1>7, <1>8, <1>14, <1>15 DEF Showing

LEMMA RestartShowing ==
  ASSUME IInv, Showing, Restart
  PROVE  Showing'
<1>1. /\ \A p \in Tasks : task'[p] = Idle
      /\ session' = Blank /\ queue' = <<>>
      /\ astray' = astray \cap {"messages"}
      /\ UNCHANGED <<shown, db>>
  BY DEF Restart
<1>2. Idle.row = None /\ Idle.then = "end" /\ Blank.message = 0
  BY DEF Idle, Blank
<1>3. Messaging'
  BY <1>1, <1>2, IdleIsHarmless DEF Messaging, Known, Showing
<1>4. OneMessage'
  BY <1>1 DEF OneMessage, OneActiveMessage, Active, Showing
<1>5. Restoring' /\ Searched' /\ Drawing'
  BY <1>1, IdleIsHarmless DEF Restoring, Searched, Searches, Waiting, Drawing
<1>6. QED
  BY <1>3, <1>4, <1>5 DEF Showing

\* The user deletes a message of the chat, or nothing happens.
LEMMA RestShowing ==
  ASSUME IInv, Showing, Fades, UNCHANGED <<session, hydrated, db, queue, past, task>>
  PROVE  Showing'
<1> USE DEF past
<1>1. Messaging'
  <2>1. \A m : Known(m) => StillKnown(m)
    BY FadesKnown
  <2>2. DOMAIN shown' = Messages
    BY DEF Fades
  <2>3. QED
    BY <2>1, <2>2 DEF Showing, Messaging, Known, StillKnown
<1>2. OneMessage'
  BY FadesActive DEF OneMessage, Showing
<1>3. Restoring'
  BY DEF Restoring, Showing
<1>4. Calm' => Calm
  BY DEF Calm, Orderly
<1>5. \A page : Everywhere(page) => Everywhere(page)'
  BY FadesActive
<1>6. SearchPage' = SearchPage
  BY DEF SearchPage, Page
<1>7. Searched'
  <2> SUFFICES ASSUME Calm', NEW r \in Tasks, Searches(r)'
               PROVE  /\ session'.screen = "search" => Ends(SearchPage)'
                      /\ RowSearches' => Everywhere(SearchPage)'
                      /\ \A q \in Tasks :
                           task'[q].at = "edited" /\ queue'[Len(queue')] = q
                             /\ task'[q].row.screen = "search"
                             => task'[q].draw = SearchPage'
    BY DEF Searched
  <2>1. Searches(r) /\ Calm
    BY <1>4 DEF Searches
  <2>2. /\ session.screen = "search" => Ends(SearchPage)
        /\ RowSearches => Everywhere(SearchPage)
        /\ \A q \in Tasks :
             task[q].at = "edited" /\ queue[Len(queue)] = q /\ task[q].row.screen = "search"
               => task[q].draw = SearchPage
    BY <2>1 DEF Showing, Searched
  <2>3. RowSearches' => RowSearches
    BY DEF RowSearches
  <2>4. Everywhere(SearchPage) => Everywhere(SearchPage)'
    BY <1>5, <1>6 DEF Everywhere
  <2>5. Ends(SearchPage) => Ends(SearchPage)'
    BY <1>6, <2>4 DEF Ends
  <2>6. QED
    BY <1>6, <2>2, <2>3, <2>4, <2>5
<1>8. Drawing'
  <2> SUFFICES ASSUME Calm'
               PROVE  /\ \A q \in Tasks : task[q].at = "edited" =>
                           Everywhere(task[q].draw)' /\ task[q].row # None
                      /\ \A i \in DOMAIN queue :
                           task[queue[i]].at = "queued" /\ task[queue[i]].then = "searching" =>
                             IF i = 1 THEN Everywhere(SearchPage)'
                             ELSE task[queue[i - 1]].draw = SearchPage
    BY <1>6 DEF Drawing
  <2>1. Drawing /\ Calm
    BY <1>4 DEF Showing
  <2>2. \A q \in Tasks : Everywhere(task[q].draw) => Everywhere(task[q].draw)'
    BY <1>5 DEF Everywhere
  <2>3. Everywhere(SearchPage) => Everywhere(SearchPage)'
    BY <1>5, <1>6 DEF Everywhere
  <2>4. QED
    BY <2>1, <2>2, <2>3 DEF Drawing
<1>9. QED
  BY <1>1, <1>2, <1>3, <1>7, <1>8 DEF Showing

LEMMA HandleShowing ==
  ASSUME NoneIsNoRow, IInv, Showing, NEW p \in Tasks, Handle(p)
  PROVE  Showing'
<1>1. Shape /\ Path /\ Looks
  BY DEF IInv, Showing, Looks
<1>2. CASE Goes(p) /\ Sees(p)
  BY <1>2, SeesShowing
<1>3. CASE Draws(p) /\ Paints(p)
  BY <1>3, PaintsShowing
<1>4. CASE Leaves(p) /\ Departs(p)
  BY <1>4, DepartsShowing
<1>5. CASE Hydrate(p)
  BY <1>1, <1>2, <1>5, HydrateGoes, HydrateSees
<1>6. CASE Reply(p)
  BY <1>1, <1>2, <1>6, ReplyGoes, ReplySees
<1>7. CASE RenderCard(p)
  BY <1>1, <1>2, <1>7, RenderCardGoes, RenderCardSees
<1>8. CASE Edit(p)
  BY <1>1, <1>3, <1>8, EditDraws, EditPaints
<1>9. CASE Send(p)
  BY <1>1, <1>3, <1>9, SendDraws, SendPaints
<1>10. CASE Persist(p)
  BY <1>1, <1>4, <1>10, PersistLeaves, PersistDeparts
<1>11. CASE DrawFails(p)
  BY <1>1, <1>4, <1>11, DrawFailsLeaves, DrawFailsDeparts
<1>12. CASE MarkSent(p)
  BY <1>1, <1>2, <1>12, MarkSentGoes, MarkSentSees
<1>13. CASE Prepared(p)
  BY <1>1, <1>2, <1>13, PreparedGoes, PreparedSees
<1>14. CASE Submitted(p)
  BY <1>1, <1>2, <1>14, SubmittedGoes, SubmittedSees
<1>15. CASE EnterSearch(p)
  BY <1>1, <1>2, <1>15, EnterSearchGoes, EnterSearchSees
<1>16. CASE Progress(p)
  BY <1>1, <1>2, <1>16, ProgressGoes, ProgressSees
<1>17. CASE SearchDone(p)
  BY <1>1, <1>2, <1>17, SearchDoneGoes, SearchDoneSees
<1>18. CASE Listed(p)
  BY <1>1, <1>2, <1>18, ListedGoes, ListedSees
<1>19. CASE SearchFails(p)
  BY <1>1, <1>2, <1>19, SearchFailsGoes, SearchFailsSees
<1>20. CASE CloseMessage(p)
  BY <1>1, <1>2, <1>20, CloseMessageGoes, CloseMessageSees
<1>21. CASE CloseRow(p)
  BY <1>1, <1>2, <1>21, CloseRowGoes, CloseRowSees
<1>22. CASE CloseSession(p)
  BY <1>22, CloseSessionShowing
<1>23. QED
  BY <1>5, <1>6, <1>7, <1>8, <1>9, <1>10, <1>11, <1>12, <1>13, <1>14, <1>15, <1>16, <1>17,
     <1>18, <1>19, <1>20, <1>21, <1>22
  DEF Handle, Draw

LEMMA NextShowing ==
  ASSUME NoneIsNoRow, IInv, Showing, [Next]_vars
  PROVE  Showing'
<1>1. Shape /\ Looks
  BY DEF IInv, Showing, Looks
<1>2. ASSUME NEW p \in Tasks, NEW action, NEW m, Known(m), NEW v, NEW list,
             Begin(p, action, m, v, list)
      PROVE  Showing'
  BY <1>1, <1>2, BeginGoes, BeginSees, SeesShowing
<1>3. Known(0)
  BY DEF Known
<1>4. CASE \E p \in Handlers : Command(p) \/ \E m \in Messages : Tap(p, m)
  <2>1. \A m \in Messages : Active(m) => Known(m)
    BY DEF Active, Known
  <2>2. QED
    BY <1>2, <1>3, <1>4, <2>1 DEF Command, Tap, Tasks
<1>5. CASE Digest \/ Connected
  BY <1>2, <1>3, <1>5 DEF Digest, Connected, Tasks
<1>6. CASE \E p \in Tasks : Handle(p)
  BY <1>6, HandleShowing
<1>7. CASE \E m \in Messages : DeleteMessage(m)
  <2>1. PICK m \in Messages : DeleteMessage(m)
    BY <1>7
  <2>2. Fades
    BY <1>1, <2>1 DEF DeleteMessage, Fades, Looks, Messaging
  <2>3. QED
    BY <2>1, <2>2, RestShowing DEF DeleteMessage
<1>8. CASE Restart
  BY <1>8, RestartShowing
<1>9. CASE UNCHANGED vars
  <2>1. Fades
    BY <1>1, <1>9, QuietFades DEF vars
  <2>2. QED
    BY <1>9, <2>1, RestShowing DEF vars, past
<1>10. QED
  BY <1>4, <1>5, <1>6, <1>7, <1>8, <1>9 DEF Next

\* The progress of a search finds the search's page on the chat's message, however
\* the handlers interleave: a handler that leaves the search changes the session
\* before it waits for the lock, progress reads the session when it starts to
\* wait, and the lock is first come, first served.
THEOREM ProgressKeepsScreens ==
  ASSUME NoneIsNoRow
  PROVE  Spec => ProgressNeverHidesAScreen
<1>1. Init => IInv /\ Showing
  BY InitIInv, InitShowing
<1>2. IInv /\ Showing /\ [Next]_vars => (IInv /\ Showing)'
  BY NoneIsNoRow, NextIInv, NextShowing
<1> DEFINE Keeping ==
      Orderly /\ astray \cap {"screen", "messages"} = {} =>
        \A p \in Handlers :
          HoldsLock(p) /\ task[p].then = "searching" /\ task'[p].at = "edited"
            => Shows(session.message, "search")
<1>3. IInv /\ Showing => Keeping
  <2> SUFFICES ASSUME IInv, Showing, Calm, NEW p \in Handlers, HoldsLock(p),
                      task[p].then = "searching"
               PROVE  Shows(session.message, "search")
    BY DEF Calm
  <2>1. p \in Tasks /\ 1 \in DOMAIN queue /\ queue[1] = p
    <3>1. p \in Tasks
      BY DEF Tasks
    <3>2. queue[1] = p /\ DOMAIN queue = 1..Len(queue) /\ Len(queue) \in Nat /\ Len(queue) >= 1
      BY <3>1, First
    <3>3. QED
      BY <3>1, <3>2
  <2>2. Everywhere(SearchPage)
    BY <2>1 DEF Showing, Drawing, HoldsLock
  <2>3. Known(session.message)
    BY DEF Showing, Messaging
  <2>4. QED
    BY <2>2, <2>3 DEF Everywhere, Known, Active, Shows, Missing, SearchPage
<1> HIDE DEF Keeping
<1>4. Spec => [][Keeping]_vars
  BY <1>1, <1>2, <1>3, PTL DEF Spec
<1>5. QED
  BY <1>4, PTL DEF ProgressNeverHidesAScreen, Keeping

=============================================================================
