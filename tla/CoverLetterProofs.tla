--------------------------- MODULE CoverLetterProofs ---------------------------
(***************************************************************************)
(* Theorems about CoverLetter, for any number of drafts, letters, handlers *)
(* and confirmations: what is posted is a letter the user typed or saw,    *)
(* and the page that asks for a letter means what it says.                 *)
(***************************************************************************)
EXTENDS CoverLetter, TLAPS

USE CoverLetterAssumption

-----------------------------------------------------------------------------
(* The invariant *)

Actions == {"none", "prepare", "choose", "leave", "confirm", "edit", "resume", "cancel",
            "back", "submit", "text"}

TaskStates ==
  [at : Steps, action : Actions, draft : Drafts \cup {None}, letter : Letters \cup {None},
   loaded : Rows, token : 0..MaxTokens, draw : Pages, then : Steps,
   due : Letters \cup {None}]

TypeInv ==
  /\ row \in [Drafts -> Rows]
  /\ issued \in 0..MaxTokens /\ spent \subseteq 1..issued
  /\ waiting \in Drafts \cup {None}
  /\ operation \in Handlers \cup {None}
  /\ page \in Pages /\ refused \in BOOLEAN /\ crossed \in BOOLEAN
  /\ queue \in Seq(Handlers)
  /\ known \in [Drafts -> SUBSET Letters]
  /\ written \in [Drafts -> Typed \cup {None}]
  /\ task \in [Handlers -> TaskStates]

\* Those who wait to draw are in the queue, once.
QueueInv ==
  /\ IsInjective(queue)
  /\ \A p \in Handlers : (\E i \in DOMAIN queue : queue[i] = p) <=> task[p].at = "drawing"

\* The draft has a letter; and, unless letters were stored across each other, it
\* is one the user typed or saw.
Has(d) == d \in Drafts /\ row[d].letter # None
Seen(d) == Has(d) /\ (~crossed => row[d].letter \in known[d])

\* The same once a preview with this letter is drawn.
Readable(d, letter) ==
  Has(d) /\ (~crossed => row[d].letter \in known[d] \cup {letter})

DraftActions == {"confirm", "edit", "resume", "cancel", "back", "submit"}

\* The buttons of a page are for a draft whose letter the user knows.
Offered(content) ==
  /\ content.name \in {"preview", "edit", "confirmation"} => content.draft # None
  /\ content.name = "confirmation" => content.token \in 1..issued

PageInv(content) ==
  /\ Offered(content)
  /\ content.name \in {"preview", "edit", "confirmation", "result"} /\ content.draft # None =>
       Seen(content.draft)

\* Those of a page that waits to be drawn will be.
DrawInv(content) ==
  /\ Offered(content)
  /\ content.name = "preview" =>
       Readable(content.draft, content.letter) /\ content.letter # None
  /\ content.name \in {"edit", "confirmation", "result"} /\ content.draft # None =>
       Seen(content.draft)

\* Steps that follow from a button of a page that showed the letter.
SeenSteps == {"confirming", "texting", "storing", "leasing", "leased", "posting", "recording"}

DraftSteps == {"choosing", "finding", "writing", "saving"}

Submits(s) ==
  \/ s.at = "answered" /\ s.action = "submit"
  \/ s.at = "drawing" /\ s.then = "leasing"
  \/ s.at = "leasing"

\* What a task knows at its step.
TaskInv(s) ==
  /\ s.at = "answered" /\ s.action \in {"prepare", "choose"} => s.draft \in Drafts
  /\ s.at = "answered" /\ s.action \in DraftActions => Seen(s.draft)
  /\ s.at = "drawing" => s.then \in {"idle", "finding", "leasing"}
  /\ s.at = "drawing" /\ s.then = "finding" => s.draft \in Drafts
  /\ s.at = "drawing" /\ s.then = "leasing" => Seen(s.draft)
  /\ s.at \in DraftSteps => s.draft \in Drafts
  /\ s.at \in SeenSteps => Seen(s.draft)
  /\ s.at \in {"saved", "stored"} => Has(s.draft)
  /\ s.at \in {"writing", "saving"} => s.letter # None
  /\ s.at = "saving" /\ s.loaded.letter # None => Has(s.draft)
  /\ s.at = "storing" => s.loaded.letter # None
  /\ s.at = "posting" /\ ~crossed => s.letter \in known[s.draft] /\ s.due \in {None, s.letter}
  /\ Submits(s) => s.token \in 1..issued
  /\ DrawInv(s.draw)

PostInv(post) ==
  /\ post.draft \in Drafts
  /\ ~crossed => post.letter \in known[post.draft] /\ post.due \in {None, post.letter}

LetterInv ==
  /\ PageInv(page)
  /\ waiting # None => Seen(waiting)
  /\ \A p \in Handlers : TaskInv(task[p])
  /\ \A post \in posted : PostInv(post)

Matched(r) == r.api = "absent" <=> r.letter = None

\* What was stored last is what the draft has.
RowInv ==
  /\ \A d \in Drafts : Matched(row[d]) /\ (~crossed => written[d] \in {None, row[d].letter})
  /\ \A p \in Handlers : Matched(task[p].loaded)

\* A preparation that is about to store its letter changes no letter.
PrepInv ==
  ~crossed => \A p \in Handlers :
    /\ task[p].at \in {"writing", "saving"} =>
         row[task[p].draft].letter \in {None, task[p].letter}
    /\ task[p].at = "saving" => task[p].loaded.letter = row[task[p].draft].letter

\* A letter that was typed and is not stored yet is nowhere else.
Mentioned(letter) == \E d \in Drafts : letter \in known[d]

TypingInv ==
  /\ \A d \in Drafts : row[d].letter \in Typed => Mentioned(row[d].letter)
  /\ \A p \in Handlers : task[p].letter \in Typed => Mentioned(task[p].letter)
  /\ \A p \in Handlers : task[p].at \in {"texting", "storing"} =>
       /\ task[p].letter \in Typed \cap known[task[p].draft]
       /\ \A d \in Drafts : row[d].letter # task[p].letter
       /\ \A q \in Handlers \ {p} : task[q].letter # task[p].letter
       /\ task[p].at = "storing" => task[p].loaded.letter # task[p].letter

\* The page that will be on the screen when nobody waits to draw.
Tip == IF queue = <<>> THEN page ELSE task[queue[Len(queue)]].draw

\* Tasks that cleared the FSM state and will draw another page.
Clearing == \E p \in Handlers : task[p].at \in {"leaving", "confirming"}

AskInv ==
  (queue = <<>> => ~refused) /\ Tip.name = "edit" => waiting = Tip.draft \/ Clearing

Inv ==
  /\ TypeInv /\ QueueInv /\ LetterInv /\ RowInv /\ PrepInv /\ TypingInv /\ AskInv

-----------------------------------------------------------------------------
(* Pages and states of a task *)

LEMMA NoneIsNot ==
  /\ None \notin Letters /\ None \notin Typed /\ None \notin Generated
  /\ None \notin Drafts /\ None \notin Handlers
BY DEF Letters

LEMMA PageType ==
  ASSUME NEW name \in Names
  PROVE  /\ Page(name) \in Pages
         /\ Page(name).name = name /\ Page(name).draft = None
         /\ Page(name).letter = None /\ Page(name).token = 0
BY DEF Page, Pages

LEMMA PageOfType ==
  ASSUME NEW name \in Names, NEW d \in Drafts \cup {None}
  PROVE  /\ PageOf(name, d) \in Pages
         /\ PageOf(name, d).name = name /\ PageOf(name, d).draft = d
         /\ PageOf(name, d).letter = None /\ PageOf(name, d).token = 0
BY PageType DEF PageOf, Pages

LEMMA PreviewType ==
  ASSUME NEW d \in Drafts, NEW letter \in Letters \cup {None}
  PROVE  /\ Preview(d, letter) \in Pages
         /\ Preview(d, letter).name = "preview" /\ Preview(d, letter).draft = d
         /\ Preview(d, letter).letter = letter
<1>1. "preview" \in Names
  BY DEF Names
<1> QED BY <1>1, PageOfType DEF Preview, Pages

LEMMA IdleType ==
  /\ Idle \in TaskStates
  /\ Idle.at = "idle" /\ Idle.letter = None /\ Idle.draft = None /\ Idle.then = "idle"
  /\ Idle.loaded = [api |-> "absent", letter |-> None] /\ Idle.draw = Page("card")
  /\ Idle.action = "none" /\ Idle.token = 0 /\ Idle.due = None
<1>1. "card" \in Names
  BY DEF Names
<1>2. Page("card") \in Pages
  BY <1>1, PageType
<1>3. [api |-> "absent", letter |-> None] \in Rows
  BY DEF Rows
<1> QED BY <1>2, <1>3 DEF Idle, TaskStates, Steps, Actions

\* A page without buttons for a draft needs nothing.
LEMMA PlainPage ==
  ASSUME NEW content \in Pages, content.draft = None,
         content.name \notin {"preview", "edit", "confirmation"}
  PROVE  DrawInv(content) /\ PageInv(content)
BY DEF DrawInv, PageInv, Offered

LEMMA GoOnState ==
  ASSUME NEW s \in TaskStates, NEW step \in Steps, NEW n, n = [s EXCEPT !.at = step]
  PROVE  /\ n \in TaskStates /\ n.at = step
         /\ n.action = s.action /\ n.draft = s.draft /\ n.letter = s.letter
         /\ n.loaded = s.loaded /\ n.token = s.token /\ n.draw = s.draw
         /\ n.then = s.then /\ n.due = s.due
BY DEF TaskStates

-----------------------------------------------------------------------------
(* What a step does to the letters *)

\* A draft keeps its letter, or gets one that the user knows; what he knows
\* only grows.
LettersMove ==
  /\ crossed => crossed'
  /\ issued \in Nat /\ issued' \in Nat /\ issued <= issued'
  /\ \A d \in Drafts : known[d] \subseteq known'[d]
  /\ \A d \in Drafts : row[d].letter # None =>
       /\ row'[d].letter # None
       /\ ~crossed' => row'[d].letter \in known'[d] \cup {row[d].letter}

LEMMA SeenStays ==
  ASSUME LettersMove, NEW d, Seen(d)
  PROVE  Seen(d)'
BY DEF LettersMove, Seen, Has

LEMMA HasStays ==
  ASSUME LettersMove, NEW d, Has(d)
  PROVE  Has(d)'
BY DEF LettersMove, Has

LEMMA PageStays ==
  ASSUME LettersMove, NEW content, PageInv(content)
  PROVE  PageInv(content)'
<1>1. Offered(content)'
  BY DEF LettersMove, PageInv, Offered
<1>2. Seen(content.draft) => Seen(content.draft)'
  BY DEF LettersMove, Seen, Has
<1> QED BY <1>1, <1>2 DEF PageInv

LEMMA DrawStays ==
  ASSUME LettersMove, NEW content, DrawInv(content)
  PROVE  DrawInv(content)'
<1>1. Offered(content)'
  BY DEF LettersMove, DrawInv, Offered
<1>2. Seen(content.draft) => Seen(content.draft)'
  BY DEF LettersMove, Seen, Has
<1>3. Readable(content.draft, content.letter) => Readable(content.draft, content.letter)'
  BY DEF LettersMove, Readable, Has
<1> QED BY <1>1, <1>2, <1>3 DEF DrawInv

LEMMA TaskStays ==
  ASSUME LettersMove, NEW s, TaskInv(s)
  PROVE  TaskInv(s)'
<1>1. Seen(s.draft) => Seen(s.draft)'
  BY DEF LettersMove, Seen, Has
<1>2. Has(s.draft) => Has(s.draft)'
  BY DEF LettersMove, Has
<1>3. DrawInv(s.draw)'
  BY DrawStays DEF TaskInv
<1>4. Submits(s) => s.token \in 1..issued'
  BY DEF LettersMove, TaskInv
<1>5. s.at = "posting" /\ ~crossed' =>
        s.letter \in known'[s.draft] /\ s.due \in {None, s.letter}
  BY DEF LettersMove, TaskInv, SeenSteps, Seen, Has
<1> QED BY <1>1, <1>2, <1>3, <1>4, <1>5 DEF TaskInv, Submits

LEMMA PostStays ==
  ASSUME LettersMove, NEW post, PostInv(post)
  PROVE  PostInv(post)'
BY DEF LettersMove, PostInv

-----------------------------------------------------------------------------
(* The ordinary step: a task goes on, or waits to draw a page *)

GoesOn(p, n) ==
  /\ queue' = queue
  /\ n.at # "drawing"
  /\ n.draw \in {task[p].draw, Page("card")}
  /\ waiting' = waiting \/ n.at \in {"leaving", "confirming"}
  /\ task[p].at \notin {"leaving", "confirming"}

WaitsToDraw(p, n) ==
  /\ queue' = Append(queue, p)
  /\ n.at = "drawing"
  /\ n.draw.name = "edit" => waiting' = n.draw.draft

\* What becomes of the task.
Turn(p, n) ==
  /\ n \in TaskStates
  /\ task' = [task EXCEPT ![p] = n]
  /\ TaskInv(n)'
  /\ n.letter \in {task[p].letter, None} \cup {row[d].letter : d \in Drafts}
  /\ n.at \notin {"texting", "storing", "writing", "saving"}
  /\ n.loaded \in {task[p].loaded, Idle.loaded}
  /\ task[p].at # "drawing"
  /\ GoesOn(p, n) \/ WaitsToDraw(p, n)

\* What the step does beside: no letter is stored, shown or typed.
Frame ==
  /\ UNCHANGED <<page, refused, known, written, crossed>>
  /\ row' \in [Drafts -> Rows]
  /\ \A d \in Drafts :
       /\ row'[d].letter = row[d].letter
       /\ row'[d].api # row[d].api => row[d].letter # None /\ row'[d].api # "absent"
  /\ issued' \in 0..MaxTokens /\ issued <= issued' /\ spent' \subseteq 1..issued'
  /\ operation' \in Handlers \cup {None}
  /\ waiting' \in Drafts \cup {None}
  /\ waiting' \in {None, waiting} \/ Seen(waiting')
  /\ \A post \in posted' : post \in posted \/ PostInv(post)

LEMMA FrameMoves == TypeInv /\ Frame => LettersMove
BY DEF TypeInv, Frame, LettersMove

LEMMA AppendQueue ==
  ASSUME queue \in Seq(Handlers), NEW p \in Handlers, queue' = Append(queue, p)
  PROVE  /\ queue' \in Seq(Handlers) /\ queue' # <<>>
         /\ Len(queue) \in Nat /\ DOMAIN queue = 1..Len(queue)
         /\ Len(queue') = Len(queue) + 1 /\ DOMAIN queue' = 1..(Len(queue) + 1)
         /\ queue'[Len(queue')] = p
         /\ \A i \in 1..Len(queue) : queue'[i] = queue[i]
OBVIOUS

\* A task that was not waiting joins the queue.
LEMMA JoinQueue ==
  ASSUME TypeInv, QueueInv, NEW p \in Handlers, NEW n \in TaskStates,
         task' = [task EXCEPT ![p] = n], task[p].at # "drawing", n.at = "drawing",
         queue' = Append(queue, p)
  PROVE  QueueInv'
<1>1. /\ queue' \in Seq(Handlers)
      /\ Len(queue) \in Nat /\ DOMAIN queue = 1..Len(queue)
      /\ DOMAIN queue' = 1..(Len(queue) + 1) /\ queue'[Len(queue) + 1] = p
      /\ \A i \in 1..Len(queue) : queue'[i] = queue[i]
  BY AppendQueue DEF TypeInv
<1>2. \A i \in 1..Len(queue) : queue[i] # p
  BY <1>1 DEF QueueInv
<1>3. ASSUME NEW a \in DOMAIN queue', NEW b \in DOMAIN queue', queue'[a] = queue'[b]
      PROVE  a = b
  <2>1. CASE a \in 1..Len(queue) /\ b \in 1..Len(queue)
    BY <1>1, <1>3, <2>1 DEF QueueInv, IsInjective
  <2>2. CASE a = Len(queue) + 1 \/ b = Len(queue) + 1
    BY <1>1, <1>2, <1>3, <2>2
  <2> QED BY <1>1, <2>1, <2>2
<1>4. ASSUME NEW q \in Handlers
      PROVE  (\E i \in DOMAIN queue' : queue'[i] = q) <=> task'[q].at = "drawing"
  <2>1. CASE q = p
    BY <1>1, <2>1 DEF TypeInv
  <2>2. CASE q # p
    <3>1. task'[q] = task[q]
      BY <2>2 DEF TypeInv
    <3>2. (\E i \in DOMAIN queue' : queue'[i] = q) <=> (\E i \in DOMAIN queue : queue[i] = q)
      BY <1>1, <2>2
    <3> QED BY <3>1, <3>2 DEF QueueInv
  <2> QED BY <2>1, <2>2
<1> QED BY <1>3, <1>4 DEF QueueInv, IsInjective

LEMMA TurnKeeps ==
  ASSUME Inv, NEW p \in Handlers, NEW n, Turn(p, n), Frame
  PROVE  Inv'
<1>t. TypeInv /\ QueueInv /\ LetterInv /\ RowInv /\ PrepInv /\ TypingInv /\ AskInv
  BY DEF Inv
<1>n. /\ n \in TaskStates /\ task' = [task EXCEPT ![p] = n]
      /\ task'[p] = n /\ \A q \in Handlers : q # p => task'[q] = task[q]
  BY <1>t DEF Turn, TypeInv
<1>m. LettersMove
  BY <1>t, FrameMoves
<1>f. /\ UNCHANGED <<page, refused, known, written, crossed>>
      /\ \A d \in Drafts : row'[d].letter = row[d].letter
  BY DEF Frame
<1>q. \/ queue' = queue
      \/ queue' = Append(queue, p) /\ queue' \in Seq(Handlers)
  BY <1>t, AppendQueue DEF Turn, GoesOn, WaitsToDraw, TypeInv
<1>1. TypeInv'
  <2>1. task' \in [Handlers -> TaskStates]
    BY <1>t, <1>n DEF TypeInv
  <2> QED BY <1>t, <1>q, <2>1 DEF TypeInv, Frame
<1>2. QueueInv'
  <2>1. CASE GoesOn(p, n)
    BY <1>t, <1>n, <2>1 DEF GoesOn, Turn, QueueInv
  <2>2. CASE WaitsToDraw(p, n)
    BY <1>t, <1>n, <2>2, JoinQueue DEF WaitsToDraw, Turn
  <2> QED BY <2>1, <2>2 DEF Turn
<1>3. LetterInv'
  <2>1. PageInv(page)'
    <3> DEFINE c == page
    <3>1. PICK content : content = page
      OBVIOUS
    <3>2. PageInv(content) /\ page' = content
      BY <1>t, <1>f, <3>1 DEF LetterInv
    <3>3. PageInv(content)'
      BY <1>m, <3>2, PageStays
    <3> QED BY <3>2, <3>3
  <2>2. waiting' # None => Seen(waiting)'
    <3>1. PICK d : d = waiting'
      OBVIOUS
    <3>2. d # None => Seen(d)
      BY <1>t, <3>1 DEF Frame, LetterInv
    <3>3. d # None => Seen(d)'
      BY <1>m, <3>2, SeenStays
    <3> QED BY <3>1, <3>3
  <2>3. ASSUME NEW q \in Handlers PROVE TaskInv(task[q])'
    <3>1. CASE q = p
      BY <1>n, <3>1 DEF Turn
    <3>2. CASE q # p
      <4>1. PICK s : s = task[q]
        OBVIOUS
      <4>2. TaskInv(s) /\ task'[q] = s
        BY <1>t, <1>n, <3>2, <4>1 DEF LetterInv
      <4>3. TaskInv(s)'
        BY <1>m, <4>2, TaskStays
      <4> QED BY <4>2, <4>3
    <3> QED BY <3>1, <3>2
  <2>4. ASSUME NEW post \in posted' PROVE PostInv(post)'
    BY <1>t, <1>m, PostStays DEF Frame, LetterInv
  <2> QED BY <2>1, <2>2, <2>3, <2>4 DEF LetterInv
<1>4. RowInv'
  <2>1. \A q \in Handlers : Matched(task'[q].loaded)
    BY <1>t, <1>n, IdleType DEF Turn, RowInv, Matched
  <2>2. \A d \in Drafts : Matched(row'[d])
    BY <1>t DEF Frame, RowInv, Matched
  <2> QED BY <1>t, <1>f, <2>1, <2>2 DEF RowInv, Matched
<1>5. PrepInv'
  <2> SUFFICES ASSUME ~crossed', NEW q \in Handlers
               PROVE  /\ task'[q].at \in {"writing", "saving"} =>
                           row'[task'[q].draft].letter \in {None, task'[q].letter}
                      /\ task'[q].at = "saving" =>
                           task'[q].loaded.letter = row'[task'[q].draft].letter
    BY DEF PrepInv
  <2>1. CASE q = p
    BY <1>n, <2>1 DEF Turn
  <2>2. CASE q # p
    <3>1. task[q].at \in {"writing", "saving"} => task[q].draft \in Drafts
      BY <1>t DEF LetterInv, TaskInv, DraftSteps
    <3> QED BY <1>t, <1>n, <1>f, <2>2, <3>1 DEF PrepInv
  <2> QED BY <2>1, <2>2
<1>6. TypingInv'
  <2>1. \A letter : Mentioned(letter)' <=> Mentioned(letter)
    BY <1>f DEF Mentioned
  <2>2. \A q \in Handlers : q # p => task'[q] = task[q]
    BY <1>n
  <2>3. ASSUME NEW q \in Handlers, task'[q].letter \in Typed
        PROVE  Mentioned(task'[q].letter)
    <3>1. CASE q = p
      <4>1. PICK letter : letter = n.letter
        OBVIOUS
      <4>2. letter \in {task[p].letter} \cup {row[d].letter : d \in Drafts}
        BY <1>n, <2>3, <3>1, <4>1, NoneIsNot DEF Turn
      <4> QED BY <1>t, <1>n, <2>3, <3>1, <4>1, <4>2 DEF TypingInv
    <3>2. CASE q # p
      BY <1>t, <1>n, <2>3, <3>2 DEF TypingInv
    <3> QED BY <3>1, <3>2
  <2>4. \A d \in Drafts : row'[d].letter \in Typed => Mentioned(row'[d].letter)
    BY <1>t, <1>f DEF TypingInv
  <2>5. ASSUME NEW q \in Handlers, task'[q].at \in {"texting", "storing"}
        PROVE  /\ task'[q].letter \in Typed \cap known'[task'[q].draft]
               /\ \A d \in Drafts : row'[d].letter # task'[q].letter
               /\ \A r \in Handlers \ {q} : task'[r].letter # task'[q].letter
               /\ task'[q].at = "storing" => task'[q].loaded.letter # task'[q].letter
    <3>1. q # p /\ task'[q] = task[q]
      BY <1>n, <2>5 DEF Turn
    <3>2. /\ task[q].letter \in Typed
          /\ \A d \in Drafts : row[d].letter # task[q].letter
          /\ \A r \in Handlers \ {q} : task[r].letter # task[q].letter
      BY <1>t, <2>5, <3>1 DEF TypingInv
    <3>3. n.letter # task[q].letter
      BY <3>1, <3>2, NoneIsNot DEF Turn
    <3>4. \A r \in Handlers \ {q} : task'[r].letter # task'[q].letter
      BY <1>n, <3>1, <3>2, <3>3
    <3> QED BY <1>t, <1>f, <2>5, <3>1, <3>4 DEF TypingInv
  <2> QED BY <2>1, <2>3, <2>4, <2>5 DEF TypingInv
<1>7. AskInv'
  <2>1. CASE WaitsToDraw(p, n)
    <3>1. queue' # <<>> /\ queue'[Len(queue')] = p
      BY <1>t, <2>1, AppendQueue DEF WaitsToDraw, TypeInv
    <3>2. Tip' = n.draw
      BY <1>n, <3>1 DEF Tip
    <3> QED BY <2>1, <3>1, <3>2 DEF WaitsToDraw, AskInv
  <2>2. CASE GoesOn(p, n)
    <3> SUFFICES ASSUME queue' = <<>> => ~refused', Tip'.name = "edit"
                 PROVE  waiting' = Tip'.draft \/ Clearing'
      BY DEF AskInv
    <3>1. queue' = queue
      BY <2>2 DEF GoesOn
    <3>2. Page("card").name # "edit"
      BY PageType DEF Names
    <3>3. Tip' = Tip
      <4>1. CASE queue = <<>>
        BY <1>f, <3>1, <4>1 DEF Tip
      <4>2. CASE queue # <<>>
        <5>1. PICK q \in Handlers : q = queue[Len(queue)]
          BY <1>t, <4>2 DEF TypeInv
        <5>2. Tip = task[q].draw /\ Tip' = task'[q].draw
          BY <3>1, <4>2, <5>1 DEF Tip
        <5>3. q = p => task'[q].draw = task[q].draw
          BY <1>n, <2>2, <3>2, <5>2 DEF GoesOn
        <5> QED BY <1>n, <5>2, <5>3
      <4> QED BY <4>1, <4>2
    <3>4. waiting = Tip.draft \/ Clearing
      BY <1>t, <1>f, <3>1, <3>3 DEF AskInv
    <3>5. Clearing => Clearing'
      BY <1>n, <2>2 DEF Clearing, GoesOn
    <3>6. n.at \in {"leaving", "confirming"} => Clearing'
      BY <1>n DEF Clearing
    <3> QED BY <2>2, <3>3, <3>4, <3>5, <3>6 DEF GoesOn
  <2> QED BY <2>1, <2>2 DEF Turn
<1> QED BY <1>1, <1>2, <1>3, <1>4, <1>5, <1>6, <1>7 DEF Inv

-----------------------------------------------------------------------------
(* The forms of the ordinary step *)

\* No letter, page or status changes.
LEMMA StillFrame ==
  ASSUME TypeInv, operation' \in Handlers \cup {None}, waiting' \in {None, waiting},
         UNCHANGED <<row, issued, spent, page, refused, known, written, crossed, posted>>
  PROVE  Frame
BY DEF TypeInv, Frame

\* A handler draws its last page.
LEMMA LastPage ==
  ASSUME Inv, Frame, NEW p \in Handlers, task[p].at # "drawing",
         NEW action \in Actions, NEW content \in Pages, DrawInv(content)',
         content.name = "edit" => waiting' = content.draft,
         Draw(p, [Idle EXCEPT !.action = action], content, "idle")
  PROVE  Inv'
<1>1. PICK s \in TaskStates :
        s = [Idle EXCEPT !.action = action] /\ s.letter = None /\ s.loaded = Idle.loaded
  BY IdleType DEF TaskStates
<1>n. PICK n : n = [s EXCEPT !.at = "drawing", !.draw = content, !.then = "idle"]
  OBVIOUS
<1>2. "idle" \in Steps /\ "drawing" \in Steps
  BY DEF Steps
<1>3. task' = [task EXCEPT ![p] = n] /\ queue' = Append(queue, p)
  BY <1>1, <1>n DEF Draw, Become
<1>4. /\ n \in TaskStates /\ n.at = "drawing" /\ n.draw = content /\ n.then = "idle"
      /\ n.letter = None /\ n.loaded = Idle.loaded
  BY <1>1, <1>n, <1>2 DEF TaskStates
<1>5. TaskInv(n)'
  BY <1>4 DEF TaskInv, DraftSteps, SeenSteps, Submits
<1>6. Turn(p, n)
  BY <1>3, <1>4, <1>5 DEF Turn, WaitsToDraw
<1> QED BY <1>6, TurnKeeps

LEMMA FinishKeeps ==
  ASSUME Inv, Frame, NEW p \in Handlers, task[p].at # "drawing",
         NEW content \in Pages, DrawInv(content)',
         content.name = "edit" => waiting' = content.draft,
         Finish(p, content)
  PROVE  Inv'
<1>1. task[p].action \in Actions
  BY DEF Inv, TypeInv, TaskStates
<1> QED BY <1>1, LastPage DEF Finish

\* An operation draws its last page, unless it is not the current one.
LEMMA FinishOperationKeeps ==
  ASSUME Inv, Frame, NEW p \in Handlers,
         task[p].at \notin {"drawing", "leaving", "confirming"},
         NEW content \in Pages, DrawInv(content)', content.name # "edit",
         waiting' = waiting, FinishOperation(p, content)
  PROVE  Inv'
<1>1. CASE Finish(p, content)
  BY <1>1, FinishKeeps
<1>2. CASE Become(p, Idle) /\ queue' = queue
  <2>1. "card" \in Names
    BY DEF Names
  <2>2. DrawInv(Idle.draw)'
    BY <2>1, IdleType, PageType DEF DrawInv, Offered
  <2>3. TaskInv(Idle)'
    BY <2>2, IdleType DEF TaskInv, DraftSteps, SeenSteps, Submits
  <2>4. Turn(p, Idle)
    BY <1>2, <2>3, IdleType DEF Become, Turn, GoesOn
  <2> QED BY <2>4, TurnKeeps
<1> QED BY <1>1, <1>2 DEF FinishOperation

\* A handler draws a page and goes on.
LEMMA PageBetween ==
  ASSUME Inv, Frame, NEW p \in Handlers, task[p].at # "drawing",
         NEW content \in Pages, content.draft = None, content.name \in {"loading", "sending"},
         NEW then \in {"finding", "leasing"},
         task[p].draft \in Drafts,
         then = "leasing" => Seen(task[p].draft) /\ task[p].token \in 1..issued,
         Draw(p, task[p], content, then)
  PROVE  Inv'
<1>1. PICK s \in TaskStates : s = task[p]
  BY DEF Inv, TypeInv
<1>n. PICK n : n = [s EXCEPT !.at = "drawing", !.draw = content, !.then = then]
  OBVIOUS
<1>2. then \in Steps /\ "drawing" \in Steps
  BY DEF Steps
<1>3. task' = [task EXCEPT ![p] = n] /\ queue' = Append(queue, p)
  BY <1>1, <1>n DEF Draw, Become
<1>4. /\ n \in TaskStates /\ n.at = "drawing" /\ n.draw = content /\ n.then = then
      /\ n.letter = s.letter /\ n.loaded = s.loaded /\ n.draft = s.draft /\ n.token = s.token
  BY <1>1, <1>n, <1>2 DEF TaskStates
<1>5. TaskInv(n)
  <2>1. DrawInv(content)
    BY PlainPage
  <2> QED BY <1>1, <1>4, <2>1 DEF TaskInv, DraftSteps, SeenSteps, Submits
<1>6. TaskInv(n)'
  BY <1>5, FrameMoves, TaskStays DEF Inv
<1>7. Turn(p, n)
  BY <1>1, <1>3, <1>4, <1>6 DEF Turn, WaitsToDraw
<1> QED BY <1>7, TurnKeeps

\* A handler goes on without drawing.
LEMMA GoOnKeeps ==
  ASSUME Inv, Frame, NEW p \in Handlers,
         task[p].at \notin {"drawing", "leaving", "confirming"},
         NEW step \in {"leaving", "choosing", "saved", "confirming", "leased", "recording"},
         step = "choosing" => task[p].draft \in Drafts,
         step = "saved" => Has(task[p].draft),
         step \in {"confirming", "leased", "recording"} => Seen(task[p].draft),
         waiting' = waiting \/ step \in {"leaving", "confirming"},
         GoOn(p, step), queue' = queue
  PROVE  Inv'
<1>1. PICK s \in TaskStates : s = task[p]
  BY DEF Inv, TypeInv
<1>n. PICK n : n = [s EXCEPT !.at = step]
  OBVIOUS
<1>2. step \in Steps
  BY DEF Steps
<1>3. task' = [task EXCEPT ![p] = n]
  BY <1>1, <1>n DEF GoOn, Become
<1>4. /\ n \in TaskStates /\ n.at = step /\ n.draw = s.draw
      /\ n.letter = s.letter /\ n.loaded = s.loaded /\ n.draft = s.draft
  BY <1>1, <1>n, <1>2, GoOnState
<1>5. TaskInv(n)
  <2>1. DrawInv(s.draw)
    BY <1>1 DEF Inv, LetterInv, TaskInv
  <2> QED BY <1>1, <1>4, <2>1 DEF TaskInv, DraftSteps, SeenSteps, Submits
<1>6. TaskInv(n)'
  BY <1>5, FrameMoves, TaskStays DEF Inv
<1>7. Turn(p, n)
  BY <1>1, <1>3, <1>4, <1>6 DEF Turn, GoesOn
<1> QED BY <1>7, TurnKeeps

-----------------------------------------------------------------------------
(* The buttons: who presses one knows the letter *)

LEMMA TaskKnows ==
  ASSUME Inv, NEW p \in Handlers
  PROVE  /\ task[p] \in TaskStates /\ TaskInv(task[p])
         /\ task[p].draft \in Drafts \cup {None} /\ task[p].letter \in Letters \cup {None}
BY DEF Inv, TypeInv, LetterInv, TaskStates

LEMMA LeaveKeeps ==
  ASSUME Inv, NEW p \in Handlers, Leave(p)
  PROVE  Inv'
<1>1. /\ waiting' = None /\ GoOn(p, "leaving") /\ queue' = queue /\ task[p].at = "answered"
      /\ UNCHANGED <<row, issued, spent, operation, page, refused, known, written, crossed,
                      posted>>
  BY DEF Leave, Clear
<1>2. Frame
  BY <1>1, StillFrame DEF Inv, TypeInv
<1> QED BY <1>1, <1>2, GoOnKeeps

LEMMA DrawCardKeeps ==
  ASSUME Inv, NEW p \in Handlers, DrawCard(p)
  PROVE  Inv'
<1>1. /\ Finish(p, Page("card")) /\ task[p].at = "leaving" /\ "card" \in Names
      /\ UNCHANGED <<row, issued, spent, waiting, operation, page, refused, known, written,
                      crossed, posted>>
  BY DEF DrawCard, Names
<1>2. Frame
  BY <1>1, StillFrame DEF Inv, TypeInv
<1>3. DrawInv(Page("card"))'
  BY <1>1, PageType DEF DrawInv, Offered
<1> QED BY <1>1, <1>2, <1>3, FinishKeeps, PageType

LEMMA DraftUnavailableKeeps ==
  ASSUME Inv, NEW p \in Handlers, DraftUnavailable(p)
  PROVE  Inv'
<1>1. /\ Finish(p, Page("result")) /\ task[p].at = "answered" /\ "result" \in Names
      /\ UNCHANGED <<row, issued, spent, waiting, operation, page, refused, known, written,
                      crossed, posted>>
  BY DEF DraftUnavailable, Names
<1>2. Frame
  BY <1>1, StillFrame DEF Inv, TypeInv
<1>3. DrawInv(Page("result"))'
  BY <1>1, PageType DEF DrawInv, Offered
<1> QED BY <1>1, <1>2, <1>3, FinishKeeps, PageType

LEMMA DraftButtonKeeps ==
  ASSUME Inv, NEW p \in Handlers, DraftButton(p)
  PROVE  Inv'
<1>1. PICK d : d = task[p].draft
  OBVIOUS
<1>2. /\ task[p].at = "answered"
      /\ task[p].action \in {"edit", "cancel", "back", "resume", "confirm"}
      /\ UNCHANGED <<row, issued, spent, operation, page, refused, known, written, crossed,
                      posted>>
  BY DEF DraftButton
<1>3. Seen(d) /\ d \in Drafts /\ Has(d)
  BY <1>1, <1>2, TaskKnows DEF TaskInv, DraftActions, Seen, Has
<1>t. TypeInv
  BY DEF Inv
<1>m. waiting' \in {None, d} => Frame
  BY <1>2, <1>3, <1>t DEF Frame, TypeInv
<1>l. LettersMove
  BY <1>2, <1>t DEF LettersMove, TypeInv
<1>4. CASE task[p].action = "edit"
  <2>1. waiting' = d /\ Finish(p, PageOf("edit", d)) /\ "edit" \in Names
    BY <1>1, <1>4 DEF DraftButton, AskForLetter, Names
  <2>2. PICK content \in Pages : content = PageOf("edit", d)
    BY <1>3, <2>1, PageOfType
  <2>3. content.name = "edit" /\ content.draft = d
    BY <1>3, <2>1, <2>2, PageOfType
  <2>4. DrawInv(content)
    BY <1>3, <2>3, NoneIsNot DEF DrawInv, Offered
  <2> QED BY <1>2, <1>m, <1>l, <2>1, <2>2, <2>3, <2>4, DrawStays, FinishKeeps
<1>5. CASE task[p].action \in {"cancel", "confirm"}
  <2>1. PICK step : /\ step \in {"leaving", "confirming"} /\ GoOn(p, step)
                    /\ waiting' = None /\ queue' = queue
    BY <1>2, <1>5 DEF DraftButton, Clear
  <2> QED BY <1>1, <1>2, <1>3, <1>m, <2>1, GoOnKeeps
<1>6. CASE task[p].action = "back"
  <2>1. waiting' = None /\ Finish(p, Preview(d, row[d].letter))
    BY <1>1, <1>6 DEF DraftButton
  <2>2. PICK letter \in Letters : letter = row[d].letter
    BY <1>3, <1>t DEF TypeInv, Rows, Has
  <2>3. PICK content \in Pages : content = Preview(d, letter)
    BY <1>3, PreviewType
  <2>4. content.name = "preview" /\ content.draft = d /\ content.letter = letter
    BY <1>3, <2>3, PreviewType
  <2>5. DrawInv(content)
    BY <1>3, <2>2, <2>4, NoneIsNot DEF DrawInv, Offered, Readable
  <2> QED BY <1>2, <1>m, <1>l, <2>1, <2>2, <2>3, <2>4, <2>5, DrawStays, FinishKeeps
<1>7. CASE task[p].action = "resume"
  <2>1. waiting' = None /\ Finish(p, Page("resume")) /\ "resume" \in Names
    BY <1>7 DEF DraftButton, Names
  <2>2. DrawInv(Page("resume"))'
    BY <2>1, PageType DEF DrawInv, Offered
  <2> QED BY <1>2, <1>m, <2>1, <2>2, FinishKeeps, PageType
<1> QED BY <1>2, <1>4, <1>5, <1>6, <1>7

LEMMA ConfirmKeeps ==
  ASSUME Inv, NEW p \in Handlers, Confirm(p)
  PROVE  Inv'
<1>1. PICK d : d = task[p].draft
  OBVIOUS
<1>2. /\ task[p].at = "confirming"
      /\ UNCHANGED <<spent, waiting, operation, page, refused, known, written, crossed, posted>>
  BY DEF Confirm
<1>3. Seen(d) /\ d \in Drafts /\ row[d].letter # None
  BY <1>1, <1>2, TaskKnows DEF TaskInv, SeenSteps, Seen, Has
<1>t. TypeInv
  BY DEF Inv
<1>4. CASE Finish(p, Page("result")) /\ UNCHANGED <<row, issued>>
  <2>1. "result" \in Names
    BY DEF Names
  <2>2. DrawInv(Page("result"))'
    BY <2>1, PageType DEF DrawInv, Offered
  <2>3. Frame
    BY <1>2, <1>4, <1>t, StillFrame DEF TypeInv
  <2> QED BY <1>2, <1>4, <2>1, <2>2, <2>3, FinishKeeps, PageType
<1>5. CASE /\ issued < MaxTokens /\ issued' = issued + 1
           /\ row' = [row EXCEPT ![d].api = "confirmed"]
           /\ Finish(p, [PageOf("confirmation", d) EXCEPT !.token = issued + 1])
  <2>1. issued' \in 0..MaxTokens /\ issued <= issued' /\ 1..issued \subseteq 1..issued'
    BY <1>5, <1>t DEF TypeInv
  <2>2. /\ row' \in [Drafts -> Rows] /\ row'[d].api = "confirmed"
        /\ \A e \in Drafts : row'[e].letter = row[e].letter /\ (e # d => row'[e] = row[e])
    BY <1>3, <1>5, <1>t DEF TypeInv, Rows
  <2>3. Frame
    BY <1>2, <1>3, <1>t, <2>1, <2>2 DEF Frame, TypeInv
  <2>4. PICK content \in Pages : /\ content = [PageOf("confirmation", d) EXCEPT !.token = issued + 1]
                                 /\ content.name = "confirmation" /\ content.draft = d
                                 /\ content.token = issued'
    <3>1. "confirmation" \in Names /\ issued + 1 \in 0..MaxTokens
      BY <1>5, <2>1 DEF Names
    <3> QED BY <1>3, <1>5, <3>1, PageOfType DEF Pages
  <2>5. Seen(d)'
    BY <1>3, <1>t, <2>3, FrameMoves, SeenStays
  <2>6. DrawInv(content)'
    <3>1. content.token \in 1..issued'
      BY <1>t, <2>1, <1>5, <2>4 DEF TypeInv
    <3> QED BY <1>3, <2>4, <2>5, <3>1, NoneIsNot DEF DrawInv, Offered
  <2> QED BY <1>2, <1>5, <2>3, <2>4, <2>6, FinishKeeps
<1> QED BY <1>1, <1>4, <1>5 DEF Confirm

-----------------------------------------------------------------------------
(* The user: a press, a command, a text *)

LEMMA ButtonsAre ==
  ASSUME NEW content \in Pages, PageInv(content), NEW b \in Buttons(content)
  PROVE  /\ b[1] \in Actions /\ b[2] \in Drafts \cup {None}
         /\ b[1] \in {"prepare", "choose"} => b[2] \in Drafts
         /\ b[1] \in DraftActions => Seen(b[2])
         /\ b[1] = "submit" => content.name = "confirmation"
<1>n. content.name \in Names /\ content.draft \in Drafts \cup {None}
  BY DEF Pages
<1>1. CASE content.name \in {"card", "resume", "loading"}
  <2>1. \/ b[1] \in {"prepare", "choose"} /\ b[2] \in Drafts
        \/ b[1] = "leave" /\ b[2] = None
    BY <1>1 DEF Buttons
  <2> QED BY <2>1 DEF Actions, DraftActions
<1>2. CASE content.name \in {"preview", "edit", "confirmation"}
  <2>1. /\ b[1] \in {"confirm", "edit", "resume", "cancel", "leave", "back", "submit"}
        /\ b[2] = content.draft
        /\ b[1] = "submit" => content.name = "confirmation"
    BY <1>2 DEF Buttons
  <2> QED BY <1>n, <1>2, <2>1 DEF PageInv, Offered, Actions, DraftActions
<1>3. CASE content.name = "result"
  <2>1. \/ b[1] = "confirm" /\ b[2] = content.draft /\ content.draft # None
        \/ b[1] = "leave" /\ b[2] = None
    BY <1>3 DEF Buttons
  <2> QED BY <1>n, <1>3, <2>1 DEF PageInv, Actions, DraftActions
<1>4. CASE content.name = "sending"
  BY <1>4 DEF Buttons
<1> QED BY <1>n, <1>1, <1>2, <1>3, <1>4 DEF Names

LEMMA IdlePage == DrawInv(Page("card")) /\ DrawInv(Page("card"))'
<1>1. "card" \in Names
  BY DEF Names
<1> QED BY <1>1, PageType DEF DrawInv, Offered

LEMMA TapKeeps ==
  ASSUME Inv, NEW p \in Handlers, Tap(p)
  PROVE  Inv'
<1>1. PICK b \in Buttons(page) :
        /\ task' = [task EXCEPT ![p] =
             [Idle EXCEPT !.at = "answered", !.action = b[1], !.draft = b[2],
                          !.token = IF b[1] = "submit" THEN page.token ELSE 0]]
        /\ operation' = IF b[1] = "leave" THEN None ELSE operation
  BY DEF Tap, Become
<1>2. /\ task[p].at = "idle"
      /\ UNCHANGED <<row, issued, spent, waiting, page, queue, refused, known, written, crossed,
                      posted>>
  BY DEF Tap
<1>t. TypeInv /\ PageInv(page)
  BY DEF Inv, LetterInv
<1>3. /\ b[1] \in Actions /\ b[2] \in Drafts \cup {None}
      /\ b[1] \in {"prepare", "choose"} => b[2] \in Drafts
      /\ b[1] \in DraftActions => Seen(b[2])
      /\ b[1] = "submit" => page.name = "confirmation"
  BY <1>t, ButtonsAre DEF TypeInv
<1>4. PICK token \in 0..MaxTokens :
        /\ token = IF b[1] = "submit" THEN page.token ELSE 0
        /\ b[1] = "submit" => token \in 1..issued
  BY <1>t, <1>3 DEF TypeInv, Pages, PageInv, Offered
<1>5. PICK action, d : action = b[1] /\ d = b[2]
  OBVIOUS
<1>n. PICK n : n = [Idle EXCEPT !.at = "answered", !.action = action, !.draft = d,
                                !.token = token]
  OBVIOUS
<1>6. /\ n \in TaskStates /\ n.at = "answered" /\ n.action = action /\ n.draft = d
      /\ n.token = token /\ n.draw = Page("card") /\ n.letter = None
      /\ n.loaded = Idle.loaded
  <2>1. "answered" \in Steps
    BY DEF Steps
  <2> QED BY <1>3, <1>4, <1>5, <1>n, <2>1, IdleType DEF TaskStates
<1>7. TaskInv(n)
  BY <1>3, <1>4, <1>5, <1>6, IdlePage DEF TaskInv, DraftSteps, SeenSteps, Submits
<1>8. Frame
  BY <1>1, <1>2, <1>t, StillFrame DEF TypeInv
<1>9. TaskInv(n)'
  BY <1>7, <1>8, <1>t, FrameMoves, TaskStays
<1>10. Turn(p, n)
  BY <1>1, <1>2, <1>4, <1>5, <1>n, <1>6, <1>9 DEF Turn, GoesOn
<1> QED BY <1>8, <1>10, TurnKeeps

LEMMA CommandKeeps ==
  ASSUME Inv, NEW p \in Handlers, Command(p)
  PROVE  Inv'
<1>1. /\ task[p].at = "idle" /\ waiting' = None /\ operation' = None
      /\ task' = [task EXCEPT ![p] = [Idle EXCEPT !.at = "leaving", !.action = "leave"]]
      /\ UNCHANGED <<row, issued, spent, page, queue, refused, known, written, crossed, posted>>
  BY DEF Command, Become
<1>n. PICK n : n = [Idle EXCEPT !.at = "leaving", !.action = "leave"]
  OBVIOUS
<1>2. /\ n \in TaskStates /\ n.at = "leaving" /\ n.draw = Page("card") /\ n.letter = None
      /\ n.loaded = Idle.loaded
  <2>1. "leaving" \in Steps /\ "leave" \in Actions
    BY DEF Steps, Actions
  <2> QED BY <1>n, <2>1, IdleType DEF TaskStates
<1>3. TaskInv(n)'
  BY <1>2, IdlePage DEF TaskInv, DraftSteps, SeenSteps, Submits
<1>4. Frame
  BY <1>1, StillFrame DEF Inv, TypeInv
<1>5. Turn(p, n)
  BY <1>1, <1>n, <1>2, <1>3 DEF Turn, GoesOn
<1> QED BY <1>4, <1>5, TurnKeeps

\* A blank text brings the page that asks for the letter back.
LEMMA BlankTextKeeps ==
  ASSUME Inv, NEW p \in Handlers, task[p].at = "idle", waiting # None,
         Draw(p, [Idle EXCEPT !.action = "text"], PageOf("edit", waiting), "idle"),
         UNCHANGED <<row, issued, spent, waiting, operation, page, refused, known, written,
                     crossed, posted>>
  PROVE  Inv'
<1>1. PICK d \in Drafts : d = waiting /\ Seen(d)
  BY DEF Inv, TypeInv, LetterInv
<1>2. "edit" \in Names /\ "text" \in Actions
  BY DEF Names, Actions
<1>3. PICK content \in Pages : content = PageOf("edit", d) /\ content.name = "edit"
                                /\ content.draft = d
  BY <1>1, <1>2, PageOfType
<1>4. Frame /\ LettersMove
  BY StillFrame, FrameMoves DEF Inv, TypeInv
<1>5. DrawInv(content)
  BY <1>1, <1>3, NoneIsNot DEF DrawInv, Offered
<1> QED BY <1>1, <1>2, <1>3, <1>4, <1>5, DrawStays, LastPage

-----------------------------------------------------------------------------
(* Preparing, without what touches a letter *)

\* The pages that are drawn for no draft.
LEMMA NoDraftPage ==
  ASSUME NEW name \in {"loading", "sending", "resume", "result"}
  PROVE  /\ Page(name) \in Pages /\ Page(name).draft = None /\ Page(name).name = name
         /\ DrawInv(Page(name)) /\ DrawInv(Page(name))'
<1>1. name \in Names
  BY DEF Names
<1> QED BY <1>1, PageType DEF DrawInv, Offered

\* The preview of a draft that has a letter.
LEMMA PreviewPage ==
  ASSUME TypeInv, Frame, NEW d, Has(d)
  PROVE  \E content \in Pages :
           content = Preview(d, row[d].letter) /\ content.name = "preview" /\ DrawInv(content)'
<1>1. PICK letter \in Letters : letter = row[d].letter /\ d \in Drafts
  BY DEF Has, TypeInv, Rows
<1>2. PICK content \in Pages : content = Preview(d, letter)
  BY <1>1, PreviewType
<1>3. content.name = "preview" /\ content.draft = d /\ content.letter = letter
  BY <1>1, <1>2, PreviewType
<1>4. DrawInv(content)
  BY <1>1, <1>3, NoneIsNot DEF DrawInv, Offered, Readable, Has
<1> QED BY <1>1, <1>2, <1>3, <1>4, FrameMoves, DrawStays

LEMMA BeginPreparationKeeps ==
  ASSUME Inv, NEW p \in Handlers, BeginPreparation(p)
  PROVE  Inv'
<1>1. /\ task[p].at = "answered"
      /\ UNCHANGED <<row, issued, spent, waiting, page, refused, known, written, crossed, posted>>
  BY DEF BeginPreparation
<1>2. /\ task[p].action \in {"prepare", "choose"} /\ operation' \in {operation, p}
      /\ \/ Draw(p, task[p], Page("loading"), "finding")
         \/ GoOn(p, "choosing") /\ queue' = queue
  BY DEF BeginPreparation
<1>3. task[p].draft \in Drafts
  BY <1>1, <1>2, TaskKnows DEF TaskInv
<1>4. Frame
  BY <1>1, <1>2, StillFrame DEF Inv, TypeInv
<1> QED BY <1>1, <1>2, <1>3, <1>4, NoDraftPage, PageBetween, GoOnKeeps

LEMMA ChooseKeeps ==
  ASSUME Inv, NEW p \in Handlers, Choose(p)
  PROVE  Inv'
<1>1. /\ task[p].at = "choosing"
      /\ UNCHANGED <<row, issued, spent, waiting, operation, page, refused, known, written,
                      crossed, posted>>
  BY DEF Choose
<1>2. \/ Draw(p, task[p], Page("loading"), "finding")
      \/ FinishOperation(p, Page("resume"))
  BY DEF Choose, FinishOperation
<1>3. task[p].draft \in Drafts
  BY <1>1, TaskKnows DEF TaskInv, DraftSteps
<1>4. Frame
  BY <1>1, StillFrame DEF Inv, TypeInv
<1> QED BY <1>1, <1>2, <1>3, <1>4, NoDraftPage, PageBetween, FinishOperationKeeps

LEMMA PreparationFailsKeeps ==
  ASSUME Inv, NEW p \in Handlers, PreparationFails(p)
  PROVE  Inv'
<1>1. /\ task[p].at \in {"finding", "writing"}
      /\ FinishOperation(p, Page("result")) \/ FinishOperation(p, Page("resume"))
      /\ UNCHANGED <<row, issued, spent, waiting, operation, page, refused, known, written,
                      crossed, posted>>
  BY DEF PreparationFails
<1>2. Frame
  BY <1>1, StillFrame DEF Inv, TypeInv
<1> QED BY <1>1, <1>2, NoDraftPage, FinishOperationKeeps

LEMMA PreparedKeeps ==
  ASSUME Inv, NEW p \in Handlers, Prepared(p)
  PROVE  Inv'
<1>1. PICK d : d = task[p].draft
  OBVIOUS
<1>2. /\ task[p].at = "saved" /\ FinishOperation(p, Preview(d, row[d].letter))
      /\ UNCHANGED <<row, issued, spent, waiting, operation, page, refused, known, written,
                      crossed, posted>>
  BY <1>1 DEF Prepared
<1>3. Frame /\ TypeInv
  BY <1>2, StillFrame DEF Inv, TypeInv
<1>4. Has(d)
  BY <1>1, <1>2, TaskKnows DEF TaskInv
<1>5. PICK content \in Pages :
        content = Preview(d, row[d].letter) /\ content.name = "preview" /\ DrawInv(content)'
  BY <1>3, <1>4, PreviewPage
<1> QED BY <1>2, <1>3, <1>5, FinishOperationKeeps

\* After the text was stored, or could not be.
LEMMA ShowLetterKeeps ==
  ASSUME Inv, NEW p \in Handlers, ShowLetter(p)
  PROVE  Inv'
<1>1. PICK d : d = task[p].draft
  OBVIOUS
<1>2. /\ task[p].at = "stored" /\ waiting' = None
      /\ Finish(p, Preview(d, row[d].letter)) \/ Finish(p, Page("result"))
      /\ UNCHANGED <<row, issued, spent, operation, page, refused, known, written, crossed,
                      posted>>
  BY <1>1 DEF ShowLetter
<1>3. Frame /\ TypeInv
  BY <1>2, StillFrame DEF Inv, TypeInv
<1>4. Has(d)
  BY <1>1, <1>2, TaskKnows DEF TaskInv
<1>5. PICK content \in Pages :
        content = Preview(d, row[d].letter) /\ content.name = "preview" /\ DrawInv(content)'
  BY <1>3, <1>4, PreviewPage
<1> QED BY <1>2, <1>3, <1>5, NoDraftPage, FinishKeeps

LEMMA LetterRefusedKeeps ==
  ASSUME Inv, NEW p \in Handlers, task[p].at = "texting", waiting' = None,
         Finish(p, Page("result")),
         UNCHANGED <<row, issued, spent, operation, page, refused, known, written, crossed,
                     posted>>
  PROVE  Inv'
<1>1. Frame
  BY StillFrame DEF Inv, TypeInv
<1> QED BY <1>1, NoDraftPage, FinishKeeps

-----------------------------------------------------------------------------
(* Submitting *)

\* A draft that has a letter gets another status.
LEMMA StatusFrame ==
  ASSUME TypeInv, NEW d, Has(d), NEW status \in {"submitting", "submitted", "failed"},
         row' = [row EXCEPT ![d].api = status], spent' \subseteq 1..issued,
         UNCHANGED <<issued, waiting, operation, page, refused, known, written, crossed, posted>>
  PROVE  Frame
<1>1. /\ row' \in [Drafts -> Rows] /\ row'[d].api = status
      /\ \A e \in Drafts : row'[e].letter = row[e].letter /\ (e # d => row'[e] = row[e])
  BY DEF Has, TypeInv, Rows
<1> QED BY <1>1 DEF Frame, TypeInv, Has

LEMMA BeginSubmissionKeeps ==
  ASSUME Inv, NEW p \in Handlers, BeginSubmission(p)
  PROVE  Inv'
<1>1. /\ task[p].at = "answered" /\ task[p].action = "submit" /\ operation' = p
      /\ Draw(p, task[p], Page("sending"), "leasing")
      /\ UNCHANGED <<row, issued, spent, waiting, page, refused, known, written, crossed, posted>>
  BY DEF BeginSubmission
<1>2. Frame
  BY <1>1, StillFrame DEF Inv, TypeInv
<1>3. Seen(task[p].draft) /\ task[p].draft \in Drafts /\ task[p].token \in 1..issued
  BY <1>1, TaskKnows DEF TaskInv, Submits, DraftActions, Seen, Has
<1> QED BY <1>1, <1>2, <1>3, NoDraftPage, PageBetween

LEMMA LeaseKeeps ==
  ASSUME Inv, NEW p \in Handlers, Lease(p)
  PROVE  Inv'
<1>1. PICK d : d = task[p].draft
  OBVIOUS
<1>2. /\ task[p].at = "leasing" /\ spent' = spent \cup {task[p].token}
      /\ UNCHANGED <<issued, waiting, operation, page, refused, known, written, crossed, posted>>
      /\ \/ FinishOperation(p, Page("result")) /\ row' = row
         \/ row' = [row EXCEPT ![d].api = "submitting"] /\ GoOn(p, "leased") /\ queue' = queue
  BY <1>1 DEF Lease
<1>3. Seen(d) /\ Has(d) /\ task[p].token \in 1..issued
  BY <1>1, <1>2, TaskKnows DEF TaskInv, Submits, SeenSteps, Seen
<1>t. TypeInv
  BY DEF Inv
<1>4. spent' \subseteq 1..issued
  BY <1>2, <1>3, <1>t DEF TypeInv
<1>5. CASE FinishOperation(p, Page("result")) /\ row' = row
  <2>1. Frame
    BY <1>2, <1>4, <1>5, <1>t DEF Frame, TypeInv
  <2> QED BY <1>2, <1>5, <2>1, NoDraftPage, FinishOperationKeeps
<1>6. CASE /\ row' = [row EXCEPT ![d].api = "submitting"] /\ GoOn(p, "leased")
           /\ queue' = queue
  <2>1. Frame
    BY <1>2, <1>3, <1>4, <1>6, <1>t, StatusFrame
  <2> QED BY <1>1, <1>2, <1>3, <1>6, <2>1, GoOnKeeps
<1> QED BY <1>2, <1>5, <1>6

\* The letter that is read is one that the user knows, and the last one that was
\* stored.
LEMMA ReadLetterKeeps ==
  ASSUME Inv, NEW p \in Handlers, ReadLetter(p)
  PROVE  Inv'
<1>1. PICK s \in TaskStates : s = task[p] /\ TaskInv(s)
  BY TaskKnows
<1>2. s.at = "leased"
  BY <1>1 DEF ReadLetter
<1>3. PICK d \in Drafts : d = s.draft /\ Seen(d)
  BY <1>1, <1>2 DEF TaskInv, SeenSteps, Seen, Has
<1>t. TypeInv /\ RowInv
  BY DEF Inv
<1>4. PICK letter \in Letters : letter = row[d].letter
  BY <1>3, <1>t DEF TypeInv, Rows, Seen, Has
<1>5. PICK due \in Letters \cup {None} : due = written[d]
  BY <1>3, <1>t DEF TypeInv, Letters
<1>n. PICK n : n = [s EXCEPT !.at = "posting", !.letter = letter, !.due = due]
  OBVIOUS
<1>6. /\ task' = [task EXCEPT ![p] = n]
      /\ UNCHANGED <<row, issued, spent, waiting, operation, page, queue, refused, known,
                      written, crossed, posted>>
  BY <1>1, <1>3, <1>4, <1>5, <1>n DEF ReadLetter, Become
<1>7. /\ n \in TaskStates /\ n.at = "posting" /\ n.letter = letter /\ n.due = due
      /\ n.draft = d /\ n.draw = s.draw /\ n.loaded = s.loaded
  <2>1. "posting" \in Steps
    BY DEF Steps
  <2> QED BY <1>3, <1>n, <2>1 DEF TaskStates
<1>8. TaskInv(n)
  <2>1. ~crossed => letter \in known[d] /\ due \in {None, letter}
    BY <1>3, <1>4, <1>5, <1>t DEF Seen, RowInv
  <2> QED BY <1>1, <1>3, <1>7, <2>1 DEF TaskInv, DraftSteps, SeenSteps, Submits
<1>9. Frame
  BY <1>6, <1>t, StillFrame DEF TypeInv
<1>10. TaskInv(n)'
  BY <1>8, <1>9, <1>t, FrameMoves, TaskStays
<1>11. Turn(p, n)
  BY <1>1, <1>2, <1>4, <1>6, <1>7, <1>10 DEF Turn, GoesOn
<1> QED BY <1>9, <1>11, TurnKeeps

LEMMA PostKeeps ==
  ASSUME Inv, NEW p \in Handlers, Post(p)
  PROVE  Inv'
<1>1. PICK s \in TaskStates : s = task[p] /\ TaskInv(s)
  BY TaskKnows
<1>2. /\ s.at = "posting" /\ GoOn(p, "recording")
      /\ \/ posted' = posted \cup {[draft |-> s.draft, letter |-> s.letter, due |-> s.due]}
         \/ posted' = posted
      /\ UNCHANGED <<row, issued, spent, waiting, operation, page, queue, refused, known,
                      written, crossed>>
  BY <1>1 DEF Post
<1>3. Seen(s.draft) /\ s.draft \in Drafts
  BY <1>1, <1>2 DEF TaskInv, SeenSteps, Seen, Has
<1>4. PICK post : post = [draft |-> s.draft, letter |-> s.letter, due |-> s.due]
  OBVIOUS
<1>5. PostInv(post)
  BY <1>1, <1>2, <1>3, <1>4 DEF TaskInv, PostInv
<1>6. \A other \in posted' : other \in posted \/ PostInv(other)
  BY <1>2, <1>4, <1>5
<1>7. Frame
  BY <1>2, <1>6 DEF Inv, TypeInv, Frame
<1> QED BY <1>1, <1>2, <1>3, <1>7, GoOnKeeps

LEMMA RecordKeeps ==
  ASSUME Inv, NEW p \in Handlers, Record(p)
  PROVE  Inv'
<1>1. PICK d : d = task[p].draft
  OBVIOUS
<1>2. /\ task[p].at = "recording"
      /\ UNCHANGED <<issued, spent, waiting, operation, page, refused, known, written, crossed,
                      posted>>
  BY DEF Record
<1>3. Seen(d) /\ Has(d) /\ d \in Drafts
  BY <1>1, <1>2, TaskKnows DEF TaskInv, SeenSteps, Seen, Has
<1>4. PICK status \in {"submitted", "failed"}, target \in {None, d} :
        /\ row' = [row EXCEPT ![d].api = status]
        /\ FinishOperation(p, PageOf("result", target))
  <2>1. PICK r \in {<<"submitted", None>>, <<"failed", None>>, <<"failed", d>>} :
          /\ row' = [row EXCEPT ![d].api = r[1]]
          /\ FinishOperation(p, PageOf("result", r[2]))
    BY <1>1 DEF Record
  <2>2. r[1] \in {"submitted", "failed"} /\ r[2] \in {None, d}
    OBVIOUS
  <2> QED BY <2>1, <2>2
<1>t. TypeInv
  BY DEF Inv
<1>5. Frame
  BY <1>2, <1>3, <1>4, <1>t, StatusFrame DEF TypeInv
<1>6. "result" \in Names
  BY DEF Names
<1>7. PICK content \in Pages : /\ content = PageOf("result", target)
                               /\ content.name = "result" /\ content.draft = target
  BY <1>3, <1>6, PageOfType
<1>8. DrawInv(content)
  BY <1>3, <1>7 DEF DrawInv, Offered
<1>9. DrawInv(content)'
  BY <1>5, <1>8, <1>t, FrameMoves, DrawStays
<1> QED BY <1>2, <1>4, <1>5, <1>7, <1>9, FinishOperationKeeps

-----------------------------------------------------------------------------
(* The steps that find, type and store a letter *)

\* A step of one task that draws nothing.
LEMMA InnerKeeps ==
  ASSUME Inv, LettersMove, NEW p \in Handlers, NEW n \in TaskStates,
         task' = [task EXCEPT ![p] = n], TaskInv(n)',
         task[p].at \notin {"drawing", "leaving", "confirming"}, n.at # "drawing",
         n.draw \in {task[p].draw, Page("card")},
         row' \in [Drafts -> Rows], known' \in [Drafts -> SUBSET Letters],
         written' \in [Drafts -> Typed \cup {None}], crossed' \in BOOLEAN,
         UNCHANGED <<issued, spent, waiting, operation, page, queue, refused, posted>>
  PROVE  /\ TypeInv' /\ QueueInv' /\ LetterInv' /\ AskInv'
         /\ task'[p] = n /\ \A q \in Handlers : q # p => task'[q] = task[q]
<1>t. TypeInv /\ QueueInv /\ LetterInv /\ AskInv
  BY DEF Inv
<1>n. task'[p] = n /\ \A q \in Handlers : q # p => task'[q] = task[q]
  BY <1>t DEF TypeInv
<1>1. TypeInv'
  <2>1. task' \in [Handlers -> TaskStates]
    BY <1>t DEF TypeInv
  <2> QED BY <1>t, <2>1 DEF TypeInv
<1>2. QueueInv'
  BY <1>t, <1>n DEF QueueInv
<1>3. LetterInv'
  <2>1. PageInv(page)'
    <3>1. PICK content : content = page
      OBVIOUS
    <3>2. PageInv(content) /\ page' = content
      BY <1>t, <3>1 DEF LetterInv
    <3> QED BY <3>2, PageStays
  <2>2. waiting' # None => Seen(waiting)'
    <3>1. PICK d : d = waiting
      OBVIOUS
    <3>2. d # None => Seen(d)
      BY <1>t, <3>1 DEF LetterInv
    <3>3. d # None => Seen(d)'
      BY <3>2, SeenStays
    <3> QED BY <3>1, <3>3
  <2>3. ASSUME NEW q \in Handlers PROVE TaskInv(task[q])'
    <3>1. CASE q = p
      BY <1>n, <3>1
    <3>2. CASE q # p
      <4>1. PICK s : s = task[q]
        OBVIOUS
      <4>2. TaskInv(s) /\ task'[q] = s
        BY <1>t, <1>n, <3>2, <4>1 DEF LetterInv
      <4> QED BY <4>2, TaskStays
    <3> QED BY <3>1, <3>2
  <2>4. ASSUME NEW post \in posted' PROVE PostInv(post)'
    BY <1>t, PostStays DEF LetterInv
  <2> QED BY <2>1, <2>2, <2>3, <2>4 DEF LetterInv
<1>4. AskInv'
  <2> SUFFICES ASSUME queue = <<>> => ~refused, Tip'.name = "edit"
               PROVE  waiting' = Tip'.draft \/ Clearing'
    BY DEF AskInv
  <2>1. Page("card").name # "edit"
    BY PageType DEF Names
  <2>2. Tip' = Tip
    <3>1. CASE queue = <<>>
      BY <3>1 DEF Tip
    <3>2. CASE queue # <<>>
      <4>1. PICK q \in Handlers : q = queue[Len(queue)]
        BY <1>t, <3>2 DEF TypeInv
      <4>2. Tip = task[q].draw /\ Tip' = task'[q].draw
        BY <3>2, <4>1 DEF Tip
      <4>3. q = p => task'[q].draw = task[q].draw
        BY <1>n, <2>1, <4>2
      <4> QED BY <1>n, <4>2, <4>3
    <3> QED BY <3>1, <3>2
  <2>3. waiting = Tip.draft \/ Clearing
    BY <1>t, <2>2 DEF AskInv
  <2>4. Clearing => Clearing'
    BY <1>n DEF Clearing
  <2> QED BY <2>2, <2>3, <2>4
<1> QED BY <1>n, <1>1, <1>2, <1>3, <1>4

\* The letters of the drafts stay as they are.
LEMMA TypingKept ==
  ASSUME TypingInv, NEW p \in Handlers, NEW n, task'[p] = n,
         \A q \in Handlers : q # p => task'[q] = task[q],
         \A d \in Drafts : row'[d].letter \in {row[d].letter, task[p].letter},
         n.letter \in Typed => Mentioned(n.letter),
         n.at \notin {"texting", "storing"},
         \A q \in Handlers : q # p /\ task[q].at \in {"texting", "storing"} =>
           n.letter # task[q].letter,
         UNCHANGED known
  PROVE  TypingInv'
<1>1. \A letter : Mentioned(letter)' <=> Mentioned(letter)
  BY DEF Mentioned
<1>2. \A q \in Handlers : task'[q].letter \in Typed => Mentioned(task'[q].letter)
  BY DEF TypingInv
<1>3. \A d \in Drafts : row'[d].letter \in Typed => Mentioned(row'[d].letter)
  BY DEF TypingInv
<1>4. ASSUME NEW q \in Handlers, task'[q].at \in {"texting", "storing"}
      PROVE  /\ task'[q].letter \in Typed \cap known'[task'[q].draft]
             /\ \A d \in Drafts : row'[d].letter # task'[q].letter
             /\ \A r \in Handlers \ {q} : task'[r].letter # task'[q].letter
             /\ task'[q].at = "storing" => task'[q].loaded.letter # task'[q].letter
  <2>1. q # p /\ task'[q] = task[q]
    BY <1>4
  <2>2. /\ task[q].letter \in Typed \cap known[task[q].draft]
        /\ \A d \in Drafts : row[d].letter # task[q].letter
        /\ \A r \in Handlers \ {q} : task[r].letter # task[q].letter
        /\ task[q].at = "storing" => task[q].loaded.letter # task[q].letter
    BY <1>4, <2>1 DEF TypingInv
  <2>3. \A r \in Handlers \ {q} : task'[r].letter # task'[q].letter
    BY <1>4, <2>1, <2>2
  <2>4. \A d \in Drafts : row'[d].letter # task'[q].letter
    BY <2>1, <2>2
  <2> QED BY <2>1, <2>2, <2>3, <2>4
<1> QED BY <1>1, <1>2, <1>3, <1>4 DEF TypingInv

LEMMA TextKeeps ==
  ASSUME Inv, NEW p \in Handlers, Text(p)
  PROVE  Inv'
<1>t. TypeInv /\ LetterInv /\ RowInv /\ PrepInv /\ TypingInv
  BY DEF Inv
<1>1. /\ task[p].at = "idle" /\ waiting # None
      /\ UNCHANGED <<row, issued, spent, waiting, operation, page, refused, written, crossed,
                      posted>>
  BY DEF Text
<1>2. CASE /\ Draw(p, [Idle EXCEPT !.action = "text"], PageOf("edit", waiting), "idle")
           /\ UNCHANGED known
  BY <1>1, <1>2, BlankTextKeeps
<1>3. ASSUME NEW letter \in Typed, ~Mentioned(letter),
             known' = [known EXCEPT ![waiting] = @ \cup {letter}],
             Become(p, [Idle EXCEPT !.at = "texting", !.action = "text", !.draft = waiting,
                                    !.letter = letter]),
             queue' = queue
      PROVE  Inv'
  <2>1. PICK d \in Drafts : d = waiting /\ Seen(d)
    BY <1>1, <1>t DEF TypeInv, LetterInv
  <2>2. letter \in Letters
    BY DEF Letters
  <2>3. /\ known' \in [Drafts -> SUBSET Letters] /\ letter \in known'[d]
        /\ \A e \in Drafts : known[e] \subseteq known'[e]
    BY <1>3, <1>t, <2>1, <2>2 DEF TypeInv
  <2>4. LettersMove
    BY <1>1, <1>t, <2>3 DEF LettersMove, TypeInv
  <2>n. PICK n : n = [Idle EXCEPT !.at = "texting", !.action = "text", !.draft = d,
                                  !.letter = letter]
    OBVIOUS
  <2>5. /\ n \in TaskStates /\ n.at = "texting" /\ n.draft = d /\ n.letter = letter
        /\ n.draw = Page("card") /\ n.loaded = Idle.loaded
    <3>1. "texting" \in Steps /\ "text" \in Actions
      BY DEF Steps, Actions
    <3> QED BY <2>2, <2>n, <3>1, IdleType DEF TaskStates
  <2>6. task' = [task EXCEPT ![p] = n]
    BY <1>3, <2>1, <2>n DEF Become
  <2>7. TaskInv(n)
    BY <2>1, <2>5, IdlePage DEF TaskInv, DraftSteps, SeenSteps, Submits
  <2>8. TaskInv(n)'
    BY <2>4, <2>7, TaskStays
  <2>9. /\ TypeInv' /\ QueueInv' /\ LetterInv' /\ AskInv'
        /\ task'[p] = n /\ \A q \in Handlers : q # p => task'[q] = task[q]
    BY <1>1, <1>3, <1>t, <2>3, <2>4, <2>5, <2>6, <2>8, InnerKeeps DEF TypeInv
  <2>10. RowInv'
    BY <1>1, <1>t, <2>5, <2>9, IdleType DEF RowInv, Matched
  <2>11. PrepInv'
    BY <1>1, <1>t, <2>5, <2>9 DEF PrepInv
  <2>12. TypingInv'
    <3>1. ASSUME NEW e \in Drafts, row'[e].letter \in Typed
          PROVE  \E f \in Drafts : row'[e].letter \in known'[f]
      <4>1. PICK f \in Drafts : row[e].letter \in known[f]
        BY <1>1, <1>t, <3>1 DEF TypingInv, Mentioned
      <4> QED BY <1>1, <2>3, <4>1
    <3>2. ASSUME NEW q \in Handlers, task'[q].letter \in Typed
          PROVE  \E f \in Drafts : task'[q].letter \in known'[f]
      <4>1. CASE q = p
        BY <2>3, <2>5, <2>9, <4>1
      <4>2. CASE q # p
        <5>1. task'[q] = task[q]
          BY <2>9, <4>2
        <5>2. PICK f \in Drafts : task[q].letter \in known[f]
          BY <1>t, <3>2, <5>1 DEF TypingInv, Mentioned
        <5> QED BY <2>3, <5>1, <5>2
      <4> QED BY <4>1, <4>2
    <3>5. /\ \A e \in Drafts : row[e].letter # letter
          /\ \A q \in Handlers : task[q].letter # letter
      BY <1>3, <1>t DEF TypingInv
    <3>6. ASSUME NEW q \in Handlers, task'[q].at \in {"texting", "storing"}
          PROVE  /\ task'[q].letter \in Typed \cap known'[task'[q].draft]
                 /\ \A e \in Drafts : row'[e].letter # task'[q].letter
                 /\ \A r \in Handlers \ {q} : task'[r].letter # task'[q].letter
                 /\ task'[q].at = "storing" => task'[q].loaded.letter # task'[q].letter
      <4>1. CASE q = p
        BY <1>1, <2>3, <2>5, <2>9, <3>5, <4>1
      <4>2. CASE q # p
        <5>1. task'[q] = task[q] /\ task[q].draft \in Drafts
          BY <1>t, <2>9, <3>6, <4>2 DEF LetterInv, TaskInv, SeenSteps, Seen, Has
        <5>2. /\ task[q].letter \in Typed \cap known[task[q].draft]
              /\ \A e \in Drafts : row[e].letter # task[q].letter
              /\ \A r \in Handlers \ {q} : task[r].letter # task[q].letter
              /\ task[q].at = "storing" => task[q].loaded.letter # task[q].letter
          BY <1>t, <3>6, <5>1 DEF TypingInv
        <5>3. \A r \in Handlers \ {q} : task'[r].letter # task'[q].letter
          BY <2>5, <2>9, <3>5, <5>1, <5>2
        <5> QED BY <1>1, <2>3, <5>1, <5>2, <5>3
      <4> QED BY <4>1, <4>2
    <3> QED BY <3>1, <3>2, <3>6 DEF TypingInv, Mentioned
  <2> QED BY <2>9, <2>10, <2>11, <2>12 DEF Inv
<1>4. CASE /\ \E letter \in Typed \ UNION {known[d] : d \in Drafts} :
                /\ known' = [known EXCEPT ![waiting] = @ \cup {letter}]
                /\ Become(p, [Idle EXCEPT !.at = "texting", !.action = "text",
                                          !.draft = waiting, !.letter = letter])
                /\ queue' = queue
  <2>1. PICK letter \in Typed \ UNION {known[d] : d \in Drafts} :
          /\ known' = [known EXCEPT ![waiting] = @ \cup {letter}]
          /\ Become(p, [Idle EXCEPT !.at = "texting", !.action = "text",
                                    !.draft = waiting, !.letter = letter])
          /\ queue' = queue
    BY <1>4
  <2>2. ~Mentioned(letter)
    BY DEF Mentioned
  <2> QED BY <1>3, <2>1, <2>2
<1> QED BY <1>2, <1>4 DEF Text

\* A letter is generated, or the draft's own is taken.
LEMMA FindLetterKeeps ==
  ASSUME Inv, NEW p \in Handlers, FindLetter(p)
  PROVE  Inv'
<1>t. TypeInv /\ LetterInv /\ RowInv /\ PrepInv /\ TypingInv
  BY DEF Inv
<1>1. PICK s \in TaskStates : s = task[p] /\ TaskInv(s)
  BY TaskKnows
<1>2. s.at = "finding"
  BY <1>1 DEF FindLetter
<1>3. PICK d \in Drafts : d = s.draft
  BY <1>1, <1>2 DEF TaskInv, DraftSteps
<1>4. PICK letter \in LettersFor(p, d) :
        task' = [task EXCEPT ![p] = [s EXCEPT !.at = "writing", !.letter = letter]]
  BY <1>1, <1>3 DEF FindLetter, Become
<1>5. UNCHANGED <<row, issued, spent, waiting, operation, page, queue, refused, known, written,
                  crossed, posted>>
  BY DEF FindLetter
<1>6. /\ letter \in Letters /\ letter # None
      /\ row[d].letter \in {None, letter}
      /\ letter \in Generated \/ letter = row[d].letter
  BY <1>3, <1>4, <1>t, NoneIsNot DEF LettersFor, Letters, TypeInv, Rows
<1>n. PICK n : n = [s EXCEPT !.at = "writing", !.letter = letter]
  OBVIOUS
<1>7. /\ n \in TaskStates /\ n.at = "writing" /\ n.letter = letter /\ n.draft = d
      /\ n.draw = s.draw /\ n.loaded = s.loaded
  <2>1. "writing" \in Steps
    BY DEF Steps
  <2> QED BY <1>3, <1>6, <1>n, <2>1 DEF TaskStates
<1>8. LettersMove
  BY <1>5, <1>t DEF LettersMove, TypeInv
<1>9. TaskInv(n)
  BY <1>1, <1>3, <1>6, <1>7 DEF TaskInv, DraftSteps, SeenSteps, Submits
<1>10. /\ TypeInv' /\ QueueInv' /\ LetterInv' /\ AskInv'
       /\ task'[p] = n /\ \A q \in Handlers : q # p => task'[q] = task[q]
  <2>1. TaskInv(n)'
    BY <1>8, <1>9, TaskStays
  <2>2. task' = [task EXCEPT ![p] = n]
    BY <1>4, <1>n
  <2> QED BY <1>1, <1>2, <1>5, <1>7, <1>8, <1>t, <2>1, <2>2, InnerKeeps DEF TypeInv
<1>11. RowInv'
  BY <1>1, <1>5, <1>7, <1>10, <1>t DEF RowInv, Matched
<1>12. PrepInv'
  BY <1>5, <1>6, <1>7, <1>10, <1>t DEF PrepInv
<1>13. TypingInv'
  <2>1. letter \in Typed => Mentioned(letter)
    BY <1>6, <1>t DEF TypingInv
  <2>2. \A q \in Handlers : q # p /\ task[q].at \in {"texting", "storing"} =>
          letter # task[q].letter
    BY <1>6, <1>t DEF TypingInv
  <2> QED BY <1>5, <1>7, <1>10, <1>t, <2>1, <2>2, TypingKept
<1> QED BY <1>10, <1>11, <1>12, <1>13 DEF Inv

\* save_draft reads the row.
LEMMA LoadDraftKeeps ==
  ASSUME Inv, NEW p \in Handlers, LoadDraft(p)
  PROVE  Inv'
<1>t. TypeInv /\ LetterInv /\ RowInv /\ PrepInv /\ TypingInv
  BY DEF Inv
<1>1. PICK s \in TaskStates : s = task[p] /\ TaskInv(s)
  BY TaskKnows
<1>2. s.at = "writing"
  BY <1>1 DEF LoadDraft
<1>3. PICK d \in Drafts : d = s.draft
  BY <1>1, <1>2 DEF TaskInv, DraftSteps
<1>4. PICK r \in Rows : r = row[d] /\ Matched(r)
  BY <1>t DEF TypeInv, RowInv
<1>5. UNCHANGED <<row, issued, spent, waiting, operation, page, queue, refused, known, written,
                  crossed, posted>>
  BY DEF LoadDraft
<1>6. CASE r.api = "submitted" /\ GoOn(p, "saved")
  <2>1. Has(d)
    BY <1>4, <1>6 DEF Has, Matched
  <2>2. Frame
    BY <1>5, <1>t, StillFrame DEF TypeInv
  <2> QED BY <1>1, <1>2, <1>3, <1>5, <1>6, <2>1, <2>2, GoOnKeeps
<1>7. CASE task' = [task EXCEPT ![p] = [s EXCEPT !.at = "saving", !.loaded = r]]
  <2>n. PICK n : n = [s EXCEPT !.at = "saving", !.loaded = r]
    OBVIOUS
  <2>1. /\ n \in TaskStates /\ n.at = "saving" /\ n.letter = s.letter /\ n.draft = d
        /\ n.draw = s.draw /\ n.loaded = r
    <3>1. "saving" \in Steps
      BY DEF Steps
    <3> QED BY <1>3, <2>n, <3>1 DEF TaskStates
  <2>2. LettersMove
    BY <1>5, <1>t DEF LettersMove, TypeInv
  <2>3. TaskInv(n)
    BY <1>1, <1>2, <1>3, <1>4, <2>1 DEF TaskInv, DraftSteps, SeenSteps, Submits, Has
  <2>4. /\ TypeInv' /\ QueueInv' /\ LetterInv' /\ AskInv'
        /\ task'[p] = n /\ \A q \in Handlers : q # p => task'[q] = task[q]
    <3>1. TaskInv(n)'
      BY <2>2, <2>3, TaskStays
    <3>2. task' = [task EXCEPT ![p] = n]
      BY <1>7, <2>n
    <3> QED BY <1>1, <1>2, <1>5, <1>t, <2>1, <2>2, <3>1, <3>2, InnerKeeps DEF TypeInv
  <2>5. RowInv'
    BY <1>4, <1>5, <1>t, <2>1, <2>4 DEF RowInv, Matched
  <2>6. PrepInv'
    BY <1>1, <1>2, <1>3, <1>4, <1>5, <1>t, <2>1, <2>4 DEF PrepInv
  <2>7. TypingInv'
    <3>1. /\ s.letter \in Typed => Mentioned(s.letter)
          /\ \A q \in Handlers : q # p /\ task[q].at \in {"texting", "storing"} =>
                s.letter # task[q].letter
      BY <1>1, <1>t DEF TypingInv
    <3> QED BY <1>5, <1>t, <2>1, <2>4, <3>1, TypingKept
  <2> QED BY <2>4, <2>5, <2>6, <2>7 DEF Inv
<1> QED BY <1>1, <1>3, <1>4, <1>6, <1>7 DEF LoadDraft, Become

\* update_cover_letter reads the row.
LEMMA LoadLetterKeeps ==
  ASSUME Inv, NEW p \in Handlers, LoadLetter(p)
  PROVE  Inv'
<1>t. TypeInv /\ LetterInv /\ RowInv /\ PrepInv /\ TypingInv
  BY DEF Inv
<1>1. PICK s \in TaskStates : s = task[p] /\ TaskInv(s)
  BY TaskKnows
<1>2. s.at = "texting"
  BY <1>1 DEF LoadLetter
<1>3. PICK d \in Drafts : d = s.draft /\ Seen(d) /\ row[d].letter # None
  BY <1>1, <1>2 DEF TaskInv, SeenSteps, Seen, Has
<1>4. PICK r \in Rows : r = row[d] /\ Matched(r)
  BY <1>t DEF TypeInv, RowInv
<1>5. UNCHANGED <<row, issued, spent, operation, page, refused, known, written, crossed, posted>>
  BY DEF LoadLetter
<1>6. CASE waiting' = None /\ Finish(p, Page("result"))
  BY <1>1, <1>2, <1>5, <1>6, LetterRefusedKeeps
<1>7. CASE /\ task' = [task EXCEPT ![p] = [s EXCEPT !.at = "storing", !.loaded = r]]
           /\ UNCHANGED <<waiting, queue>>
  <2>n. PICK n : n = [s EXCEPT !.at = "storing", !.loaded = r]
    OBVIOUS
  <2>1. /\ n \in TaskStates /\ n.at = "storing" /\ n.letter = s.letter /\ n.draft = d
        /\ n.draw = s.draw /\ n.loaded = r
    <3>1. "storing" \in Steps
      BY DEF Steps
    <3> QED BY <1>3, <2>n, <3>1 DEF TaskStates
  <2>2. LettersMove
    BY <1>5, <1>t DEF LettersMove, TypeInv
  <2>3. TaskInv(n)
    BY <1>1, <1>3, <1>4, <2>1 DEF TaskInv, DraftSteps, SeenSteps, Submits
  <2>4. /\ TypeInv' /\ QueueInv' /\ LetterInv' /\ AskInv'
        /\ task'[p] = n /\ \A q \in Handlers : q # p => task'[q] = task[q]
    <3>1. TaskInv(n)'
      BY <2>2, <2>3, TaskStays
    <3>2. task' = [task EXCEPT ![p] = n]
      BY <1>7, <2>n
    <3> QED BY <1>1, <1>2, <1>5, <1>7, <1>t, <2>1, <2>2, <3>1, <3>2, InnerKeeps DEF TypeInv
  <2>5. RowInv'
    BY <1>4, <1>5, <1>t, <2>1, <2>4 DEF RowInv, Matched
  <2>6. PrepInv'
    BY <1>5, <1>t, <2>1, <2>4 DEF PrepInv
  <2>7. TypingInv'
    <3>1. /\ n.letter = task[p].letter /\ n.draft = task[p].draft
          /\ task[p].at = "texting"
      BY <1>1, <1>2, <1>3, <2>1
    <3>2. r.letter # task[p].letter
      BY <1>4, <1>t, <3>1 DEF TypingInv
    <3>3. \A q \in Handlers : /\ task'[q].letter = task[q].letter
                              /\ task'[q].draft = task[q].draft
                              /\ q # p => task'[q] = task[q]
      BY <2>4, <3>1
    <3>4. ASSUME NEW q \in Handlers, task'[q].at \in {"texting", "storing"}
          PROVE  task[q].at \in {"texting", "storing"}
                 /\ (task'[q].at = "storing" => task'[q].loaded.letter # task'[q].letter)
      <4>1. CASE q = p
        BY <2>1, <2>4, <3>1, <3>2, <4>1
      <4>2. CASE q # p
        BY <1>t, <3>3, <3>4, <4>2 DEF TypingInv
      <4> QED BY <4>1, <4>2
    <3> QED BY <1>5, <1>t, <3>3, <3>4 DEF TypingInv, Mentioned
  <2> QED BY <2>4, <2>5, <2>6, <2>7 DEF Inv
<1> QED BY <1>1, <1>3, <1>4, <1>6, <1>7 DEF LoadLetter, Become

\* What storing a letter makes of the row.
LEMMA Stored ==
  ASSUME Inv, NEW p \in Handlers, Store(p), task[p].at \in {"saving", "storing"},
         NEW d \in Drafts, d = task[p].draft,
         task[p].letter \in Letters
  PROVE  /\ row' \in [Drafts -> Rows] /\ crossed' \in BOOLEAN
         /\ \A e \in Drafts : e # d => row'[e] = row[e]
         /\ row'[d].letter = IF task[p].letter = task[p].loaded.letter THEN row[d].letter
                             ELSE task[p].letter
         /\ row'[d].letter # None /\ Matched(row'[d])
         /\ crossed => crossed'
         /\ ~crossed' => \A q \in Handlers :
              q # p /\ task[q].at \in {"writing", "saving"} => task[q].draft # d
<1>t. TypeInv /\ RowInv
  BY DEF Inv
<1>1. PICK s \in TaskStates : s = task[p] /\ TaskInv(s)
  BY TaskKnows
<1>2. PICK r \in Rows, l \in Rows : r = row[d] /\ l = s.loaded /\ Matched(r) /\ Matched(l)
  BY <1>1, <1>t DEF TypeInv, RowInv, TaskStates
<1>3. l.letter # None => r.letter # None
  <2>1. CASE s.at = "saving"
    BY <1>1, <1>2, <2>1 DEF TaskInv, Has
  <2>2. CASE s.at = "storing"
    BY <1>1, <1>2, <2>2 DEF TaskInv, SeenSteps, Seen, Has
  <2> QED BY <1>1, <2>1, <2>2
<1>4. PICK u : u = Flush(r, l, [api |-> "draft", letter |-> s.letter])
  OBVIOUS
<1>5. /\ u.api = IF l.api = "draft" THEN r.api ELSE "draft"
      /\ u.letter = IF s.letter = l.letter THEN r.letter ELSE s.letter
      /\ u \in Rows
  BY <1>1, <1>2, <1>4 DEF Flush, Rows, TaskStates
<1>6. row' = [row EXCEPT ![d] = u] /\ crossed' = (crossed \/ Preparing(d) \ {p} # {})
  BY <1>1, <1>2, <1>4 DEF Store
<1>7. s.letter # None
  BY <1>1, NoneIsNot
<1>8. u.letter # None
  BY <1>3, <1>5, <1>7
<1>9. u.api # "absent"
  BY <1>2, <1>3, <1>5 DEF Matched
<1>10. row'[d] = u /\ row' \in [Drafts -> Rows] /\ \A e \in Drafts : e # d => row'[e] = row[e]
  BY <1>5, <1>6, <1>t DEF TypeInv
<1>11. crossed' \in BOOLEAN /\ (crossed => crossed')
  BY <1>6, <1>t DEF TypeInv
<1>12. ASSUME ~crossed', NEW q \in Handlers, q # p, task[q].at \in {"writing", "saving"},
              task[q].draft = d
       PROVE  FALSE
  <2>1. q \in Preparing(d)
    BY <1>12 DEF Preparing
  <2> QED BY <1>6, <1>12, <2>1
<1> QED BY <1>1, <1>2, <1>5, <1>8, <1>9, <1>10, <1>11, <1>12 DEF Matched

\* A preparation stores its letter: one that the draft has already, or the
\* first one of the draft, unless another preparation is in its way.
LEMMA SaveDraftKeeps ==
  ASSUME Inv, NEW p \in Handlers, SaveDraft(p)
  PROVE  Inv'
<1>t. TypeInv /\ LetterInv /\ RowInv /\ PrepInv /\ TypingInv
  BY DEF Inv
<1>1. PICK s \in TaskStates : s = task[p] /\ TaskInv(s)
  BY TaskKnows
<1>2. s.at = "saving" /\ GoOn(p, "saved")
  BY <1>1 DEF SaveDraft
<1>3. PICK d \in Drafts : d = s.draft
  BY <1>1, <1>2 DEF TaskInv, DraftSteps
<1>4. s.letter \in Letters /\ s.letter # None
  BY <1>1, <1>2 DEF TaskInv, TaskStates
<1>5. UNCHANGED <<issued, spent, waiting, operation, page, queue, refused, known, written, posted>>
  BY DEF SaveDraft
<1>6. \/ row' = row /\ crossed' = crossed /\ row[d].api # "absent"
      \/ Store(p)
  BY <1>1, <1>3 DEF SaveDraft
<1>7. /\ row' \in [Drafts -> Rows] /\ crossed' \in BOOLEAN
      /\ \A e \in Drafts : e # d => row'[e] = row[e]
      /\ row'[d].letter \in {row[d].letter, s.letter}
      /\ row'[d].letter # None /\ Matched(row'[d])
      /\ crossed => crossed'
      /\ ~crossed' => \/ row' = row
                      \/ \A q \in Handlers :
                           q # p /\ task[q].at \in {"writing", "saving"} => task[q].draft # d
  <2>1. CASE Store(p)
    BY <1>1, <1>2, <1>3, <1>4, <2>1, Stored
  <2>2. CASE row' = row /\ crossed' = crossed /\ row[d].api # "absent"
    BY <1>t, <2>2 DEF TypeInv, RowInv, Matched
  <2> QED BY <1>6, <2>1, <2>2
<1>8. ~crossed => row[d].letter \in {None, s.letter}
  BY <1>1, <1>2, <1>3, <1>t DEF PrepInv
<1>9. LettersMove
  <2>1. \A e \in Drafts : row[e].letter # None =>
          /\ row'[e].letter # None
          /\ ~crossed' => row'[e].letter \in known'[e] \cup {row[e].letter}
    BY <1>7, <1>8
  <2> QED BY <1>5, <1>7, <1>t, <2>1 DEF LettersMove, TypeInv
<1>n. PICK n : n = [s EXCEPT !.at = "saved"]
  OBVIOUS
<1>10. /\ n \in TaskStates /\ n.at = "saved" /\ n.letter = s.letter /\ n.draft = d
       /\ n.draw = s.draw /\ n.loaded = s.loaded
  <2>1. "saved" \in Steps
    BY DEF Steps
  <2> QED BY <1>3, <1>n, <2>1, GoOnState
<1>11. /\ TypeInv' /\ QueueInv' /\ LetterInv' /\ AskInv'
       /\ task'[p] = n /\ \A q \in Handlers : q # p => task'[q] = task[q]
  <2>1. TaskInv(n)'
    <3>1. Has(d)'
      BY <1>7 DEF Has
    <3>2. PICK content : content = s.draw
      OBVIOUS
    <3>3. DrawInv(content)'
      BY <1>1, <1>9, <3>2, DrawStays DEF TaskInv
    <3> QED BY <1>10, <3>1, <3>2, <3>3 DEF TaskInv, DraftSteps, SeenSteps, Submits
  <2>2. task' = [task EXCEPT ![p] = n]
    BY <1>1, <1>2, <1>n DEF GoOn, Become
  <2> QED BY <1>1, <1>2, <1>5, <1>7, <1>9, <1>10, <1>t, <2>1, <2>2, InnerKeeps DEF TypeInv
<1>12. RowInv'
  <2>1. ASSUME NEW e \in Drafts
        PROVE  Matched(row'[e]) /\ (~crossed' => written'[e] \in {None, row'[e].letter})
    <3>1. CASE e = d
      BY <1>5, <1>7, <1>8, <1>t, <3>1 DEF RowInv
    <3>2. CASE e # d
      BY <1>5, <1>7, <1>t, <3>2 DEF RowInv
    <3> QED BY <3>1, <3>2
  <2>2. \A q \in Handlers : Matched(task'[q].loaded)
    BY <1>1, <1>10, <1>11, <1>t DEF RowInv
  <2> QED BY <2>1, <2>2 DEF RowInv, Matched
<1>13. PrepInv'
  <2> SUFFICES ASSUME ~crossed', NEW q \in Handlers, task'[q].at \in {"writing", "saving"}
               PROVE  /\ row'[task'[q].draft].letter \in {None, task'[q].letter}
                      /\ task'[q].at = "saving" =>
                           task'[q].loaded.letter = row'[task'[q].draft].letter
    BY DEF PrepInv
  <2>1. q # p /\ task'[q] = task[q] /\ task[q].draft \in Drafts /\ ~crossed
    BY <1>7, <1>10, <1>11, <1>t DEF LetterInv, TaskInv, DraftSteps
  <2>2. row'[task[q].draft] = row[task[q].draft]
    BY <1>7, <2>1
  <2> QED BY <1>t, <2>1, <2>2 DEF PrepInv
<1>14. TypingInv'
  <2>1. /\ s.letter \in Typed => Mentioned(s.letter)
        /\ \A q \in Handlers : q # p /\ task[q].at \in {"texting", "storing"} =>
              s.letter # task[q].letter
    BY <1>1, <1>t DEF TypingInv
  <2>2. \A e \in Drafts : row'[e].letter \in {row[e].letter, task[p].letter}
    BY <1>1, <1>7
  <2> QED BY <1>5, <1>10, <1>11, <1>t, <2>1, <2>2, TypingKept
<1> QED BY <1>11, <1>12, <1>13, <1>14 DEF Inv

\* The letter the user typed replaces whatever the draft had.
LEMMA StoreLetterKeeps ==
  ASSUME Inv, NEW p \in Handlers, StoreLetter(p)
  PROVE  Inv'
<1>t. TypeInv /\ LetterInv /\ RowInv /\ PrepInv /\ TypingInv
  BY DEF Inv
<1>1. PICK s \in TaskStates : s = task[p] /\ TaskInv(s)
  BY TaskKnows
<1>2. /\ s.at = "storing" /\ GoOn(p, "stored") /\ Store(p)
      /\ written' = [written EXCEPT ![s.draft] = s.letter]
      /\ UNCHANGED <<issued, spent, waiting, operation, page, queue, refused, known, posted>>
  BY <1>1 DEF StoreLetter
<1>3. PICK d \in Drafts : d = s.draft /\ Has(d)
  BY <1>1, <1>2 DEF TaskInv, SeenSteps, Seen, Has
<1>4. /\ s.letter \in Typed /\ s.letter \in known[d] /\ s.letter \in Letters
      /\ s.letter # s.loaded.letter
  BY <1>1, <1>2, <1>3, <1>t DEF TypingInv, Letters
<1>7. /\ row' \in [Drafts -> Rows] /\ crossed' \in BOOLEAN
      /\ \A e \in Drafts : e # d => row'[e] = row[e]
      /\ row'[d].letter = s.letter
      /\ row'[d].letter # None /\ Matched(row'[d])
      /\ crossed => crossed'
      /\ ~crossed' => \A q \in Handlers :
           q # p /\ task[q].at \in {"writing", "saving"} => task[q].draft # d
  BY <1>1, <1>2, <1>3, <1>4, Stored
<1>8. /\ written' \in [Drafts -> Typed \cup {None}] /\ written'[d] = s.letter
      /\ \A e \in Drafts : e # d => written'[e] = written[e]
  BY <1>2, <1>3, <1>4, <1>t DEF TypeInv
<1>9. LettersMove
  <2>1. \A e \in Drafts : row[e].letter # None =>
          /\ row'[e].letter # None
          /\ ~crossed' => row'[e].letter \in known'[e] \cup {row[e].letter}
    BY <1>2, <1>4, <1>7
  <2> QED BY <1>2, <1>7, <1>t, <2>1 DEF LettersMove, TypeInv
<1>n. PICK n : n = [s EXCEPT !.at = "stored"]
  OBVIOUS
<1>10. /\ n \in TaskStates /\ n.at = "stored" /\ n.letter = s.letter /\ n.draft = d
       /\ n.draw = s.draw /\ n.loaded = s.loaded
  <2>1. "stored" \in Steps
    BY DEF Steps
  <2> QED BY <1>3, <1>n, <2>1, GoOnState
<1>11. /\ TypeInv' /\ QueueInv' /\ LetterInv' /\ AskInv'
       /\ task'[p] = n /\ \A q \in Handlers : q # p => task'[q] = task[q]
  <2>1. TaskInv(n)'
    <3>1. Has(d)'
      BY <1>7 DEF Has
    <3>2. PICK content : content = s.draw
      OBVIOUS
    <3>3. DrawInv(content)'
      BY <1>1, <1>9, <3>2, DrawStays DEF TaskInv
    <3> QED BY <1>10, <3>1, <3>2, <3>3 DEF TaskInv, DraftSteps, SeenSteps, Submits
  <2>2. task' = [task EXCEPT ![p] = n]
    BY <1>1, <1>2, <1>n DEF GoOn, Become
  <2> QED BY <1>1, <1>2, <1>7, <1>8, <1>9, <1>10, <1>t, <2>1, <2>2, InnerKeeps DEF TypeInv
<1>12. RowInv'
  <2>1. ASSUME NEW e \in Drafts
        PROVE  Matched(row'[e]) /\ (~crossed' => written'[e] \in {None, row'[e].letter})
    <3>1. CASE e = d
      BY <1>7, <1>8, <3>1
    <3>2. CASE e # d
      BY <1>7, <1>8, <1>t, <3>2 DEF RowInv
    <3> QED BY <3>1, <3>2
  <2>2. \A q \in Handlers : Matched(task'[q].loaded)
    BY <1>1, <1>10, <1>11, <1>t DEF RowInv
  <2> QED BY <2>1, <2>2 DEF RowInv, Matched
<1>13. PrepInv'
  <2> SUFFICES ASSUME ~crossed', NEW q \in Handlers, task'[q].at \in {"writing", "saving"}
               PROVE  /\ row'[task'[q].draft].letter \in {None, task'[q].letter}
                      /\ task'[q].at = "saving" =>
                           task'[q].loaded.letter = row'[task'[q].draft].letter
    BY DEF PrepInv
  <2>1. q # p /\ task'[q] = task[q] /\ task[q].draft \in Drafts /\ ~crossed
    BY <1>7, <1>10, <1>11, <1>t DEF LetterInv, TaskInv, DraftSteps
  <2>2. row'[task[q].draft] = row[task[q].draft]
    BY <1>7, <2>1
  <2> QED BY <1>t, <2>1, <2>2 DEF PrepInv
<1>14. TypingInv'
  <2>1. /\ s.letter \in Typed => Mentioned(s.letter)
        /\ \A q \in Handlers : q # p /\ task[q].at \in {"texting", "storing"} =>
              s.letter # task[q].letter
    BY <1>1, <1>t DEF TypingInv
  <2>2. \A e \in Drafts : row'[e].letter \in {row[e].letter, task[p].letter}
    BY <1>1, <1>7
  <2> QED BY <1>2, <1>10, <1>11, <1>t, <2>1, <2>2, TypingKept
<1> QED BY <1>11, <1>12, <1>13, <1>14 DEF Inv

-----------------------------------------------------------------------------
(* Drawing *)

\* The first in the queue leaves it.
LEMMA LeaveQueue ==
  ASSUME TypeInv, QueueInv, NEW p \in Handlers, NEW n \in TaskStates, n.at # "drawing",
         queue # <<>>, Head(queue) = p, queue' = Tail(queue), task' = [task EXCEPT ![p] = n]
  PROVE  /\ task[p].at = "drawing" /\ QueueInv' /\ queue' \in Seq(Handlers)
         /\ queue' # <<>> => queue'[Len(queue')] = queue[Len(queue)]
         /\ queue' = <<>> => queue[Len(queue)] = p
<1>1. /\ Len(queue) \in Nat \ {0} /\ DOMAIN queue = 1..Len(queue) /\ queue[1] = p
      /\ queue' \in Seq(Handlers) /\ Len(queue') = Len(queue) - 1
      /\ DOMAIN queue' = 1..(Len(queue) - 1)
      /\ \A i \in 1..(Len(queue) - 1) : queue'[i] = queue[i + 1]
  BY DEF TypeInv
<1>2. task[p].at = "drawing"
  BY <1>1 DEF QueueInv
<1>3. ASSUME NEW a \in DOMAIN queue', NEW b \in DOMAIN queue', queue'[a] = queue'[b]
      PROVE  a = b
  <2>1. queue[a + 1] = queue[b + 1] /\ a + 1 \in DOMAIN queue /\ b + 1 \in DOMAIN queue
    BY <1>1, <1>3
  <2>2. a + 1 = b + 1
    BY <2>1 DEF QueueInv, IsInjective
  <2> QED BY <1>1, <2>2
<1>4. \A i \in DOMAIN queue' : queue'[i] # p
  <2> SUFFICES ASSUME NEW i \in DOMAIN queue', queue'[i] = p PROVE FALSE
    OBVIOUS
  <2>1. queue[i + 1] = queue[1] /\ i + 1 \in DOMAIN queue /\ 1 \in DOMAIN queue /\ i \in Nat \ {0}
    BY <1>1
  <2>2. i + 1 = 1
    BY <2>1 DEF QueueInv, IsInjective
  <2> QED BY <2>1, <2>2
<1>5. ASSUME NEW q \in Handlers
      PROVE  (\E i \in DOMAIN queue' : queue'[i] = q) <=> task'[q].at = "drawing"
  <2>1. CASE q = p
    BY <1>4, <2>1 DEF TypeInv
  <2>2. CASE q # p
    <3>1. task'[q] = task[q]
      BY <2>2 DEF TypeInv
    <3>2. ASSUME NEW i \in DOMAIN queue, queue[i] = q
          PROVE  \E j \in DOMAIN queue' : queue'[j] = q
      <4>1. i - 1 \in DOMAIN queue' /\ queue'[i - 1] = queue[i]
        BY <1>1, <2>2, <3>2
      <4> QED BY <3>2, <4>1
    <3>3. ASSUME NEW j \in DOMAIN queue', queue'[j] = q
          PROVE  \E i \in DOMAIN queue : queue[i] = q
      <4>1. j + 1 \in DOMAIN queue /\ queue[j + 1] = q
        BY <1>1, <3>3
      <4> QED BY <4>1
    <3> QED BY <3>1, <3>2, <3>3 DEF QueueInv
  <2> QED BY <2>1, <2>2
<1>6. QueueInv'
  BY <1>3, <1>5 DEF QueueInv, IsInjective
<1>7. /\ queue' # <<>> => queue'[Len(queue')] = queue[Len(queue)]
      /\ queue' = <<>> => queue[Len(queue)] = p
  BY <1>1
<1> QED BY <1>1, <1>2, <1>6, <1>7

\* A page of which a draft's letter can be read is drawn: the user knows it.
LEMMA DrawnPage ==
  ASSUME LettersMove, NEW content, DrawInv(content),
         content.name = "preview" => content.letter \in known'[content.draft]
  PROVE  PageInv(content)'
<1>1. Offered(content)'
  BY DEF LettersMove, DrawInv, Offered
<1>2. Seen(content.draft) => Seen(content.draft)'
  BY DEF LettersMove, Seen, Has
<1>3. content.name = "preview" => Seen(content.draft)'
  BY DEF LettersMove, DrawInv, Readable, Seen, Has
<1> QED BY <1>1, <1>2, <1>3 DEF DrawInv, PageInv

LEMMA DrawnKeeps ==
  ASSUME Inv, NEW p \in Handlers, Shown(p) \/ NotShown(p)
  PROVE  Inv'
<1>t. TypeInv /\ QueueInv /\ LetterInv /\ RowInv /\ PrepInv /\ TypingInv /\ AskInv
  BY DEF Inv
<1>1. PICK s \in TaskStates : s = task[p] /\ TaskInv(s)
  BY TaskKnows
<1>2. /\ queue # <<>> /\ Head(queue) = p /\ queue' = Tail(queue)
      /\ UNCHANGED <<row, issued, spent, waiting, written, crossed, posted>>
      /\ operation' \in {operation, p, None}
      /\ task' = [task EXCEPT ![p] = IF s.then = "idle" THEN Idle
                                    ELSE [s EXCEPT !.at = s.then, !.draw = Page("card")]]
  BY <1>1 DEF Shown, NotShown, Drawn, Become
<1>3. s.at = "drawing"
  <2>1. 1 \in DOMAIN queue /\ queue[1] = p
    BY <1>2, <1>t DEF TypeInv
  <2> QED BY <1>1, <1>t, <2>1 DEF QueueInv
<1>4. PICK content \in Pages : content = s.draw /\ DrawInv(content)
  BY <1>1 DEF TaskInv, TaskStates
<1>5. \/ /\ page' = content /\ refused' = FALSE
         /\ known' = IF content.name = "preview"
                     THEN [known EXCEPT ![content.draft] = @ \cup {content.letter}]
                     ELSE known
      \/ page' = page /\ refused' = TRUE /\ known' = known
  BY <1>1, <1>4 DEF Shown, NotShown
<1>6. content.name = "preview" => content.draft \in Drafts /\ content.letter \in Letters
  BY <1>4 DEF DrawInv, Offered, Readable, Has, Pages
<1>7. /\ known' \in [Drafts -> SUBSET Letters]
      /\ \A d \in Drafts : known[d] \subseteq known'[d]
      /\ page' = content /\ content.name = "preview" => content.letter \in known'[content.draft]
         \/ page' = page
  <2>1. CASE content.name = "preview" /\ page' = content
    BY <1>5, <1>6, <1>t, <2>1 DEF TypeInv
  <2>2. CASE known' = known /\ content.name # "preview"
    BY <1>t, <2>2 DEF TypeInv
  <2>3. CASE known' = known /\ page' = page
    BY <1>t, <2>3 DEF TypeInv
  <2> QED BY <1>5, <2>1, <2>2, <2>3
<1>8. LettersMove
  BY <1>2, <1>7, <1>t DEF LettersMove, TypeInv
<1>n. PICK n : n = IF s.then = "idle" THEN Idle
                   ELSE [s EXCEPT !.at = s.then, !.draw = Page("card")]
  OBVIOUS
<1>9. /\ n \in TaskStates /\ n.draw = Page("card") /\ n.at = s.then
      /\ n.at \in {"idle", "finding", "leasing"}
      /\ \/ n = Idle
         \/ /\ n.draft = s.draft /\ n.letter = s.letter /\ n.loaded = s.loaded
            /\ n.token = s.token
  <2>1. s.then \in {"idle", "finding", "leasing"} /\ s.then \in Steps
    BY <1>1, <1>3 DEF TaskInv, TaskStates
  <2>2. CASE s.then = "idle"
    BY <1>n, <2>2, IdleType
  <2>3. CASE s.then # "idle"
    <3>1. Page("card") \in Pages
      BY PageType DEF Names
    <3>2. n = [s EXCEPT !.at = s.then, !.draw = Page("card")]
      BY <1>n, <2>3
    <3> QED BY <2>1, <3>1, <3>2 DEF TaskStates
  <2> QED BY <2>2, <2>3
<1>10. TaskInv(n)
  <2>1. CASE n = Idle
    BY <2>1, IdlePage, IdleType DEF TaskInv, DraftSteps, SeenSteps, Submits
  <2>2. CASE n # Idle
    BY <1>1, <1>3, <1>9, <2>2, IdlePage
       DEF TaskInv, DraftSteps, SeenSteps, Submits, Seen, Has
  <2> QED BY <2>1, <2>2
<1>11. /\ task' = [task EXCEPT ![p] = n] /\ task'[p] = n
       /\ \A q \in Handlers : q # p => task'[q] = task[q]
  BY <1>2, <1>n, <1>t DEF TypeInv
<1>12. /\ QueueInv' /\ queue' \in Seq(Handlers)
       /\ queue' # <<>> => queue'[Len(queue')] = queue[Len(queue)]
       /\ queue' = <<>> => queue[Len(queue)] = p
  BY <1>2, <1>9, <1>11, <1>t, LeaveQueue
<1>13. TypeInv'
  <2>1. task' \in [Handlers -> TaskStates]
    BY <1>9, <1>11, <1>t DEF TypeInv
  <2> QED BY <1>2, <1>5, <1>7, <1>12, <1>t, <2>1 DEF TypeInv
<1>14. LetterInv'
  <2>1. PageInv(page)'
    <3>1. PICK old : old = page
      OBVIOUS
    <3>2. PageInv(old)'
      BY <1>8, <1>t, <3>1, PageStays DEF LetterInv
    <3>3. page' = content => PageInv(content)'
      BY <1>4, <1>7, <1>8, <3>2, <3>1, DrawnPage
    <3> QED BY <1>5, <3>1, <3>2, <3>3
  <2>2. waiting' # None => Seen(waiting)'
    <3>1. PICK d : d = waiting
      OBVIOUS
    <3>2. d # None => Seen(d)
      BY <1>t, <3>1 DEF LetterInv
    <3>3. d # None => Seen(d)'
      BY <1>8, <3>2, SeenStays
    <3> QED BY <1>2, <3>1, <3>3
  <2>3. ASSUME NEW q \in Handlers PROVE TaskInv(task[q])'
    <3>1. PICK m : m = task'[q]
      OBVIOUS
    <3>2. TaskInv(m)
      <4>1. CASE q = p
        BY <1>10, <1>11, <3>1, <4>1
      <4>2. CASE q # p
        BY <1>11, <1>t, <3>1, <4>2 DEF LetterInv
      <4> QED BY <4>1, <4>2
    <3>3. TaskInv(m)'
      BY <1>8, <3>2, TaskStays
    <3> QED BY <3>1, <3>3
  <2>4. ASSUME NEW post \in posted' PROVE PostInv(post)'
    BY <1>2, <1>8, <1>t, PostStays DEF LetterInv
  <2> QED BY <2>1, <2>2, <2>3, <2>4 DEF LetterInv
<1>15. RowInv'
  BY <1>1, <1>2, <1>9, <1>11, <1>t, IdleType DEF RowInv, Matched
<1>16. PrepInv'
  BY <1>2, <1>9, <1>11, <1>t DEF PrepInv
<1>17. TypingInv'
  <2>1. ASSUME NEW letter, Mentioned(letter) PROVE \E d \in Drafts : letter \in known'[d]
    BY <1>7, <2>1 DEF Mentioned
  <2>2. \A d \in Drafts : row'[d].letter \in Typed =>
          \E e \in Drafts : row'[d].letter \in known'[e]
    BY <1>2, <1>t, <2>1 DEF TypingInv
  <2>3. \A q \in Handlers : /\ task'[q].letter \in {task[q].letter, None}
                            /\ task'[q].at \in {"texting", "storing"} => task'[q] = task[q]
    BY <1>1, <1>9, <1>11, IdleType
  <2>4. \A q \in Handlers : task'[q].letter \in Typed =>
          \E e \in Drafts : task'[q].letter \in known'[e]
    BY <1>t, <2>1, <2>3, NoneIsNot DEF TypingInv
  <2>5. ASSUME NEW q \in Handlers, task'[q].at \in {"texting", "storing"}
        PROVE  /\ task'[q].letter \in Typed \cap known'[task'[q].draft]
               /\ \A d \in Drafts : row'[d].letter # task'[q].letter
               /\ \A r \in Handlers \ {q} : task'[r].letter # task'[q].letter
               /\ task'[q].at = "storing" => task'[q].loaded.letter # task'[q].letter
    <3>1. task'[q] = task[q] /\ task[q].draft \in Drafts
      BY <1>t, <2>3, <2>5 DEF LetterInv, TaskInv, SeenSteps, Seen, Has
    <3>2. /\ task[q].letter \in Typed \cap known[task[q].draft]
          /\ \A d \in Drafts : row[d].letter # task[q].letter
          /\ \A r \in Handlers \ {q} : task[r].letter # task[q].letter
          /\ task[q].at = "storing" => task[q].loaded.letter # task[q].letter
      BY <1>t, <2>5, <3>1 DEF TypingInv
    <3>3. \A r \in Handlers \ {q} : task'[r].letter # task'[q].letter
      BY <2>3, <3>1, <3>2, NoneIsNot
    <3> QED BY <1>2, <1>7, <3>1, <3>2, <3>3
  <2> QED BY <2>2, <2>4, <2>5 DEF TypingInv, Mentioned
<1>18. AskInv'
  <2> SUFFICES ASSUME queue' = <<>> => ~refused', Tip'.name = "edit"
               PROVE  waiting' = Tip'.draft \/ Clearing'
    BY DEF AskInv
  <2>1. Page("card").name # "edit"
    BY PageType DEF Names
  <2>2. Tip' = Tip
    <3>1. CASE queue' = <<>>
      <4>1. Tip' = page' /\ page' = content
        BY <1>5, <3>1 DEF Tip
      <4>2. Tip = content
        BY <1>1, <1>2, <1>4, <1>12, <3>1 DEF Tip
      <4> QED BY <4>1, <4>2
    <3>2. CASE queue' # <<>>
      <4>1. PICK q \in Handlers : q = queue[Len(queue)]
        BY <1>2, <1>t DEF TypeInv
      <4>2. Tip = task[q].draw /\ Tip' = task'[q].draw
        BY <1>2, <1>12, <3>2, <4>1 DEF Tip
      <4>3. q # p
        BY <1>9, <1>11, <2>1, <4>2
      <4> QED BY <1>11, <4>2, <4>3
    <3> QED BY <3>1, <3>2
  <2>3. waiting = Tip.draft \/ Clearing
    BY <1>2, <1>t, <2>2 DEF AskInv
  <2>4. Clearing => Clearing'
    BY <1>1, <1>3, <1>11 DEF Clearing
  <2> QED BY <1>2, <2>2, <2>3, <2>4
<1> QED BY <1>12, <1>13, <1>14, <1>15, <1>16, <1>17, <1>18 DEF Inv

-----------------------------------------------------------------------------
(* The theorems *)

LEMMA InitInv == Init => Inv
<1> SUFFICES ASSUME Init PROVE Inv
  OBVIOUS
<1>1. /\ "card" \in Names /\ Page("card").draft = None /\ Page("card").name = "card"
      /\ Page("card") \in Pages
  BY PageType DEF Names
<1>2. TypeInv
  <2>1. [api |-> "absent", letter |-> None] \in Rows
    BY DEF Rows
  <2>2. /\ row \in [Drafts -> Rows] /\ task \in [Handlers -> TaskStates]
        /\ known \in [Drafts -> SUBSET Letters]
        /\ written \in [Drafts -> Typed \cup {None}]
    BY <2>1, IdleType DEF Init
  <2>3. issued \in 0..MaxTokens /\ spent \subseteq 1..issued
    BY CoverLetterAssumption DEF Init
  <2>4. queue \in Seq(Handlers)
    BY DEF Init
  <2> QED BY <1>1, <2>2, <2>3, <2>4 DEF Init, TypeInv
<1>3. QueueInv
  BY IdleType DEF Init, QueueInv, IsInjective
<1>4. LetterInv
  <2>1. PageInv(Page("card"))
    BY <1>1 DEF PageInv, Offered
  <2>2. TaskInv(Idle)
    BY IdlePage, IdleType DEF TaskInv, DraftSteps, SeenSteps, Submits
  <2> QED BY <2>1, <2>2 DEF Init, LetterInv
<1>5. RowInv
  BY IdleType DEF Init, RowInv, Matched
<1>6. PrepInv /\ TypingInv
  BY IdleType, NoneIsNot DEF Init, PrepInv, TypingInv
<1>7. AskInv
  BY <1>1 DEF Init, AskInv, Tip
<1> QED BY <1>2, <1>3, <1>4, <1>5, <1>6, <1>7 DEF Inv

LEMMA NextInv == Inv /\ Next => Inv'
<1> SUFFICES ASSUME Inv, NEW p \in Handlers, User(p) \/ Handle(p) PROVE Inv'
  BY DEF Next
<1>1. CASE User(p)
  BY <1>1, TapKeeps, CommandKeeps, TextKeeps DEF User
<1>2. CASE Prepare(p)
  BY <1>2, BeginPreparationKeeps, ChooseKeeps, FindLetterKeeps, PreparationFailsKeeps,
     LoadDraftKeeps, SaveDraftKeeps, PreparedKeeps DEF Prepare
<1>3. CASE Submit(p)
  BY <1>3, BeginSubmissionKeeps, LeaseKeeps, ReadLetterKeeps, PostKeeps, RecordKeeps DEF Submit
<1> QED BY <1>1, <1>2, <1>3, DrawnKeeps, LeaveKeeps, DrawCardKeeps, DraftButtonKeeps,
           DraftUnavailableKeeps, ConfirmKeeps, LoadLetterKeeps, StoreLetterKeeps,
           ShowLetterKeeps DEF Handle

LEMMA SpecInv == Spec => []Inv
<1>1. Inv /\ UNCHANGED vars => Inv'
  BY DEF vars, Inv, TypeInv, QueueInv, LetterInv, PageInv, Offered, Seen, Has, TaskInv,
         DrawInv, Readable, Submits, PostInv, RowInv, Matched, PrepInv, TypingInv, Mentioned,
         AskInv, Tip, Clearing
<1> QED BY <1>1, InitInv, NextInv, PTL DEF Spec

\* The draft's row has a letter as soon as it exists, confirmations are counted,
\* and exactly those who wait to draw are in the queue, once.
THEOREM LetterTypes == Spec => []TypeOK
<1>1. Inv => TypeOK
  BY DEF Inv, TypeInv, QueueInv, RowInv, Matched, TypeOK, TaskStates
<1> QED BY <1>1, SpecInv, PTL

\* What HeadHunter is sent is a letter that the user typed for this draft or was
\* shown in its preview, and the last one he had stored, unless two tasks stored
\* letters across each other.
THEOREM PostedLetter == Spec => []PostedLetterIsTheUsers
<1>1. Inv => PostedLetterIsTheUsers
  BY DEF Inv, LetterInv, PostInv, PostedLetterIsTheUsers
<1> QED BY <1>1, SpecInv, PTL

\* When nothing runs and the page that asks for a letter is the last one that was
\* drawn, the next text is taken for the letter of its draft.
THEOREM EditPage == Spec => []EditPageAsks
<1>1. Inv => EditPageAsks
  <2> SUFFICES ASSUME Inv, Quiet, ~refused, page.name = "edit" PROVE waiting = page.draft
    BY DEF EditPageAsks
  <2>1. queue = <<>>
    <3> SUFFICES ASSUME queue # <<>> PROVE FALSE
      OBVIOUS
    <3>1. PICK p \in Handlers : p = queue[1] /\ 1 \in DOMAIN queue
      BY DEF Inv, TypeInv
    <3>2. task[p].at = "drawing"
      BY <3>1 DEF Inv, QueueInv
    <3> QED BY <3>2 DEF Quiet
  <2>2. ~Clearing
    BY DEF Clearing, Quiet
  <2> QED BY <2>1, <2>2 DEF Inv, AskInv, Tip
<1> QED BY <1>1, SpecInv, PTL
=============================================================================
