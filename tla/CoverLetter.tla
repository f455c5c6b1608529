------------------------------- MODULE CoverLetter -------------------------------
(***************************************************************************)
(* The letter of an application: prepared, shown, edited, confirmed and    *)
(* posted by handlers that run at once.  The letter is a column of the     *)
(* draft, the page that shows it a Telegram message, and what the next     *)
(* text of the user means is the FSM state `waiting_for_text`: three       *)
(* things the handlers of app/bot/hh_applications.py change one after the  *)
(* other, with awaits between them.                                        *)
(*                                                                         *)
(* Also modelled from: prepare_application, get_preview,                   *)
(* update_cover_letter and create_confirmation of                          *)
(* app/services/hh_application.py, the repository methods they call, and   *)
(* the handlers of app/bot/callbacks.py and handlers.py that clear the FSM *)
(* state.  Leases, retries and recovery are those of HHApplication and     *)
(* single steps here; the menu and the cards of the collection are one     *)
(* page, "card".                                                           *)
(***************************************************************************)
EXTENDS Naturals, Sequences, FiniteSets, Functions

CONSTANTS
  Drafts,     \* applications: a vacancy with one resume each
  Generated,  \* letters CoverLetterService can write, each but once for a draft
  Typed,      \* letters the user can type, each but once
  Handlers,   \* tasks the dispatcher runs at once
  MaxTokens,  \* bound: confirmations
  None

Letters == Generated \cup Typed
Tokens == 1..MaxTokens

ASSUME CoverLetterAssumption ==
  /\ Generated \cap Typed = {}
  /\ None \notin Letters \cup Drafts \cup Handlers
  /\ MaxTokens \in Nat

VARIABLES
  row,        \* hh_applications: the status and the letter
  issued,     \* how many confirmations were created
  spent,      \* those with used_at
  waiting,    \* the FSM: the draft whose letter the next text is
  operation,  \* the task whose operation is the current one
  page,       \* what the bot's message shows
  queue,      \* tasks waiting to draw, in the order of the chat's lock
  refused,    \* Telegram refused every draw since the page was drawn
  known,      \* the letters the user typed or was shown, per draft
  written,    \* the last letter the user had stored, per draft
  crossed,    \* a letter was stored while another preparation was under way
  posted,     \* what HeadHunter was sent
  task

vars == <<row, issued, spent, waiting, operation, page, queue, refused, known, written,
          crossed, posted, task>>

Rows == [api : {"absent", "draft", "confirmed", "submitting", "submitted", "failed"},
         letter : Letters \cup {None}]

Names == {"card", "loading", "resume", "preview", "edit", "confirmation", "sending", "result"}

\* draft: the one the buttons are for; of a result, the one that can be retried.
Pages == [name : Names, draft : Drafts \cup {None}, letter : Letters \cup {None},
          token : 0..MaxTokens]

Page(name) == [name |-> name, draft |-> None, letter |-> None, token |-> 0]
PageOf(name, d) == [Page(name) EXCEPT !.draft = d]
Preview(d, letter) == [PageOf("preview", d) EXCEPT !.letter = letter]

\* due: the last letter the user had stored when a submission read its letter.
Steps == {"idle", "answered", "leaving", "confirming", "choosing", "drawing",
          "finding", "writing", "saving", "saved",
          "texting", "storing", "stored",
          "leasing", "leased", "posting", "recording"}

Idle == [at |-> "idle", action |-> "none", draft |-> None, letter |-> None,
         loaded |-> [api |-> "absent", letter |-> None], token |-> 0,
         draw |-> Page("card"), then |-> "idle", due |-> None]

Become(p, state) == task' = [task EXCEPT ![p] = state]
GoOn(p, step) == Become(p, [task[p] EXCEPT !.at = step])

\* Wait for the chat's lock, to draw a page and go on with a step.
Draw(p, t, content, then) ==
  /\ queue' = Append(queue, p)
  /\ Become(p, [t EXCEPT !.at = "drawing", !.draw = content, !.then = then])

\* The last page of a handler.
Finish(p, content) == Draw(p, [Idle EXCEPT !.action = task[p].action], content, "idle")

\* operation_is_current.
OperationIsCurrent(p) == operation = p

\* The last page of a long operation, if it is still the current one.
FinishOperation(p, content) ==
  IF OperationIsCurrent(p) THEN Finish(p, content) ELSE Become(p, Idle) /\ UNCHANGED queue

\* Columns that differ from the loaded ones.
Flush(current, loaded, new) ==
  [api |-> IF new.api = loaded.api THEN current.api ELSE new.api,
   letter |-> IF new.letter = loaded.letter THEN current.letter ELSE new.letter]

\* Preparations of d that have read its letter and not stored one yet.
Preparing(d) ==
  {p \in Handlers : task[p].draft = d /\ task[p].at \in {"writing", "saving"}}

\* p stores its letter in the draft it loaded.
Store(p) ==
  LET d == task[p].draft
      new == [api |-> "draft", letter |-> task[p].letter]
  IN /\ row' = [row EXCEPT ![d] = Flush(@, task[p].loaded, new)]
     /\ crossed' = (crossed \/ Preparing(d) \ {p} # {})

-----------------------------------------------------------------------------
(* What the user does *)

\* The buttons of a page: an action and the draft it is for.
Buttons(content) ==
  CASE content.name = "card" -> {"prepare"} \X Drafts
    [] content.name = "resume" -> {"choose"} \X Drafts \cup {<<"leave", None>>}
    [] content.name = "preview" ->
         {"confirm", "edit", "resume", "cancel", "leave"} \X {content.draft}
    [] content.name = "edit" -> {"back", "leave"} \X {content.draft}
    [] content.name = "confirmation" -> {"submit", "back", "cancel"} \X {content.draft}
    [] content.name = "result" ->
         ({"confirm"} \X ({content.draft} \ {None})) \cup {<<"leave", None>>}
    [] content.name = "loading" -> {<<"leave", None>>}
    [] OTHER -> {}

\* A button: screen_callback cancels the operation at once, and
\* active_submissions refuses a token that is being submitted.
Tap(p) ==
  /\ task[p].at = "idle"
  /\ \E b \in Buttons(page) :
       LET t == IF b[1] = "submit" THEN page.token ELSE 0
       IN /\ t # 0 => \A q \in Handlers : task[q].token # t
          /\ Become(p, [Idle EXCEPT !.at = "answered", !.action = b[1], !.draft = b[2],
                                    !.token = t])
          /\ operation' = IF b[1] = "leave" THEN None ELSE operation
  /\ UNCHANGED <<row, issued, spent, waiting, page, queue, refused, known, written, crossed,
                 posted>>

\* /start, another command, or a text nobody waits for.
Command(p) ==
  /\ task[p].at = "idle"
  /\ operation' = None
  /\ waiting' = None
  /\ Become(p, [Idle EXCEPT !.at = "leaving", !.action = "leave"])
  /\ UNCHANGED <<row, issued, spent, page, queue, refused, known, written, crossed, posted>>

\* cover_letter_edit: a text while the state is set; a blank one, or a message
\* without text, brings back the page that asks for it.
Text(p) ==
  /\ task[p].at = "idle"
  /\ waiting # None
  /\ \/ \E letter \in Typed \ UNION {known[d] : d \in Drafts} :
          /\ known' = [known EXCEPT ![waiting] = @ \cup {letter}]
          /\ Become(p, [Idle EXCEPT !.at = "texting", !.action = "text", !.draft = waiting,
                                    !.letter = letter])
          /\ UNCHANGED queue
     \/ /\ Draw(p, [Idle EXCEPT !.action = "text"], PageOf("edit", waiting), "idle")
        /\ UNCHANGED known
  /\ UNCHANGED <<row, issued, spent, waiting, operation, page, refused, written, crossed, posted>>

-----------------------------------------------------------------------------
(* Drawing *)

\* The task goes on; prepare_callback starts its operation only now.
Drawn(p) ==
  LET then == task[p].then
  IN /\ queue' = Tail(queue)
     /\ operation' = IF then = "finding" /\ task[p].action = "prepare" THEN p
                     ELSE IF then = "idle" /\ operation = p THEN None ELSE operation
     /\ Become(p, IF then = "idle" THEN Idle
                  ELSE [task[p] EXCEPT !.at = then, !.draw = Page("card")])
     /\ UNCHANGED <<row, issued, spent, waiting, written, crossed, posted>>

Shown(p) ==
  LET content == task[p].draw
  IN /\ queue # <<>> /\ Head(queue) = p
     /\ page' = content
     /\ refused' = FALSE
     /\ known' = IF content.name = "preview"
                 THEN [known EXCEPT ![content.draft] = @ \cup {content.letter}]
                 ELSE known
     /\ Drawn(p)

NotShown(p) ==
  /\ queue # <<>> /\ Head(queue) = p
  /\ refused' = TRUE
  /\ UNCHANGED <<page, known>>
  /\ Drawn(p)

-----------------------------------------------------------------------------
(* The buttons of a draft: draft_callback *)

\* screen_callback and cancel clear the state, and read the card to draw.
Clear(p) == waiting' = None /\ GoOn(p, "leaving") /\ UNCHANGED queue

Leave(p) ==
  /\ task[p].at = "answered" /\ task[p].action = "leave"
  /\ Clear(p)
  /\ UNCHANGED <<row, issued, spent, operation, page, refused, known, written, crossed, posted>>

DrawCard(p) ==
  /\ task[p].at = "leaving"
  /\ Finish(p, Page("card"))
  /\ UNCHANGED <<row, issued, spent, waiting, operation, page, refused, known, written, crossed,
                 posted>>

\* The state is set and the page asked for without an await between them.
AskForLetter(p, d) ==
  waiting' = d /\ Finish(p, PageOf("edit", d))

\* get_preview returned; every button but edit clears the state.
DraftButton(p) ==
  LET d == task[p].draft
  IN /\ task[p].at = "answered"
     /\ CASE task[p].action = "edit" -> AskForLetter(p, d)
         [] task[p].action = "cancel" -> Clear(p)
         [] task[p].action = "back" ->
              waiting' = None /\ Finish(p, Preview(d, row[d].letter))
         [] task[p].action = "resume" -> waiting' = None /\ Finish(p, Page("resume"))
         [] task[p].action = "confirm" ->
              waiting' = None /\ GoOn(p, "confirming") /\ UNCHANGED queue
         [] OTHER -> FALSE
     /\ UNCHANGED <<row, issued, spent, operation, page, refused, known, written, crossed,
                    posted>>

\* The resume of the draft is gone: the state stays as it is.
DraftUnavailable(p) ==
  /\ task[p].at = "answered"
  /\ task[p].action \in {"edit", "cancel", "back", "resume", "confirm"}
  /\ Finish(p, Page("result"))
  /\ UNCHANGED <<row, issued, spent, waiting, operation, page, refused, known, written, crossed,
                 posted>>

\* create_confirmation and the page with its token.
Confirm(p) ==
  LET d == task[p].draft
  IN /\ task[p].at = "confirming"
     /\ IF row[d].api = "submitted"
        THEN Finish(p, Page("result")) /\ UNCHANGED <<row, issued>>
        ELSE /\ issued < MaxTokens
             /\ issued' = issued + 1
             /\ row' = [row EXCEPT ![d].api = "confirmed"]
             /\ Finish(p, [PageOf("confirmation", d) EXCEPT !.token = issued + 1])
     /\ UNCHANGED <<spent, waiting, operation, page, refused, known, written, crossed, posted>>

-----------------------------------------------------------------------------
(* Preparing: prepare_callback, resume_callback and prepare_application *)

\* prepare_callback draws first; resume_callback starts its operation and looks
\* the resume up.
BeginPreparation(p) ==
  /\ task[p].at = "answered"
  /\ \/ /\ task[p].action = "prepare"
        /\ Draw(p, task[p], Page("loading"), "finding")
        /\ UNCHANGED operation
     \/ /\ task[p].action = "choose"
        /\ operation' = p
        /\ GoOn(p, "choosing")
        /\ UNCHANGED queue
  /\ UNCHANGED <<row, issued, spent, waiting, page, refused, known, written, crossed, posted>>

\* get_owned_resume returned, perhaps with nothing.
Choose(p) ==
  /\ task[p].at = "choosing"
  /\ IF OperationIsCurrent(p)
     THEN Draw(p, task[p], Page("loading"), "finding") \/ Finish(p, Page("resume"))
     ELSE Become(p, Idle) /\ UNCHANGED queue
  /\ UNCHANGED <<row, issued, spent, waiting, operation, page, refused, known, written, crossed,
                 posted>>

\* Fault: the letter is written anew for every preparation.
AlwaysGenerated(p, d) == Generated

\* The letter the draft has, or a new one.
LettersFor(p, d) == IF row[d].letter = None THEN Generated ELSE {row[d].letter}

InUse(d) == known[d] \cup {row[d].letter}
              \cup {task[q].letter : q \in {h \in Handlers : task[h].draft = d}}

\* find_by_identity, and generate for a draft without a letter.
FindLetter(p) ==
  LET d == task[p].draft
  IN /\ task[p].at = "finding"
     /\ \E letter \in LettersFor(p, d) :
          /\ letter \in InUse(d) => letter = row[d].letter
          /\ Become(p, [task[p] EXCEPT !.at = "writing", !.letter = letter])
     /\ UNCHANGED <<row, issued, spent, waiting, operation, page, queue, refused, known, written,
                    crossed, posted>>

\* No account, no resume, no letter, or an application exists already.
PreparationFails(p) ==
  /\ task[p].at \in {"finding", "writing"}
  /\ FinishOperation(p, Page("result")) \/ FinishOperation(p, Page("resume"))
  /\ UNCHANGED <<row, issued, spent, waiting, operation, page, refused, known, written, crossed,
                 posted>>

\* save_draft's SELECT; a submitted row is returned as it is.
LoadDraft(p) ==
  LET r == row[task[p].draft]
  IN /\ task[p].at = "writing"
     /\ IF r.api = "submitted" THEN GoOn(p, "saved")
        ELSE Become(p, [task[p] EXCEPT !.at = "saving", !.loaded = r])
     /\ UNCHANGED <<row, issued, spent, waiting, operation, page, queue, refused, known, written,
                    crossed, posted>>

\* Its commit; an insert that comes second is rolled back.
SaveDraft(p) ==
  LET d == task[p].draft
  IN /\ task[p].at = "saving"
     /\ IF task[p].loaded.api = "absent" /\ row[d].api # "absent"
        THEN UNCHANGED <<row, crossed>>
        ELSE Store(p)
     /\ GoOn(p, "saved")
     /\ UNCHANGED <<issued, spent, waiting, operation, page, queue, refused, known, written,
                    posted>>

\* Fault: the state is cleared before the generation is compared.
PreparedAndCleared(p) ==
  LET d == task[p].draft
  IN /\ task[p].at = "saved"
     /\ waiting' = None
     /\ FinishOperation(p, Preview(d, row[d].letter))
     /\ UNCHANGED <<row, issued, spent, operation, page, refused, known, written, crossed,
                    posted>>

\* The draft is read again and its preview drawn.
Prepared(p) ==
  LET d == task[p].draft
  IN /\ task[p].at = "saved"
     /\ FinishOperation(p, Preview(d, row[d].letter))
     /\ UNCHANGED <<row, issued, spent, waiting, operation, page, refused, known, written,
                    crossed, posted>>

-----------------------------------------------------------------------------
(* The letter the user typed: update_cover_letter *)

LoadLetter(p) ==
  LET r == row[task[p].draft]
  IN /\ task[p].at = "texting"
     /\ \/ /\ r.api # "submitted"
           /\ Become(p, [task[p] EXCEPT !.at = "storing", !.loaded = r])
           /\ UNCHANGED <<waiting, queue>>
        \/ /\ r.api = "submitted"
           /\ waiting' = None
           /\ Finish(p, Page("result"))
     /\ UNCHANGED <<row, issued, spent, operation, page, refused, known, written, crossed,
                    posted>>

StoreLetter(p) ==
  /\ task[p].at = "storing"
  /\ Store(p)
  /\ written' = [written EXCEPT ![task[p].draft] = task[p].letter]
  /\ GoOn(p, "stored")
  /\ UNCHANGED <<issued, spent, waiting, operation, page, queue, refused, known, posted>>

\* get_preview returned: the state is cleared, whatever set it.
ShowLetter(p) ==
  LET d == task[p].draft
  IN /\ task[p].at = "stored"
     /\ waiting' = None
     /\ Finish(p, Preview(d, row[d].letter)) \/ Finish(p, Page("result"))
     /\ UNCHANGED <<row, issued, spent, operation, page, refused, known, written, crossed,
                    posted>>

-----------------------------------------------------------------------------
(* The second confirmation: final_confirmation_callback *)

BeginSubmission(p) ==
  /\ task[p].at = "answered" /\ task[p].action = "submit"
  /\ operation' = p
  /\ Draw(p, task[p], Page("sending"), "leasing")
  /\ UNCHANGED <<row, issued, spent, waiting, page, refused, known, written, crossed, posted>>

\* acquire_submission.
Lease(p) ==
  LET d == task[p].draft
      t == task[p].token
  IN /\ task[p].at = "leasing"
     /\ IF t \in spent \/ row[d].api \in {"submitted", "submitting"}
        THEN /\ spent' = spent \cup {t}
             /\ FinishOperation(p, Page("result"))
             /\ UNCHANGED row
        ELSE /\ spent' = spent \cup {t}
             /\ row' = [row EXCEPT ![d].api = "submitting"]
             /\ GoOn(p, "leased")
             /\ UNCHANGED queue
     /\ UNCHANGED <<issued, waiting, operation, page, refused, known, written, crossed, posted>>

\* The letter is read again after the lease's commit.
ReadLetter(p) ==
  /\ task[p].at = "leased"
  /\ Become(p, [task[p] EXCEPT !.at = "posting", !.letter = row[task[p].draft].letter,
                               !.due = written[task[p].draft]])
  /\ UNCHANGED <<row, issued, spent, waiting, operation, page, queue, refused, known, written,
                 crossed, posted>>

\* apply_to_vacancy, unless a check before it fails.
Post(p) ==
  LET d == task[p].draft
  IN /\ task[p].at = "posting"
     /\ GoOn(p, "recording")
     /\ \/ posted' = posted \cup {[draft |-> d, letter |-> task[p].letter, due |-> task[p].due]}
        \/ UNCHANGED posted
     /\ UNCHANGED <<row, issued, spent, waiting, operation, page, queue, refused, known, written,
                    crossed>>

\* Submitted, or failed and perhaps to be retried.
Record(p) ==
  LET d == task[p].draft
  IN /\ task[p].at = "recording"
     /\ \E r \in {<<"submitted", None>>, <<"failed", None>>, <<"failed", d>>} :
          /\ row' = [row EXCEPT ![d].api = r[1]]
          /\ FinishOperation(p, PageOf("result", r[2]))
     /\ UNCHANGED <<issued, spent, waiting, operation, page, refused, known, written, crossed,
                    posted>>

-----------------------------------------------------------------------------
Init ==
  /\ row = [d \in Drafts |-> [api |-> "absent", letter |-> None]]
  /\ issued = 0
  /\ spent = {}
  /\ waiting = None
  /\ operation = None
  /\ page = Page("card")
  /\ queue = <<>>
  /\ refused = FALSE
  /\ known = [d \in Drafts |-> {}]
  /\ written = [d \in Drafts |-> None]
  /\ crossed = FALSE
  /\ posted = {}
  /\ task = [p \in Handlers |-> Idle]

User(p) == Tap(p) \/ Command(p) \/ Text(p)

Prepare(p) ==
  \/ BeginPreparation(p) \/ Choose(p) \/ FindLetter(p) \/ PreparationFails(p)
  \/ LoadDraft(p) \/ SaveDraft(p) \/ Prepared(p)

Submit(p) == BeginSubmission(p) \/ Lease(p) \/ ReadLetter(p) \/ Post(p) \/ Record(p)

Handle(p) ==
  \/ Shown(p) \/ NotShown(p)
  \/ Leave(p) \/ DrawCard(p) \/ DraftButton(p) \/ DraftUnavailable(p) \/ Confirm(p)
  \/ Prepare(p)
  \/ LoadLetter(p) \/ StoreLetter(p) \/ ShowLetter(p)
  \/ Submit(p)

Next == \E p \in Handlers : User(p) \/ Handle(p)

Spec == Init /\ [][Next]_vars

-----------------------------------------------------------------------------
(* Properties *)

TypeOK ==
  /\ row \in [Drafts -> Rows]
  /\ \A d \in Drafts : row[d].api = "absent" <=> row[d].letter = None
  /\ issued \in 0..MaxTokens /\ spent \subseteq 1..issued
  /\ waiting \in Drafts \cup {None}
  /\ operation \in Handlers \cup {None}
  /\ page \in Pages /\ refused \in BOOLEAN /\ crossed \in BOOLEAN
  /\ queue \in Seq(Handlers) /\ IsInjective(queue)
  /\ \A p \in Handlers : (\E i \in DOMAIN queue : queue[i] = p) <=> task[p].at = "drawing"
  /\ known \in [Drafts -> SUBSET Letters]
  /\ written \in [Drafts -> Typed \cup {None}]
  /\ \A p \in Handlers :
       /\ task[p].at \in Steps /\ task[p].draw \in Pages
       /\ task[p].letter \in Letters \cup {None} /\ task[p].loaded \in Rows

\* The letter that is posted was typed by the user for this draft or shown to
\* him in its preview, and is the last one he had stored, if there is one, unless
\* two tasks stored letters across each other.
PostedLetterIsTheUsers ==
  ~crossed => \A post \in posted :
    post.letter \in known[post.draft] /\ post.due \in {None, post.letter}

Quiet == \A p \in Handlers : task[p].at = "idle"

\* When nothing runs and the page that asks for a letter is what was drawn last,
\* the next text is that letter.
EditPageAsks ==
  Quiet /\ ~refused /\ page.name = "edit" => waiting = page.draft

(* What a test says and the code does not always do *)

\* tests/test_hh_application.py:594: the edited letter, "which must not be
\* lost", is the one that is posted.
EditedLetterIsPosted ==
  \A post \in posted : post.due \in {None, post.letter}

\* The text of a user who is not asked for a letter is not taken for one.
OnlyEditPageAsks == Quiet /\ ~refused /\ waiting # None => page.name = "edit"
=============================================================================
