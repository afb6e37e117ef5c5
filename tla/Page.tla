-------------------------------- MODULE Page --------------------------------
(***************************************************************************)
(* One user's browser in front of the console: the page with the form for  *)
(* new tasks ("index") and the page with the list of tasks and the form    *)
(* that edits one ("list"), as main.js drives them.  The console behind    *)
(* them is TaskService; other users' requests arrive there as well.        *)
(*                                                                         *)
(* A task's Info is its list of servers here.  Left out: the comment and   *)
(* the log flag, which are read from the form when it is submitted, the    *)
(* texts of answers, the buttons that deploy, which change no page, and    *)
(* the fading of a popover (Tooltip).                                      *)
(***************************************************************************)
EXTENDS TaskService, Sequences

CONSTANTS
    Blank,          \* a field with no list of ip:port, empty or malformed
    Entered,        \* what the user types into it
    NoRow,
    MaxAsked        \* bound: questions whether to delete a task at a time

ASSUME PageAssumption == Blank \notin Info /\ NoRow \notin Row

VARIABLES
    view,           \* "index" or "list"
    loaded, shown,  \* the rows of the list when it was loaded, those left
    visible,        \* the parts of the page that are not hidden
    leaving,        \* those of them that are being slid up
    typed,          \* the field server-list
    previewed,      \* the hidden field serversToSubmit
    previewedFor,   \* the row that was edited when the preview was made
    editing,        \* the row whose id the hidden field idToEdit holds
    popover,        \* the row that has a popover in the document
    tipIn,          \* rows whose Popover object has a tip of class "in"
    slideDue,       \* the popover is being slid up
    asked,          \* rows in the queue of alertify.confirm
    reloadDue,      \* window.location will be set by a timer
    caller,         \* the page's callback for each handler's answer
    foreign,        \* history: the list was changed, since it was loaded, by
                    \* requests that this page did not send
    hasty           \* history: since the page was loaded the form was used
                    \* while it slid away, or a row edited beside an open form

slideVars == <<visible, leaving>>
formVars == <<slideVars, typed, previewed, previewedFor, editing, hasty>>
rowVars == <<loaded, shown, popover, tipIn, slideDue, asked>>
serverVars == <<tasks, phase, req, ans, arrived>>
pageVars == <<vars, view, formVars, rowVars, reloadDue, caller, foreign>>

Part == {"preview", "submit", "step-back", "cancel", "preview-table",
         "edit-div", "listenlist-div", "to-specify-port", "business-block"}

Caller == [kind : {"apply", "edit", "delete"}, row : Row \cup {NoRow}]
Nobody == [kind |-> "none", row |-> NoRow]

-----------------------------------------------------------------------------
(* A page as the server delivers it. *)

FreshParts(v) ==
    IF v = "index" THEN {"preview", "business-block"}
    ELSE {"listenlist-div", "preview", "cancel"}

PageInit ==
    /\ Init
    /\ view = "index" /\ loaded = {} /\ shown = {}
    /\ visible = FreshParts("index") /\ leaving = {} /\ hasty = FALSE
    /\ typed = Blank /\ previewed = Blank
    /\ previewedFor = NoRow /\ editing = NoRow
    /\ popover = NoRow /\ tipIn = {} /\ slideDue = FALSE
    /\ asked = <<>> /\ reloadDue = FALSE
    /\ caller = [h \in Handler |-> Nobody] /\ foreign = FALSE

\* The old page's callbacks and timers are gone; requests under way are not.
Load(v) ==
    /\ view' = v
    /\ loaded' = IF v = "list" THEN tasks ELSE {}
    /\ shown' = loaded'
    /\ visible' = FreshParts(v) /\ leaving' = {} /\ hasty' = FALSE
    /\ typed' = Blank /\ previewed' = Blank
    /\ previewedFor' = NoRow /\ editing' = NoRow
    /\ popover' = NoRow /\ tipIn' = {} /\ slideDue' = FALSE
    /\ asked' = <<>> /\ reloadDue' = FALSE
    /\ caller' = [h \in Handler |-> Nobody] /\ foreign' = FALSE
    /\ UNCHANGED serverVars

Navigate == \E v \in {"index", "list"} : Load(v)

\* setTimeout("window.location.href='/listenlist'", 1500)
Reload == reloadDue /\ Load("list")

-----------------------------------------------------------------------------
(* Parts that slide up and down.  What is being slid up can still be seen  *)
(* and clicked; a slide that is asked for meanwhile waits for its end      *)
(* (Effects), so the last one asked for decides.                           *)

SlideUp(part) == leaving \cup ({part} \cap visible)

\* The last slide of a part was one up, and is over: 400 ms after it began.
SlideEnds(part) ==
    /\ part \in leaving
    /\ visible' = visible \ {part} /\ leaving' = leaving \ {part}
    /\ UNCHANGED <<serverVars, view, typed, previewed, previewedFor, editing,
                   hasty, rowVars, reloadDue, caller, foreign>>

-----------------------------------------------------------------------------
(* The form, of a new task on the one page and of an edited one on the     *)
(* other.  Buttons answer only when they can be seen.                      *)

Undisturbed == asked = <<>>     \* alertify's cover is not over the page

FormOpen == Undisturbed /\ (view = "list" => "edit-div" \in visible)

Clickable(part) == FormOpen /\ part \in visible

\* What clicking "step-back" or "edit-step-back" does, hidden or not.
StepsBack ==
    /\ visible' = (visible \ {"submit", "step-back"})
          \cup IF view = "index" THEN {"preview"} ELSE {"preview", "cancel"}
    /\ leaving' = SlideUp("preview-table")

\* A key steps back from the preview before the text changes; text pasted or
\* dragged with the mouse does not.
Type ==
    /\ FormOpen
    /\ typed' \in Entered \cup {Blank}
    /\ StepsBack \/ UNCHANGED slideVars
    /\ UNCHANGED <<serverVars, view, previewed, previewedFor, editing, hasty,
                   rowVars, reloadDue, caller, foreign>>

\* Mutant: the button that cancels an edit stays.
Preview_KeepsCancel ==
    /\ Clickable("preview")
    /\ typed \in Info
    /\ visible' = (visible \ {"preview"})
                      \cup {"submit", "step-back", "preview-table"}
    /\ leaving' = leaving \ {"preview-table"}
    /\ previewed' = typed /\ previewedFor' = editing
    /\ hasty' = (hasty \/ "edit-div" \in leaving)
    /\ UNCHANGED <<serverVars, view, typed, editing, rowVars, reloadDue,
                   caller, foreign>>

\* A blank or malformed list only displays a tip.
Preview ==
    /\ Clickable("preview")
    /\ typed \in Info
    /\ visible' = (visible \ {"preview", "cancel"})
                      \cup {"submit", "step-back", "preview-table"}
    /\ leaving' = leaving \ {"preview-table"}
    /\ previewed' = typed /\ previewedFor' = editing
    /\ hasty' = (hasty \/ "edit-div" \in leaving)
    /\ UNCHANGED <<serverVars, view, typed, editing, rowVars, reloadDue,
                   caller, foreign>>

StepBack ==
    /\ Clickable("step-back")
    /\ StepsBack
    /\ UNCHANGED <<serverVars, view, typed, previewed, previewedFor, editing,
                   hasty, rowVars, reloadDue, caller, foreign>>

\* Choosing how the port is assigned.
ChangeMethod ==
    /\ view = "index" /\ Undisturbed
    /\ \E on \in {"to-specify-port", "business-block"} :
          visible' = (visible \ {"to-specify-port", "business-block"}) \cup {on}
    /\ UNCHANGED <<serverVars, view, leaving, typed, previewed, previewedFor,
                   editing, hasty, rowVars, reloadDue, caller, foreign>>

-----------------------------------------------------------------------------
(* Requests.  The page waits for no answer: it may send the next at once.  *)
(* One that never reaches the console leaves no trace, on the page either. *)

Ask(r, c) ==
    \/ \E h \in Handler :
          /\ Arrive(h) /\ req'[h] = r
          /\ caller' = [caller EXCEPT ![h] = c]
    \/ UNCHANGED <<serverVars, caller>>

SubmitNew ==
    /\ view = "index" /\ Clickable("submit")
    /\ \E r \in Requests :
          /\ r.op = IF "to-specify-port" \in visible THEN "port" ELSE "auto"
          /\ r.info = previewed
          /\ Ask(r, [kind |-> "apply", row |-> NoRow])
    /\ UNCHANGED <<view, formVars, rowVars, reloadDue, foreign>>

SubmitEdit ==
    /\ view = "list" /\ Clickable("submit")
    /\ Ask([op |-> "edit", id |-> editing.id, info |-> previewed],
           [kind |-> "edit", row |-> editing])
    /\ UNCHANGED <<view, formVars, rowVars, reloadDue, foreign>>

-----------------------------------------------------------------------------
(* The rows of the list, their popovers and the question before a delete.  *)

ListOpen == view = "list" /\ Undisturbed /\ "listenlist-div" \in visible

\* Every popover is removed from the document, but the Popover object of its
\* row still takes it for shown: the next click on that row only hides it.
ClickDate(r) ==
    /\ ListOpen /\ r \in shown
    /\ IF r \in tipIn
       THEN /\ tipIn' = tipIn \ {r}
            /\ popover' = NoRow
       ELSE /\ tipIn' = tipIn \cup {r}
            /\ popover' = r
    /\ UNCHANGED <<serverVars, view, formVars, loaded, shown, slideDue, asked,
                   reloadDue, caller, foreign>>

\* The button is there, and may have the focus, until the popover has slid up.
ClickDelete ==
    /\ view = "list" /\ "listenlist-div" \in visible
    /\ popover # NoRow /\ Len(asked) < MaxAsked
    /\ asked' = Append(asked, popover)
    /\ slideDue' = TRUE
    /\ UNCHANGED <<serverVars, view, formVars, loaded, shown, popover, tipIn,
                   reloadDue, caller, foreign>>

PopoverSlid ==
    /\ slideDue
    /\ slideDue' = FALSE /\ popover' = NoRow
    /\ UNCHANGED <<serverVars, view, formVars, loaded, shown, tipIn, asked, reloadDue, caller, foreign>>

\* Mutant: the position in the list is sent in place of the id.
TargetId_Position(r) == Cardinality({s \in loaded : s.vport < r.vport})

\* The cell of class id beside the popover.
TargetId(r) == r.id

\* Mutant: the row goes without waiting for the answer.
ConfirmYes_Removes ==
    /\ asked # <<>>
    /\ Ask([op |-> "delete", id |-> TargetId(Head(asked))],
           [kind |-> "delete", row |-> Head(asked)])
    /\ asked' = Tail(asked)
    /\ shown' = shown \ {Head(asked)}
    /\ UNCHANGED <<view, formVars, loaded, popover, tipIn, slideDue, reloadDue, foreign>>

ConfirmYes ==
    /\ asked # <<>>
    /\ Ask([op |-> "delete", id |-> TargetId(Head(asked))],
           [kind |-> "delete", row |-> Head(asked)])
    /\ asked' = Tail(asked)
    /\ UNCHANGED <<view, formVars, loaded, shown, popover, tipIn, slideDue, reloadDue, foreign>>

ConfirmNo ==
    /\ asked # <<>>
    /\ asked' = Tail(asked)
    /\ UNCHANGED <<serverVars, view, formVars, loaded, shown, popover, tipIn,
                   slideDue, reloadDue, caller, foreign>>

ClickEdit ==
    /\ ListOpen /\ popover # NoRow
    /\ editing' = popover
    /\ typed' = popover.info
    /\ visible' = visible \cup {"edit-div"}
    /\ leaving' = SlideUp("listenlist-div") \ {"edit-div"}
    /\ hasty' = (hasty \/ "edit-div" \in visible)
    /\ UNCHANGED <<serverVars, view, previewed, previewedFor, rowVars,
                   reloadDue, caller, foreign>>

Cancel ==
    /\ view = "list" /\ Clickable("cancel")
    /\ visible' = visible \cup {"listenlist-div"}
    /\ leaving' = SlideUp("edit-div") \ {"listenlist-div"}
    /\ UNCHANGED <<serverVars, view, typed, previewed, previewedFor, editing,
                   hasty, rowVars, reloadDue, caller, foreign>>

-----------------------------------------------------------------------------
(* The console at work, and the answers. *)

OthersAsk(h) ==
    /\ Arrive(h)
    /\ UNCHANGED <<view, formVars, rowVars, reloadDue, caller, foreign>>

ConsoleExecutes(h) ==
    /\ Execute(h)
    /\ foreign' = (foreign \/ (caller[h] = Nobody /\ tasks' # tasks))
    /\ UNCHANGED <<view, formVars, rowVars, reloadDue, caller>>

\* "step-back" is not hidden, nor "cancel" shown again.
AnsweredForm ==
    /\ visible' = (visible \ {"submit"}) \cup {"preview"}
    /\ leaving' = SlideUp("preview-table")

\* Whatever the form shows by now, the answer folds it up, and a port that was
\* assigned empties its fields.
ApplyDone(h) ==
    /\ caller[h].kind = "apply"
    /\ AnsweredForm
    /\ typed' = IF ans[h].status = "assigned" THEN Blank ELSE typed
    /\ UNCHANGED <<shown, reloadDue>>

EditDone(h) ==
    /\ caller[h].kind = "edit"
    /\ AnsweredForm
    /\ reloadDue' = TRUE
    /\ UNCHANGED <<shown, typed>>

DeleteDone(h) ==
    /\ caller[h].kind = "delete"
    /\ shown' = shown \ {caller[h].row}
    /\ UNCHANGED <<slideVars, typed, reloadDue>>

\* Of another user, or lost on the way back: no callback handles failures.
NotForThisPage == UNCHANGED <<shown, slideVars, typed, reloadDue>>

Answered(h) ==
    /\ Send(h)
    /\ caller' = [caller EXCEPT ![h] = Nobody]
    /\ ApplyDone(h) \/ EditDone(h) \/ DeleteDone(h) \/ NotForThisPage
    /\ UNCHANGED <<view, previewed, previewedFor, editing, hasty, loaded, popover,
                   tipIn, slideDue, asked, foreign>>

PageNext ==
    \/ Navigate \/ Reload \/ \E part \in leaving : SlideEnds(part)
    \/ Type \/ Preview \/ StepBack \/ ChangeMethod \/ SubmitNew \/ SubmitEdit
    \/ \E r \in loaded : ClickDate(r)
    \/ ClickDelete \/ PopoverSlid \/ ConfirmYes \/ ConfirmNo
    \/ ClickEdit \/ Cancel
    \/ \E h \in Handler : OthersAsk(h) \/ ConsoleExecutes(h) \/ Answered(h)

PageSpec == PageInit /\ [][PageNext]_pageVars

-----------------------------------------------------------------------------
\* The servers that a submission would send can be seen, and were previewed for
\* the very task whose id goes with them, although both wait in hidden fields that
\* separate clicks fill in, parts of the page slide in and out meanwhile, and
\* answers to earlier submissions fold the form up.  Not so for a user who has
\* previewed in the form while it slid away, or edited a row of the list while
\* the form was open: the task may be another one then (README).
SubmitGoesToEditedTask ==
    "submit" \in visible =>
        /\ previewed # Blank /\ "preview-table" \in visible \ leaving
        /\ ~hasty => previewedFor = editing

\* A request of the page changes or deletes no other task than the one its user
\* saw in the row, as long as all that happened since the list was loaded was
\* done by that page: ids are given out again, so the id alone does not say so.
ActsOnShownTask ==
    [][\A h \in Handler :
        caller[h].kind \in {"edit", "delete"} /\ phase[h] = "pending"
                /\ phase'[h] = "done" /\ ~foreign
            => \A t \in tasks \ tasks' :
                  t.id = caller[h].row.id /\ t.vport = caller[h].row.vport]_pageVars

\* A row leaves the list only when the task it shows is gone from the store,
\* unless somebody else has used its id again.
RowGoesWithItsTask ==
    [][\A r \in shown \ shown' :
        loaded' = loaded /\ ~foreign => \A t \in tasks : t.id # r.id]_pageVars
=============================================================================
