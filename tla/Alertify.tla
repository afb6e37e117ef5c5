------------------------------ MODULE Alertify ------------------------------
(***************************************************************************)
(* alertify.js: dialogs that wait in a queue for one element to show them, *)
(* and log messages that go away by a click, by a timer or by both.  The   *)
(* answer to a dialog hides it, sets up the next one in the same element   *)
(* and takes back its own listeners, from variables that hold the next     *)
(* dialog's buttons by then.                                               *)
(*                                                                         *)
(* Left out: messages, labels and css classes of the caller, the text that *)
(* a prompt returns, where the focus is, the order of the buttons, and     *)
(* browsers without listeners.                                             *)
(***************************************************************************)
EXTENDS Integers, FiniteSets, Sequences

CONSTANTS
    MaxDialogs,     \* bound: dialogs opened
    Message         \* log messages

VARIABLES
    supported,      \* transition.supported
    queue,          \* dialogs, [id, type]
    isopen,
    built,          \* the dialog whose elements the variables refer to
    clickable,      \* the buttons of that dialog have their listeners
    keyed,          \* dialogs whose function listens to the keyboard
    ends,           \* which functions wait for the end of a transition
    hidden,         \* the dialog's class: alertify-hidden, alertify-isHidden
    gone,
    given,          \* answers that reached a caller's function (not of the code)
    lost,           \* answers after which an error was thrown (not of the code)
    hasty,          \* a dialog was opened while one was fading (not of the code)
    message,        \* what each log message is at
    closing,        \* messages that transitionDone waits for
    timed,          \* messages whose timer is set
    logsHidden

dialogVars == <<supported, queue, isopen, built, clickable, keyed, ends, hidden,
                gone, given, lost, hasty>>
logVars == <<message, closing, timed, logsHidden>>
alertifyVars == <<dialogVars, logVars>>

Type == {"alert", "confirm", "prompt"}
NoDialog == [id |-> 0, type |-> "none"]
Dialog == [id : 1..MaxDialogs, type : Type]

HasCancel(d) == d.type \in {"confirm", "prompt"}
HasInput(d) == d.type = "prompt"

\* The first call makes the elements.
AlertifyInit ==
    /\ supported \in BOOLEAN
    /\ queue = <<>> /\ isopen = FALSE
    /\ built = NoDialog /\ clickable = FALSE /\ keyed = {} /\ ends = {}
    /\ hidden = TRUE /\ gone = FALSE
    /\ given = <<>> /\ lost = {} /\ hasty = FALSE
    /\ message = [m \in Message |-> "new"] /\ closing = {} /\ timed = {}
    /\ logsHidden = TRUE

-----------------------------------------------------------------------------
(* Dialogs *)

Opened == Len(given) + Cardinality(lost) + Len(queue)

\* setup() with its call of build() and addListeners().
Setup(d, fromQueue) ==
    /\ isopen' = TRUE /\ built' = d /\ clickable' = TRUE
    /\ hidden' = FALSE /\ gone' = FALSE
    /\ ends' = IF supported /\ ~fromQueue THEN ends \cup {"focus"} ELSE ends

\* alert(), confirm() or prompt()
Open ==
    /\ Opened < MaxDialogs
    /\ \E type \in Type :
          LET d == [id |-> Opened + 1, type |-> type]
          IN  /\ queue' = Append(queue, d)
              /\ hasty' = (hasty \/ "hide" \in ends)
              /\ IF isopen
                 THEN UNCHANGED <<isopen, built, clickable, keyed, ends, hidden, gone>>
                 ELSE /\ Setup(d, FALSE)
                      /\ keyed' = keyed \cup {d}
    /\ UNCHANGED <<supported, given, lost, logVars>>

\* hide() where another dialog waits.  In common() nothing is called on the
\* button and the form that this dialog has and the next one has not.
HideForNext(d, yes) ==
    LET next == queue[2]
        fails == \/ HasInput(d) /\ ~HasInput(next)
                 \/ HasCancel(d) /\ ~HasCancel(next)
    IN  /\ Setup(next, TRUE)
        /\ keyed' = (keyed \ {d}) \cup {next}
        /\ IF fails
           THEN lost' = lost \cup {d} /\ UNCHANGED given
           ELSE given' = Append(given, [to |-> d, yes |-> yes]) /\ UNCHANGED lost

\* Mutant: the listener for the keyboard stays.
HideLast_KeepsKeys(d, yes) ==
    /\ isopen' = FALSE /\ clickable' = FALSE
    /\ UNCHANGED <<built, lost, keyed>>
    /\ hidden' = TRUE /\ gone' = ~supported
    /\ ends' = IF supported THEN ends \cup {"hide"} ELSE ends
    /\ given' = Append(given, [to |-> d, yes |-> yes])

HideLast(d, yes) ==
    /\ isopen' = FALSE /\ clickable' = FALSE /\ keyed' = keyed \ {d}
    /\ UNCHANGED <<built, lost>>
    /\ hidden' = TRUE /\ gone' = ~supported
    /\ ends' = IF supported THEN ends \cup {"hide"} ELSE ends
    /\ given' = Append(given, [to |-> d, yes |-> yes])

\* Mutant: what was opened last leaves the queue.
Answer_RemovesLast(d, yes) ==
    /\ queue' = SubSeq(queue, 1, Len(queue) - 1)
    /\ IF Len(queue) > 1 THEN HideForNext(d, yes) ELSE HideLast(d, yes)
    /\ UNCHANGED <<supported, hasty, logVars>>

\* ok() or cancel() of d, which removes whatever is first in the queue.
Answer(d, yes) ==
    /\ queue' = Tail(queue)
    /\ IF Len(queue) > 1 THEN HideForNext(d, yes) ELSE HideLast(d, yes)
    /\ UNCHANGED <<supported, hasty, logVars>>

\* A click; to submit the form of a prompt clicks its button.
Click ==
    /\ clickable /\ ~hidden /\ ~gone
    /\ \E yes \in BOOLEAN : (yes \/ HasCancel(built)) /\ Answer(built, yes)

\* The space bar and the escape key.
Key ==
    \E d \in keyed :
        \/ ~HasInput(d) /\ Answer(d, TRUE)
        \/ HasCancel(d) /\ Answer(d, FALSE)

\* Every function that waits for it is called, and unbinds itself.  The end of
\* a transition of an element inside, a button say, bubbles up as well.
TransitionEnd ==
    /\ ends # {} /\ ~gone
    /\ gone' = ("hide" \in ends)
    /\ ends' = {}
    /\ UNCHANGED <<supported, queue, isopen, built, clickable, keyed, hidden,
                   given, lost, hasty, logVars>>

-----------------------------------------------------------------------------
(* Log messages *)

\* notify() and close(): a wait of 0 sets no timer.
Log(m) ==
    /\ message[m] = "new"
    /\ message' = [message EXCEPT ![m] = "shown"]
    /\ timed' \in {timed, timed \cup {m}}
    /\ logsHidden' = FALSE
    /\ UNCHANGED <<dialogVars, closing>>

Removed(m) ==
    /\ message' = [message EXCEPT ![m] = "removed"]
    /\ logsHidden' = (logsHidden \/ \A n \in Message \ {m} : message[n] # "shown")

\* A second call binds the same function, which changes nothing.
HideElement(m) ==
    IF message[m] # "shown" THEN UNCHANGED <<message, closing, logsHidden>>
    ELSE IF supported
    THEN closing' = closing \cup {m} /\ UNCHANGED <<message, logsHidden>>
    ELSE Removed(m) /\ UNCHANGED closing

ClickLog(m) ==
    /\ message[m] = "shown"
    /\ HideElement(m)
    /\ UNCHANGED <<dialogVars, timed>>

LogTimer(m) ==
    /\ m \in timed
    /\ timed' = timed \ {m}
    /\ HideElement(m)
    /\ UNCHANGED dialogVars

LogTransitionEnd(m) ==
    /\ m \in closing
    /\ closing' = closing \ {m}
    /\ Removed(m)
    /\ UNCHANGED <<dialogVars, timed>>

AlertifyNext ==
    \/ Open \/ Click \/ Key \/ TransitionEnd
    \/ \E m \in Message : Log(m) \/ ClickLog(m) \/ LogTimer(m) \/ LogTransitionEnd(m)

AlertifySpec == AlertifyInit /\ [][AlertifyNext]_alertifyVars

-----------------------------------------------------------------------------
\* Whatever waits in the queue and however dialogs were answered, by a click or
\* a key: clicks and keys are heard by the dialog at the head of the queue and
\* by no other, and by nobody when the queue is empty; and no dialog is hidden
\* from its user by what is left over from an earlier one, unless it was opened
\* before that had faded.
OpenDialogListens ==
    /\ isopen <=> queue # <<>>
    /\ clickable <=> isopen
    /\ keyed = IF isopen THEN {Head(queue)} ELSE {}
    /\ isopen => built = Head(queue) /\ ~hidden /\ (~hasty => ~gone)

\* Dialogs are answered in the order in which they were opened, each once, and
\* a page that only asks for confirmation, as the console's do, hears of every
\* answer.
AnswersArrive ==
    /\ \A i, j \in DOMAIN given : i < j => given[i].to.id < given[j].to.id
    /\ \A i \in DOMAIN given : \A j \in DOMAIN queue : given[i].to.id < queue[j].id
    /\ (\A d \in lost \cup {given[i].to : i \in DOMAIN given} : d.type = "confirm")
            /\ (\A j \in DOMAIN queue : queue[j].type = "confirm")
         => lost = {}
=============================================================================
