------------------------- MODULE TaskServiceProofs -------------------------
(***************************************************************************)
(* The theorems about the list of tasks as the users are promised it, for  *)
(* every set of business types and port ranges, every stored list and any  *)
(* number of handlers and requests; and about the pages in front of it,    *)
(* for any number of other users and any sequence of clicks: a page makes  *)
(* the console do nothing that TaskService does not promise, a submission  *)
(* carries what was previewed for the task it names, and requests act on   *)
(* the tasks that the page shows.                                          *)
(***************************************************************************)
EXTENDS Page, TaskDataProofs


\* TypeOK holds only together with TasksDistinct: an id is fresh because it is
\* above all others, a port because the search and the check see all tasks.
IInv == TypeOK /\ TasksDistinct

LEMMA InitIInv == Init => IInv
<1> SUFFICES ASSUME Init PROVE IInv
  OBVIOUS
<1>1. StoredList(tasks)
  BY ServiceAssumption DEF Init
<1>2. NoAnswer \in Answer
  BY AnswerKinds, NoRequestIsRequest
<1>3. TypeOK
  BY <1>1, <1>2, NoRequestIsRequest, ServiceAssumption
  DEF Init, TypeOK, StoredList
<1> QED BY <1>1, <1>3 DEF IInv, TasksDistinct, StoredList

LEMMA StepIInv == IInv /\ [Next]_vars => IInv'
<1> SUFFICES ASSUME IInv, [Next]_vars PROVE IInv'
  OBVIOUS
<1> USE DEF IInv, TypeOK
<1>1. ASSUME NEW h \in Handler, Arrive(h) PROVE IInv'
  BY <1>1, ServiceAssumption DEF Arrive, TasksDistinct
<1>2. ASSUME NEW h \in Handler, Execute(h) PROVE IInv'
  <2>1. StoredList(tasks)
    BY DEF StoredList, TasksDistinct
  <2>2. StoredList(tasks')
    BY <1>2, <2>1, EffectKeepsStoredList DEF Execute
  <2>3. Reply(req[h], tasks) \in Answer
    BY ReplyIsAnswer
  <2>4. /\ phase' \in [Handler -> {"idle", "pending", "done"}]
        /\ req' \in [Handler -> Request]
        /\ ans' \in [Handler -> Answer]
        /\ arrived' \in 0..MaxArrivals
    BY <1>2, <2>3 DEF Execute
  <2> QED BY <2>2, <2>4 DEF StoredList, TasksDistinct
<1>3. ASSUME NEW h \in Handler, Send(h) PROVE IInv'
  <2>1. NoAnswer \in Answer
    BY AnswerKinds, NoRequestIsRequest
  <2> QED BY <1>3, <2>1, NoRequestIsRequest DEF Send, TasksDistinct
<1>4. CASE UNCHANGED vars
  BY <1>4 DEF vars, TasksDistinct
<1> QED BY <1>1, <1>2, <1>3, <1>4 DEF Next

LEMMA Invariance == Spec => []IInv
BY InitIInv, StepIInv, PTL DEF Spec

\* Tasks have the types the code gives them, ports are legal, and the answers
\* are those main.js knows.
THEOREM TypeCorrect == Spec => []TypeOK
<1>1. IInv => TypeOK
  BY DEF IInv
<1> QED BY <1>1, Invariance, PTL

\* No two tasks share a port, and no two share an id.
THEOREM DistinctTasks == Spec => []TasksDistinct
<1>1. IInv => TasksDistinct
  BY DEF IInv
<1> QED BY <1>1, Invariance, PTL

-----------------------------------------------------------------------------
(* What an answer says of the tasks it was computed from. *)

\* Only the execution of a request makes its answer.
LEMMA AnswerIsReply ==
    ASSUME IInv, [Next]_vars, NEW h \in Handler,
           ans[h] # ans'[h], ans'[h].status # "none"
    PROVE  req[h] \in Request /\ ans'[h] = Reply(req[h], tasks)
<1> USE DEF IInv, TypeOK
<1>1. ASSUME NEW g \in Handler, Arrive(g) PROVE FALSE
  BY <1>1 DEF Arrive
<1>2. ASSUME NEW g \in Handler, Execute(g)
      PROVE  req[h] \in Request /\ ans'[h] = Reply(req[h], tasks)
  BY <1>2 DEF Execute
<1>3. ASSUME NEW g \in Handler, Send(g) PROVE FALSE
  BY <1>3 DEF Send, NoAnswer, Result
<1> QED BY <1>1, <1>2, <1>3 DEF Next, vars

\* The answer to an automatic request follows from the search.
LEMMA AutoReply ==
    ASSUME IInv, NEW r \in Request, r.op = "auto"
    PROVE  LET range == PortRange[r.business]
               port == AutoAssign(range[1], range[2], VPorts(tasks))
               reply == Reply(r, tasks)
           IN  /\ reply.status = IF port = NoPort THEN "exhausted" ELSE "assigned"
               /\ reply.port = port
               /\ \/ /\ port = NoPort
                     /\ range[1]..(range[2] - 1) \subseteq VPorts(tasks)
                     /\ \E p \in VPorts(tasks) : p >= range[2]
                  \/ /\ port \in (range[1]..range[2]) \ VPorts(tasks)
                     /\ port # NoPort
                     /\ range[1]..(port - 1) \subseteq VPorts(tasks)
<1> DEFINE first == PortRange[r.business][1]
           last == PortRange[r.business][2]
           port == AutoAssign(first, last, VPorts(tasks))
<1>1. first \in Nat /\ last \in Nat /\ first <= last
  BY RequestFields, RangesAssumption
<1>2. VPorts(tasks) \in SUBSET Nat /\ IsFiniteSet(VPorts(tasks))
  BY VPortsArePorts, PortsAreFinite DEF IInv, TypeOK
<1>3. \/ /\ port = NoPort
         /\ first..(last - 1) \subseteq VPorts(tasks)
         /\ \E p \in VPorts(tasks) : p >= last
      \/ /\ port \in (first..last) \ VPorts(tasks)
         /\ first..(port - 1) \subseteq VPorts(tasks)
  <2> HIDE DEF first, last
  <2> QED BY <1>1, <1>2, AutoAssignFirstFit
<1>4. port \in first..last => port # NoPort
  BY <1>1 DEF NoPort
<1>5. Reply(r, tasks) = IF port = NoPort THEN Refused(r) ELSE Accepted(r, port)
  BY DEF Reply, Applies, VPortToAssign
<1>6. /\ Reply(r, tasks).status = IF port = NoPort THEN "exhausted" ELSE "assigned"
      /\ Reply(r, tasks).port = port
  BY <1>5 DEF Refused, Refusal, Accepted, Applies, Result
<1> QED BY <1>3, <1>4, <1>6

\* autoAssignPort is a first fit: an assigned port is the lowest free one of
\* its business range.
THEOREM FirstFit == Spec => AutoIsFirstFit
<1> DEFINE A == \A h \in Handler :
                    LET range == PortRange[req[h].business]
                        port == ans'[h].port
                    IN  ans[h] # ans'[h] /\ req[h].op = "auto"
                            /\ ans'[h].status = "assigned"
                        => /\ port \in (range[1]..range[2]) \ VPorts(tasks)
                           /\ range[1]..(port - 1) \subseteq VPorts(tasks)
<1>1. IInv /\ [Next]_vars => A
  <2> SUFFICES ASSUME IInv, [Next]_vars, NEW h \in Handler,
                      ans[h] # ans'[h], req[h].op = "auto",
                      ans'[h].status = "assigned"
               PROVE  LET range == PortRange[req[h].business]
                          port == ans'[h].port
                      IN  /\ port \in (range[1]..range[2]) \ VPorts(tasks)
                          /\ range[1]..(port - 1) \subseteq VPorts(tasks)
    OBVIOUS
  <2>1. req[h] \in Request /\ ans'[h] = Reply(req[h], tasks)
    BY AnswerIsReply
  <2> QED BY <2>1, AutoReply
<1>2. Spec => [][A]_vars
  BY <1>1, Invariance, PTL DEF Spec
<1> QED BY <1>2 DEF AutoIsFirstFit

\* A refusal for want of ports comes only when at most the last port of the
\* range is left.
THEOREM NearlyFull == Spec => ExhaustedIsNearlyFull
<1> DEFINE A == \A h \in Handler :
                    LET range == PortRange[req[h].business]
                    IN  ans[h] # ans'[h] /\ req[h].op = "auto"
                            /\ ans'[h].status = "exhausted"
                        => /\ range[1]..(range[2] - 1) \subseteq VPorts(tasks)
                           /\ \E p \in VPorts(tasks) : p >= range[2]
<1>1. IInv /\ [Next]_vars => A
  <2> SUFFICES ASSUME IInv, [Next]_vars, NEW h \in Handler,
                      ans[h] # ans'[h], req[h].op = "auto",
                      ans'[h].status = "exhausted"
               PROVE  LET range == PortRange[req[h].business]
                      IN  /\ range[1]..(range[2] - 1) \subseteq VPorts(tasks)
                          /\ \E p \in VPorts(tasks) : p >= range[2]
    OBVIOUS
  <2>1. req[h] \in Request /\ ans'[h] = Reply(req[h], tasks)
    BY AnswerIsReply
  <2> QED BY <2>1, AutoReply
<1>2. Spec => [][A]_vars
  BY <1>1, Invariance, PTL DEF Spec
<1> QED BY <1>2 DEF ExhaustedIsNearlyFull

-----------------------------------------------------------------------------
(* What a request does to the tasks of others. *)

LEMMA EffectKeepsTask ==
    ASSUME NEW r \in Request, NEW rows, NEW t \in rows
    PROVE  \/ \E u \in Effect(r, rows) : u.id = t.id /\ u.vport = t.vport
           \/ /\ r.op = "delete" /\ r.id = t.id
              /\ \A u \in Effect(r, rows) : u.id # t.id
<1> DEFINE vport == VPortToAssign(r, VPorts(rows))
<1>1. CASE Applies(r) /\ vport = NoPort
  BY <1>1 DEF Effect
<1>2. CASE Applies(r) /\ vport # NoPort
  <2>1. Effect(r, rows) = Change(r, vport, rows)
    BY <1>2 DEF Effect
  <2>2. rows \subseteq Change(r, vport, rows)
    <3>1. Change(r, vport, rows) = InsertRow(rows, vport, r.info)
      BY <1>2 DEF Change, Applies
    <3> HIDE DEF vport
    <3> QED BY <3>1 DEF InsertRow
  <2> QED BY <2>1, <2>2
<1>3. CASE r.op = "delete"
  <2>1. Effect(r, rows) = {s \in rows : s.id # r.id}
    BY <1>3 DEF Effect, Change, Applies, DeleteRows
  <2>2. CASE t.id = r.id
    BY <1>3, <2>1, <2>2
  <2>3. CASE t.id # r.id
    BY <2>1, <2>3
  <2> QED BY <2>2, <2>3
<1>4. CASE r.op = "edit"
  <2> DEFINE Edited(s) == IF s.id = r.id
                          THEN [id |-> r.id, vport |-> s.vport, info |-> r.info]
                          ELSE s
  <2>1. Effect(r, rows) = {Edited(s) : s \in rows}
    BY <1>4 DEF Effect, Change, Applies, UpdateRows
  <2>2. Edited(t).id = t.id /\ Edited(t).vport = t.vport
    OBVIOUS
  <2>3. Edited(t) \in Effect(r, rows)
    BY <2>1
  <2> QED BY <2>2, <2>3
<1>5. CASE r.op = "list"
  BY <1>5 DEF Effect, Change, Applies
<1> QED BY <1>1, <1>2, <1>3, <1>4, <1>5, RequestFields DEF Applies

\* Whatever the others ask for, a task keeps its port until someone deletes it.
THEOREM PortsAreKept == Spec => TasksKeepTheirPort
<1> DEFINE A == \A t \in tasks :
                    \/ \E u \in tasks' : u.id = t.id /\ u.vport = t.vport
                    \/ /\ \A u \in tasks' : u.id # t.id
                       /\ \E h \in Handler :
                            /\ phase[h] = "pending" /\ phase'[h] = "done"
                            /\ req[h].op = "delete" /\ req[h].id = t.id
<1>1. IInv /\ [Next]_vars => A
  <2> SUFFICES ASSUME IInv, [Next]_vars, NEW t \in tasks,
                      ~\E u \in tasks' : u.id = t.id /\ u.vport = t.vport
               PROVE  /\ \A u \in tasks' : u.id # t.id
                      /\ \E h \in Handler :
                            /\ phase[h] = "pending" /\ phase'[h] = "done"
                            /\ req[h].op = "delete" /\ req[h].id = t.id
    OBVIOUS
  <2>1. tasks' # tasks
    OBVIOUS
  <2>2. PICK h \in Handler : Execute(h)
    BY <2>1 DEF Next, vars, Arrive, Send
  <2>3. req[h] \in Request /\ tasks' = Effect(req[h], tasks)
    BY <2>2 DEF Execute, IInv, TypeOK
  <2>4. /\ req[h].op = "delete" /\ req[h].id = t.id
        /\ \A u \in tasks' : u.id # t.id
    BY <2>3, EffectKeepsTask
  <2>5. phase[h] = "pending" /\ phase'[h] = "done"
    BY <2>2 DEF Execute, IInv, TypeOK
  <2> QED BY <2>4, <2>5
<1>2. Spec => [][A]_vars
  BY <1>1, Invariance, PTL DEF Spec
<1> QED BY <1>2 DEF TasksKeepTheirPort

-----------------------------------------------------------------------------

(***************************************************************************)
(* Pages and service together.                                             *)
(***************************************************************************)
LEMMA AskIsArrival ==
    ASSUME NEW r, NEW c, Ask(r, c)
    PROVE  [Next]_vars
BY DEF Ask, Next, vars, serverVars

LEMMA PageStepIsServiceStep == [PageNext]_pageVars => [Next]_vars
<1> SUFFICES ASSUME [PageNext]_pageVars PROVE [Next]_vars
  OBVIOUS
<1>1. CASE UNCHANGED pageVars
  BY <1>1 DEF pageVars, vars
<1>2. CASE Navigate \/ Reload
  BY <1>2 DEF Navigate, Reload, Load, serverVars, vars
<1>8. CASE \E part \in leaving : SlideEnds(part)
  BY <1>8 DEF SlideEnds, serverVars, vars
<1>3. CASE Type \/ Preview \/ StepBack \/ ChangeMethod
  BY <1>3 DEF Type, Preview, StepBack, ChangeMethod, serverVars, vars
<1>4. CASE SubmitNew \/ SubmitEdit \/ ConfirmYes
  BY <1>4, AskIsArrival DEF SubmitNew, SubmitEdit, ConfirmYes
<1>5. CASE \E r \in loaded : ClickDate(r)
  BY <1>5 DEF ClickDate, serverVars, vars
<1>6. CASE ClickDelete \/ PopoverSlid \/ ConfirmNo \/ ClickEdit \/ Cancel
  BY <1>6 DEF ClickDelete, PopoverSlid, ConfirmNo, ClickEdit, Cancel, serverVars, vars
<1>7. ASSUME NEW h \in Handler, OthersAsk(h) \/ ConsoleExecutes(h) \/ Answered(h)
      PROVE  Next
  BY <1>7 DEF OthersAsk, ConsoleExecutes, Answered, Next
<1> QED BY <1>1, <1>2, <1>3, <1>4, <1>5, <1>6, <1>7, <1>8 DEF PageNext

\* Whatever a user does on the pages, the console behaves as TaskService: the
\* theorems above hold with browsers in front of it.
THEOREM PageUsesService == PageSpec => Spec
<1>1. PageInit => Init
  BY DEF PageInit
<1> QED BY <1>1, PageStepIsServiceStep, PTL DEF PageSpec, Spec

LEMMA ServiceInvariance == PageSpec => []IInv
BY PageUsesService, Invariance, PTL

(***************************************************************************)
(* Types: what the page remembers are rows of the list it was loaded with. *)
(***************************************************************************)
PageTypes ==
    /\ view \in {"index", "list"}
    /\ loaded \subseteq Row /\ UniqueIds(loaded)
    /\ view = "index" => loaded = {}
    /\ shown \subseteq loaded
    /\ popover \in loaded \cup {NoRow}
    /\ editing \in loaded \cup {NoRow}
    /\ asked \in Seq(loaded)
    /\ caller \in [Handler -> Caller \cup {Nobody}]

LEMMA PageTypesInit == PageInit => PageTypes
BY DEF PageInit, PageTypes, UniqueIds

LEMMA PageTypesNext == IInv /\ PageTypes /\ [PageNext]_pageVars => PageTypes'
<1> SUFFICES ASSUME IInv, PageTypes, [PageNext]_pageVars PROVE PageTypes'
  OBVIOUS
<1> USE DEF PageTypes
<1>1. CASE UNCHANGED pageVars
  BY <1>1 DEF pageVars, rowVars, formVars, UniqueIds
<1>13. CASE \E part \in leaving : SlideEnds(part)
  BY <1>13 DEF SlideEnds, rowVars
<1>2. ASSUME NEW v \in {"index", "list"}, Load(v) PROVE PageTypes'
  <2>1. loaded' \subseteq Row /\ UniqueIds(loaded')
    BY <1>2 DEF Load, IInv, TypeOK, TasksDistinct, UniqueIds
  <2> QED BY <1>2, <2>1 DEF Load
<1>3. CASE Type \/ Preview \/ StepBack \/ ChangeMethod
  BY <1>3 DEF Type, Preview, StepBack, ChangeMethod, rowVars
<1>4. ASSUME NEW r, NEW c \in Caller, Ask(r, c)
      PROVE  caller' \in [Handler -> Caller \cup {Nobody}]
  BY <1>4 DEF Ask
<1>5. CASE SubmitNew
  <2>1. [kind |-> "apply", row |-> NoRow] \in Caller
    BY DEF Caller
  <2> QED BY <1>4, <1>5, <2>1 DEF SubmitNew, formVars, rowVars
<1>6. CASE SubmitEdit
  <2>1. [kind |-> "edit", row |-> editing] \in Caller
    BY DEF Caller
  <2> QED BY <1>4, <1>6, <2>1 DEF SubmitEdit, formVars, rowVars
<1>7. CASE ConfirmYes
  <2>1. Head(asked) \in loaded /\ Tail(asked) \in Seq(loaded)
    BY <1>7 DEF ConfirmYes
  <2>2. [kind |-> "delete", row |-> Head(asked)] \in Caller
    BY <2>1 DEF Caller
  <2> QED BY <1>4, <1>7, <2>1, <2>2 DEF ConfirmYes, formVars
<1>8. CASE \E r \in loaded : ClickDate(r)
  BY <1>8 DEF ClickDate, formVars
<1>9. CASE ClickDelete \/ PopoverSlid \/ ConfirmNo
  BY <1>9 DEF ClickDelete, PopoverSlid, ConfirmNo, formVars
<1>10. CASE ClickEdit \/ Cancel
  BY <1>10 DEF ClickEdit, Cancel, rowVars
<1>11. ASSUME NEW h \in Handler, OthersAsk(h) \/ ConsoleExecutes(h) PROVE PageTypes'
  BY <1>11 DEF OthersAsk, ConsoleExecutes, formVars, rowVars
<1>12. ASSUME NEW h \in Handler, Answered(h) PROVE PageTypes'
  <2>1. shown' \subseteq loaded
    BY <1>12 DEF Answered, ApplyDone, EditDone, DeleteDone, NotForThisPage
  <2> QED BY <1>12, <2>1 DEF Answered
<1> QED BY <1>1, <1>2, <1>3, <1>5, <1>6, <1>7, <1>8, <1>9, <1>10, <1>11, <1>12, <1>13
        DEF PageNext, Navigate, Reload

(***************************************************************************)
(* The form.  With a user who is not hasty, a preview that waits to be     *)
(* submitted lies in a form that stays open: its cancel is not to be seen, *)
(* so nothing slides the form away, and no other row is edited beside it.  *)
(***************************************************************************)
FormInv ==
    /\ SubmitGoesToEditedTask
    /\ view = "list" =>
          /\ ~hasty /\ "submit" \in visible =>
                "edit-div" \in visible \ leaving /\ "cancel" \notin visible
          /\ "edit-div" \in visible => editing # NoRow

LEMMA FormInvInit == PageInit => FormInv
BY DEF PageInit, FormInv, SubmitGoesToEditedTask, FreshParts

LEMMA FormInvNext == PageTypes /\ FormInv /\ [PageNext]_pageVars => FormInv'
<1> SUFFICES ASSUME PageTypes, FormInv, [PageNext]_pageVars PROVE FormInv'
  OBVIOUS
<1> USE DEF FormInv, SubmitGoesToEditedTask
<1>1. CASE UNCHANGED <<view, formVars>>
  BY <1>1 DEF formVars, slideVars
<1>2. ASSUME NEW v \in {"index", "list"}, Load(v) PROVE FormInv'
  BY <1>2 DEF Load, FreshParts
<1>3. ASSUME StepsBack, UNCHANGED <<view, previewed, previewedFor, editing, hasty>>
      PROVE  FormInv'
  BY <1>3 DEF StepsBack
<1>4. CASE Type
  BY <1>1, <1>3, <1>4 DEF Type, formVars, slideVars
<1>5. CASE StepBack
  BY <1>3, <1>5 DEF StepBack
<1>6. CASE Preview
  <2>1. /\ "submit" \in visible' /\ "cancel" \notin visible'
        /\ "preview-table" \in visible' \ leaving'
    BY <1>6 DEF Preview
  <2>2. previewedFor' = editing' /\ previewed' # Blank
    BY <1>6, PageAssumption DEF Preview
  <2>3. view = "list" => /\ "edit-div" \in visible'
                         /\ ~hasty' => "edit-div" \notin leaving'
    BY <1>6 DEF Preview, Clickable, FormOpen
  <2>4. "edit-div" \in visible' => "edit-div" \in visible
    BY <1>6 DEF Preview
  <2> QED BY <1>6, <2>1, <2>2, <2>3, <2>4 DEF Preview
<1>7. CASE ChangeMethod
  BY <1>7 DEF ChangeMethod
<1>8. CASE SubmitNew \/ SubmitEdit \/ ConfirmYes \/ ConfirmNo \/ ClickDelete \/ PopoverSlid
  BY <1>1, <1>8 DEF SubmitNew, SubmitEdit, ConfirmYes, ConfirmNo, ClickDelete, PopoverSlid
<1>9. CASE \E r \in loaded : ClickDate(r)
  BY <1>1, <1>9 DEF ClickDate
<1>10. CASE ClickEdit
  <2>1. /\ view' = view /\ view = "list" /\ editing' # NoRow
        /\ visible' = visible \cup {"edit-div"}
        /\ UNCHANGED <<previewed, previewedFor>>
    BY <1>10 DEF ClickEdit, ListOpen
  <2>2. "preview-table" \in leaving' => "preview-table" \in leaving
    BY <1>10 DEF ClickEdit, SlideUp
  <2>3. ASSUME ~hasty' PROVE "submit" \notin visible
    BY <1>10, <2>1, <2>3 DEF ClickEdit
  <2> QED BY <2>1, <2>2, <2>3
<1>11. CASE Cancel
  <2>1. /\ view' = view /\ view = "list" /\ "cancel" \in visible
        /\ visible' = visible \cup {"listenlist-div"}
        /\ UNCHANGED <<previewed, previewedFor, editing, hasty>>
    BY <1>11 DEF Cancel, Clickable
  <2>2. "preview-table" \in leaving' => "preview-table" \in leaving
    BY <1>11 DEF Cancel, SlideUp
  <2> QED BY <2>1, <2>2
<1>12. ASSUME NEW part \in leaving, SlideEnds(part) PROVE FormInv'
  BY <1>12 DEF SlideEnds
<1>13. ASSUME NEW h \in Handler, OthersAsk(h) \/ ConsoleExecutes(h) PROVE FormInv'
  BY <1>1, <1>13 DEF OthersAsk, ConsoleExecutes
<1>14. ASSUME NEW h \in Handler, Answered(h) PROVE FormInv'
  <2>1. AnsweredForm \/ UNCHANGED slideVars
    BY <1>14 DEF Answered, ApplyDone, EditDone, DeleteDone, NotForThisPage
  <2> QED BY <1>14, <2>1 DEF Answered, AnsweredForm, slideVars
<1> QED BY <1>1, <1>2, <1>4, <1>5, <1>6, <1>7, <1>8, <1>9, <1>10, <1>11, <1>12, <1>13, <1>14
        DEF PageNext, Navigate, Reload, pageVars

\* What a submission sends is what was previewed, and can be seen, whatever was
\* clicked before and whenever slides end and earlier answers come in; and it was
\* previewed for the task that it changes, unless a preview was made in the form
\* while it slid away, or a row was edited beside the open form.
THEOREM SubmissionsMatch == PageSpec => []SubmitGoesToEditedTask
<1>1. FormInv => SubmitGoesToEditedTask
  BY DEF FormInv
<1> QED BY <1>1, ServiceInvariance, PageTypesInit, PageTypesNext, FormInvInit, FormInvNext,
           PTL DEF PageSpec

(***************************************************************************)
(* The requests of a list page name rows it was loaded with; and as long   *)
(* as nobody else changed the tasks, each stored task is one of them but   *)
(* for its servers, and what the page was told is deleted stays away.      *)
(***************************************************************************)
CallInv ==
    \A h \in Handler :
        /\ caller[h] # Nobody => phase[h] \in {"pending", "done"}
        /\ caller[h].kind = "apply" => view = "index"
        /\ caller[h].kind \in {"edit", "delete"} =>
              /\ view = "list" /\ caller[h].row \in loaded
              /\ req[h].op = caller[h].kind /\ req[h].id = caller[h].row.id

ShownInv ==
    view = "list" /\ ~foreign =>
        /\ \A t \in tasks : \E l \in loaded : l.id = t.id /\ l.vport = t.vport
        /\ \A h \in Handler : caller[h].kind = "delete" /\ phase[h] = "done" =>
              \A t \in tasks : t.id # caller[h].row.id

\* What an edit or a deletion makes of the tasks.
LEMMA EffectOfListRequests ==
    ASSUME NEW r, r.op \in {"edit", "delete"}, NEW rows \in SUBSET Row
    PROVE  /\ \A t \in Effect(r, rows) : \E s \in rows : s.id = t.id /\ s.vport = t.vport
           /\ \A t \in rows \ Effect(r, rows) : t.id = r.id
           /\ r.op = "delete" => \A t \in Effect(r, rows) : t.id # r.id
<1>1. CASE r.op = "edit"
  <2>1. Effect(r, rows) = UpdateRows(rows, r.id, r.info)
    BY <1>1 DEF Effect, Applies, Change
  <2> QED BY <1>1, <2>1 DEF UpdateRows, Row
<1>2. CASE r.op = "delete"
  <2>1. Effect(r, rows) = DeleteRows(rows, r.id)
    BY <1>2 DEF Effect, Applies, Change
  <2> QED BY <1>2, <2>1 DEF DeleteRows
<1> QED BY <1>1, <1>2

LEMMA CallInvInit == PageInit => CallInv /\ ShownInv
BY DEF PageInit, CallInv, ShownInv, Nobody

\* A request that a page sends.
LEMMA AskKeepsCalls ==
    ASSUME IInv, PageTypes, CallInv, ShownInv, NEW r, NEW c \in Caller, Ask(r, c),
           UNCHANGED <<view, loaded, foreign>>,
           c.kind = "apply" => view = "index",
           c.kind \in {"edit", "delete"} =>
              view = "list" /\ c.row \in loaded /\ r.op = c.kind /\ r.id = c.row.id
    PROVE  CallInv' /\ ShownInv'
<1>1. CASE UNCHANGED <<serverVars, caller>>
  BY <1>1 DEF CallInv, ShownInv, serverVars
<1>2. ASSUME NEW h \in Handler, Arrive(h), req'[h] = r, caller' = [caller EXCEPT ![h] = c]
      PROVE  CallInv' /\ ShownInv'
  <2>1. /\ tasks' = tasks
        /\ caller'[h] = c /\ phase'[h] = "pending" /\ req'[h] = r
        /\ \A g \in Handler \ {h} : /\ caller'[g] = caller[g] /\ phase'[g] = phase[g]
                                    /\ req'[g] = req[g]
    BY <1>2 DEF Arrive, IInv, TypeOK, PageTypes
  <2>2. CallInv'
    BY <2>1 DEF CallInv
  <2>3. ShownInv'
    BY <2>1 DEF ShownInv
  <2> QED BY <2>2, <2>3
<1> QED BY <1>1, <1>2 DEF Ask

LEMMA CallInvNext ==
    IInv /\ PageTypes /\ FormInv /\ CallInv /\ ShownInv /\ [PageNext]_pageVars
        => CallInv' /\ ShownInv'
<1> SUFFICES ASSUME IInv, PageTypes, FormInv, CallInv, ShownInv, [PageNext]_pageVars
             PROVE  CallInv' /\ ShownInv'
  OBVIOUS
<1>1. CASE UNCHANGED <<serverVars, view, loaded, caller, foreign>>
  BY <1>1 DEF CallInv, ShownInv, serverVars
<1>2. ASSUME NEW v \in {"index", "list"}, Load(v) PROVE CallInv' /\ ShownInv'
  BY <1>2 DEF Load, CallInv, ShownInv, Nobody, serverVars
<1>3. CASE Type \/ Preview \/ StepBack \/ ChangeMethod
  BY <1>1, <1>3 DEF Type, Preview, StepBack, ChangeMethod, rowVars
<1>13. CASE \E part \in leaving : SlideEnds(part)
  BY <1>1, <1>13 DEF SlideEnds, rowVars
<1>4. CASE SubmitNew
  <2>1. [kind |-> "apply", row |-> NoRow] \in Caller
    BY DEF Caller
  <2> QED BY <1>4, <2>1, AskKeepsCalls DEF SubmitNew, rowVars
<1>5. CASE SubmitEdit
  <2>1. editing \in loaded
    BY <1>5 DEF SubmitEdit, Clickable, FormOpen, FormInv, PageTypes
  <2>2. [kind |-> "edit", row |-> editing] \in Caller
    BY <2>1 DEF Caller, PageTypes
  <2> QED BY <1>5, <2>1, <2>2, AskKeepsCalls DEF SubmitEdit, rowVars
<1>6. CASE ConfirmYes
  <2>1. Head(asked) \in loaded
    BY <1>6 DEF ConfirmYes, PageTypes
  <2>2. [kind |-> "delete", row |-> Head(asked)] \in Caller /\ view = "list"
    BY <2>1 DEF Caller, PageTypes
  <2>3. Ask([op |-> "delete", id |-> Head(asked).id], [kind |-> "delete", row |-> Head(asked)])
    BY <1>6 DEF ConfirmYes, TargetId
  <2> QED BY <1>6, <2>1, <2>2, <2>3, AskKeepsCalls DEF ConfirmYes
<1>7. CASE \E r \in loaded : ClickDate(r)
  BY <1>1, <1>7 DEF ClickDate
<1>8. CASE ClickDelete \/ PopoverSlid \/ ConfirmNo \/ ClickEdit \/ Cancel
  BY <1>1, <1>8 DEF ClickDelete, PopoverSlid, ConfirmNo, ClickEdit, Cancel, rowVars
<1>9. ASSUME NEW h \in Handler, OthersAsk(h) PROVE CallInv' /\ ShownInv'
  <2>1. /\ caller[h] = Nobody /\ phase'[h] = "pending" /\ tasks' = tasks
        /\ \A g \in Handler \ {h} : phase'[g] = phase[g] /\ req'[g] = req[g]
        /\ UNCHANGED <<view, loaded, caller, foreign>>
    BY <1>9 DEF OthersAsk, Arrive, CallInv, IInv, TypeOK, rowVars
  <2>2. CallInv'
    BY <2>1 DEF CallInv, Nobody
  <2>3. ShownInv'
    BY <2>1 DEF ShownInv
  <2> QED BY <2>2, <2>3
<1>10. ASSUME NEW h \in Handler, ConsoleExecutes(h) PROVE CallInv' /\ ShownInv'
  <2>1. /\ phase'[h] = "done" /\ req' = req /\ tasks' = Effect(req[h], tasks)
        /\ \A g \in Handler \ {h} : phase'[g] = phase[g]
        /\ UNCHANGED <<view, loaded, caller>>
    BY <1>10 DEF ConsoleExecutes, Execute, IInv, TypeOK, rowVars
  <2>2. CallInv'
    BY <2>1 DEF CallInv
  <2>3. foreign' = (foreign \/ (caller[h] = Nobody /\ tasks' # tasks))
    BY <1>10 DEF ConsoleExecutes
  <2>4. SUFFICES ASSUME view = "list", ~foreign' PROVE ShownInv'
    BY <2>1, <2>2 DEF ShownInv
  <2>5. ~foreign /\ (caller[h] = Nobody => tasks' = tasks)
    BY <2>3, <2>4
  <2>6. CASE caller[h] = Nobody
    BY <2>1, <2>4, <2>5, <2>6 DEF ShownInv, Nobody
  <2>7. CASE caller[h] # Nobody
    <3>1. caller[h].kind \in {"edit", "delete"}
      BY <2>4, <2>7 DEF CallInv, PageTypes, Caller
    <3>2. req[h].op = caller[h].kind /\ req[h].id = caller[h].row.id
      BY <3>1 DEF CallInv
    <3>3. /\ \A t \in tasks' : \E s \in tasks : s.id = t.id /\ s.vport = t.vport
          /\ caller[h].kind = "delete" => \A t \in tasks' : t.id # caller[h].row.id
      BY <2>1, <3>1, <3>2, EffectOfListRequests DEF IInv, TypeOK
    <3>4. \A t \in tasks' : \E l \in loaded : l.id = t.id /\ l.vport = t.vport
      BY <2>4, <2>5, <3>3 DEF ShownInv
    <3>5. ASSUME NEW g \in Handler, caller[g].kind = "delete", phase'[g] = "done"
          PROVE  \A t \in tasks' : t.id # caller[g].row.id
      BY <2>1, <2>4, <2>5, <3>3, <3>5 DEF ShownInv
    <3> QED BY <2>1, <3>4, <3>5 DEF ShownInv
  <2> QED BY <2>6, <2>7
<1>11. ASSUME NEW h \in Handler, Answered(h) PROVE CallInv' /\ ShownInv'
  <2>1. /\ caller'[h] = Nobody /\ tasks' = tasks
        /\ \A g \in Handler \ {h} : /\ caller'[g] = caller[g] /\ phase'[g] = phase[g]
                                    /\ req'[g] = req[g]
        /\ UNCHANGED <<view, loaded, foreign>>
    BY <1>11 DEF Answered, Send, IInv, TypeOK, PageTypes
  <2>2. CallInv'
    BY <2>1 DEF CallInv, Nobody
  <2>3. ShownInv'
    BY <2>1 DEF ShownInv, Nobody
  <2> QED BY <2>2, <2>3
<1>12. CASE UNCHANGED pageVars
  BY <1>1, <1>12 DEF pageVars, vars, serverVars, rowVars
<1> QED BY <1>2, <1>3, <1>4, <1>5, <1>6, <1>7, <1>8, <1>9, <1>10, <1>11, <1>12, <1>13
        DEF PageNext, Navigate, Reload

PageInv == IInv /\ PageTypes /\ FormInv /\ CallInv /\ ShownInv

LEMMA PageInvariance == PageSpec => []PageInv
<1>1. PageInit => PageInv
  BY InitIInv, PageTypesInit, FormInvInit, CallInvInit DEF PageInit, PageInv
<1>2. PageInv /\ [PageNext]_pageVars => PageInv'
  BY PageStepIsServiceStep, StepIInv, PageTypesNext, FormInvNext, CallInvNext DEF PageInv
<1> QED BY <1>1, <1>2, PTL DEF PageSpec

\* Only the console finishes a request, and only its answer takes a row away.
LEMMA WhoFinishes ==
    ASSUME IInv, [PageNext]_pageVars, NEW h \in Handler,
           phase[h] = "pending", phase'[h] = "done"
    PROVE  Execute(h)
<1>1. PICK g \in Handler : Arrive(g) \/ Execute(g) \/ Send(g)
  BY PageStepIsServiceStep DEF Next, vars
<1>2. phase \in [Handler -> {"idle", "pending", "done"}]
  BY DEF IInv, TypeOK
<1> QED BY <1>1, <1>2 DEF Arrive, Execute, Send

\* An edit or a deletion changes or removes the task that its user saw in the
\* row, if nobody else changed the tasks since: an id is not enough for that, as
\* it may be given out again.
THEOREM RowsAreActedOn == PageSpec => ActsOnShownTask
<1> DEFINE Acts == \A h \in Handler :
                caller[h].kind \in {"edit", "delete"} /\ phase[h] = "pending"
                        /\ phase'[h] = "done" /\ ~foreign
                    => \A t \in tasks \ tasks' :
                          t.id = caller[h].row.id /\ t.vport = caller[h].row.vport
<1>1. PageInv /\ [PageNext]_pageVars => Acts
  <2> SUFFICES ASSUME PageInv, [PageNext]_pageVars, NEW h \in Handler,
                      caller[h].kind \in {"edit", "delete"}, phase[h] = "pending",
                      phase'[h] = "done", ~foreign, NEW t \in tasks \ tasks'
               PROVE  t.id = caller[h].row.id /\ t.vport = caller[h].row.vport
    OBVIOUS
  <2> USE DEF PageInv
  <2>1. /\ req[h].op \in {"edit", "delete"} /\ req[h].id = caller[h].row.id
        /\ caller[h].row \in loaded
    BY DEF CallInv
  <2>2. tasks' = Effect(req[h], tasks)
    BY WhoFinishes DEF Execute
  <2>3. t.id = caller[h].row.id
    BY <2>1, <2>2, EffectOfListRequests DEF IInv, TypeOK
  <2>4. view = "list"
    BY <2>1 DEF CallInv
  <2>5. PICK l \in loaded : l.id = t.id /\ l.vport = t.vport
    BY <2>4 DEF ShownInv
  <2>6. l = caller[h].row
    BY <2>1, <2>3, <2>5 DEF PageTypes, UniqueIds
  <2> QED BY <2>3, <2>5, <2>6
<1> QED BY <1>1, PageInvariance, PTL DEF PageSpec, ActsOnShownTask

\* A row leaves the list only when its task is gone, under the same condition.
THEOREM RowsStayWithTasks == PageSpec => RowGoesWithItsTask
<1> DEFINE Goes == \A r \in shown \ shown' :
                       loaded' = loaded /\ ~foreign => \A t \in tasks : t.id # r.id
<1>1. PageInv /\ [PageNext]_pageVars => Goes
  <2> SUFFICES ASSUME PageInv, [PageNext]_pageVars, NEW r \in shown \ shown',
                      loaded' = loaded, ~foreign
               PROVE  \A t \in tasks : t.id # r.id
    OBVIOUS
  <2> USE DEF PageInv
  <2>1. ASSUME NEW v, Load(v) PROVE FALSE
    BY <2>1 DEF Load, PageTypes
  <2>2. ~UNCHANGED rowVars
    BY DEF rowVars
  <2>3. PICK h \in Handler : Answered(h)
    <3>1. ~UNCHANGED pageVars
      BY <2>2 DEF pageVars
    <3>2. ~Type /\ ~Preview /\ ~StepBack /\ ~ChangeMethod /\ ~SubmitNew /\ ~SubmitEdit
      BY <2>2 DEF Type, Preview, StepBack, ChangeMethod, SubmitNew, SubmitEdit
    <3>3. ~ClickDelete /\ ~PopoverSlid /\ ~ConfirmYes /\ ~ConfirmNo /\ ~ClickEdit /\ ~Cancel
          /\ \A s : ~ClickDate(s)
      BY <2>2 DEF ClickDelete, PopoverSlid, ConfirmYes, ConfirmNo, ClickEdit, Cancel, ClickDate
    <3>4. /\ \A h \in Handler : ~OthersAsk(h) /\ ~ConsoleExecutes(h)
          /\ \A part : ~SlideEnds(part)
      BY <2>2 DEF OthersAsk, ConsoleExecutes, SlideEnds
    <3> QED BY <2>1, <3>1, <3>2, <3>3, <3>4 DEF PageNext, Navigate, Reload
  <2>4. caller[h].kind = "delete" /\ r = caller[h].row /\ phase[h] = "done"
    BY <2>3 DEF Answered, Send, ApplyDone, EditDone, DeleteDone, NotForThisPage
  <2>5. view = "list"
    BY <2>4 DEF CallInv
  <2> QED BY <2>4, <2>5 DEF ShownInv
<1> QED BY <1>1, PageInvariance, PTL DEF PageSpec, RowGoesWithItsTask
=============================================================================
