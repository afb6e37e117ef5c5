---------------------------- MODULE WidgetProofs ----------------------------
(***************************************************************************)
(* The theorems about the widgets of alertify.js and bootstrap.js and      *)
(* about the effects of jquery-1.7.2.js: that each of them is what it      *)
(* shows itself to be, for any number of calls, panels, panes, items,      *)
(* texts and effects, although clicks come before timers and transitions   *)
(* are over.  A section for each of them has its invariant, the lemmas,    *)
(* and its theorems.                                                       *)
(***************************************************************************)
EXTENDS Alertify, Modal, Tooltip, Carousel, Collapse, Tabs, Typeahead, Effects,
        FiniteSetTheorems, SequenceTheorems, WellFoundedInduction, TLAPS

(***************************************************************************)
(* Functions that are called in a row, each for what the one before it     *)
(* left: a recursive function of the number of calls.                      *)
(***************************************************************************)
LEMMA LeastNat ==
    ASSUME NEW T, T \subseteq Nat, T # {}
    PROVE  \E m \in T : \A k \in T : m <= k
<1> DEFINE Less == {ss \in Nat \X Nat : ss[1] < ss[2]}
<1>1. IsWellFoundedOn(Less, Nat)
  BY NatLessThanWellFounded DEF OpToRel
<1> HIDE DEF Less
<1>2. PICK m \in T : \A k \in T : <<k, m>> \notin Less
  BY <1>1, WFMin
<1>3. \A k \in T : ~(k < m)
  BY <1>2 DEF Less
<1> QED BY <1>3

\* within[i]: what may be left after i calls.
LEMMA RunStays ==
    ASSUME NEW n \in Nat, NEW within, NEW h, h[0] \in within[0],
           \A i \in 1..n : h[i - 1] \in within[i - 1] => h[i] \in within[i]
    PROVE  \A i \in 0..n : h[i] \in within[i]
<1> DEFINE Bad == {i \in 0..n : h[i] \notin within[i]}
<1>1. SUFFICES ASSUME Bad # {} PROVE FALSE
  OBVIOUS
<1>2. Bad \subseteq Nat
  OBVIOUS
<1>3. PICK m \in Bad : \A k \in Bad : m <= k
  <2> HIDE DEF Bad
  <2> QED BY <1>1, <1>2, LeastNat
<1>4. m # 0
  BY <1>3
<1>5. m - 1 \in 0..n /\ m \in 1..n /\ ~(m <= m - 1)
  BY <1>4
<1>6. h[m - 1] \in within[m - 1]
  BY <1>3, <1>5
<1> QED BY <1>3, <1>5, <1>6

\* What is left after each of n calls.
IsRun(g, n, base, step) == g = [i \in 0..n |-> IF i = 0 THEN base ELSE step[i][g[i - 1]]]

LEMMA RunExists ==
    ASSUME NEW n \in Nat, NEW within, NEW base, base \in within[0], NEW step,
           \A i \in 1..n : \A x \in within[i - 1] : step[i][x] \in within[i]
    PROVE  \E g : IsRun(g, n, base, step) /\ \A i \in 0..n : g[i] \in within[i]
<1> USE DEF IsRun
<1> DEFINE Upto(g, m) == /\ g = [i \in 0..m |-> IF i = 0 THEN base ELSE step[i][g[i - 1]]]
                         /\ \A i \in 0..m : g[i] \in within[i]
           Bad == {m \in 0..n : ~\E g : Upto(g, m)}
<1>1. SUFFICES ASSUME Bad # {} PROVE FALSE
  OBVIOUS
<1>2. Bad \subseteq Nat
  OBVIOUS
<1>3. PICK m \in Bad : \A k \in Bad : m <= k
  <2> HIDE DEF Bad
  <2> QED BY <1>1, <1>2, LeastNat
<1>4. CASE m = 0
  <2> DEFINE g == [i \in 0..0 |-> base]
  <2>1. g = [i \in 0..0 |-> IF i = 0 THEN base ELSE step[i][g[i - 1]]]
    OBVIOUS
  <2>2. Upto(g, 0)
    BY <2>1
  <2> QED BY <1>3, <1>4, <2>2
<1>5. CASE m # 0
  <2>1. m \in 1..n /\ m - 1 \in 0..n /\ m - 1 \notin Bad
    BY <1>3, <1>5
  <2>2. PICK f : Upto(f, m - 1)
    BY <2>1
  <2> DEFINE g == [i \in 0..m |-> IF i = m THEN step[m][f[m - 1]] ELSE f[i]]
  <2>3. \A i \in 0..(m - 1) : g[i] = f[i]
    BY <2>1
  <2>4. \A i \in 0..(m - 1) : f[i] = (IF i = 0 THEN base ELSE step[i][f[i - 1]]) /\ f[i] \in within[i]
    BY <2>1, <2>2
  <2>5. \A i \in 0..m : i = m \/ i \in 0..(m - 1)
    BY <2>1
  <2>6. g[m] = step[m][g[m - 1]] /\ g[m] \in within[m]
    BY <2>1, <2>4
  <2>7. \A i \in 0..(m - 1) : i # 0 => i - 1 \in 0..(m - 1)
    BY <2>1
  <2> DEFINE e(i) == IF i = 0 THEN base ELSE step[i][g[i - 1]]
  <2>8. \A i \in 0..m : g[i] = e(i) /\ g[i] \in within[i]
    <3> HIDE DEF g
    <3> QED BY <2>1, <2>3, <2>4, <2>5, <2>6, <2>7
  <2>9. g = [i \in 0..m |-> g[i]]
    OBVIOUS
  <2> HIDE DEF g
  <2>10. g = [i \in 0..m |-> e(i)]
    BY <2>8, <2>9
  <2>11. Upto(g, m)
    BY <2>8, <2>10
  <2> QED BY <1>3, <2>1, <2>11
<1> QED BY <1>4, <1>5

-----------------------------------------------------------------------------
(***************************************************************************)
(* The theorems about dialogs, for any number of them and whatever way     *)
(* they are answered: the one that the user sees is the one that listens,  *)
(* and answers reach the callers in the order of the questions.            *)
(***************************************************************************)

Opening == [id : Nat, type : Type]

DialogTypes ==
    /\ queue \in Seq(Opening)
    /\ given \in Seq([to : Opening, yes : BOOLEAN])
    /\ lost \subseteq Opening /\ IsFiniteSet(lost)

(***************************************************************************)
(* Who listens.  What would hide a dialog later on is the end of another's *)
(* transition, which is only awaited when the dialog was opened hastily.   *)
(***************************************************************************)
ListenInv ==
    /\ OpenDialogListens
    /\ isopen /\ "hide" \in ends => hasty

LEMMA TailFacts ==
    ASSUME NEW S, NEW s \in Seq(S), s # <<>>
    PROVE  /\ Tail(s) \in Seq(S) /\ Len(Tail(s)) = Len(s) - 1 /\ Len(s) > 0
           /\ Head(s) = s[1] /\ Head(s) \in S
           /\ \A i \in 1..(Len(s) - 1) : Tail(s)[i] = s[i + 1]
           /\ Len(s) > 1 => Tail(s) # <<>> /\ Head(Tail(s)) = s[2] /\ s[2] \in S
           /\ Len(s) = 1 => Tail(s) = <<>>
<1>1. /\ Tail(s) \in Seq(S) /\ Len(Tail(s)) = Len(s) - 1 /\ Head(s) \in S
      /\ \A i \in 1..Len(Tail(s)) : Tail(s)[i] = s[i + 1]
  BY HeadTailProperties
<1>2. Len(s) \in Nat /\ Len(s) > 0 /\ Head(s) = s[1]
  OBVIOUS
<1>3. ASSUME Len(s) > 1
      PROVE  Tail(s) # <<>> /\ Head(Tail(s)) = s[2] /\ s[2] \in S
  <2>1. Len(Tail(s)) > 0 /\ Tail(s)[1] = s[2] /\ 2 \in 1..Len(s)
    BY <1>1, <1>2, <1>3
  <2>2. Tail(s) # <<>> /\ Head(Tail(s)) = Tail(s)[1]
    <3>1. Tail(s) # <<>>
      BY <2>1, EmptySeq, SMT
    <3>2. ASSUME NEW t \in Seq(S), t # <<>> PROVE Head(t) = t[1]
      OBVIOUS
    <3> QED BY <1>1, <3>1, <3>2
  <2> QED BY <2>1, <2>2, ElementOfSeq
<1>4. ASSUME Len(s) = 1 PROVE Tail(s) = <<>>
  <2>1. ASSUME NEW t \in Seq(S), Len(t) = 0 PROVE t = <<>>
    BY <2>1, EmptySeq
  <2>2. Len(Tail(s)) = 0 /\ Tail(s) \in Seq(S)
    BY <1>1, <1>4
  <2> QED BY <2>1, <2>2, Zenon
<1> QED BY <1>1, <1>2, <1>3, <1>4

LEMMA DialogFacts ==
    ASSUME DialogTypes
    PROVE  /\ \A j \in DOMAIN queue : queue[j].id \in Nat
           /\ \A d \in lost : d.id \in Nat
           /\ \A i \in DOMAIN given : given[i].to \in Opening /\ given[i].to.id \in Nat
<1>1. \A j \in DOMAIN queue : queue[j] \in Opening
  BY DEF DialogTypes
<1>2. \A i \in DOMAIN given : given[i] \in [to : Opening, yes : BOOLEAN]
  <2> DEFINE Reply == [to : Opening, yes : BOOLEAN]
  <2>1. given \in Seq(Reply) /\ DOMAIN given = 1..Len(given)
    BY DEF DialogTypes
  <2> QED BY <2>1, ElementOfSeq
<1>3. \A i \in DOMAIN given : given[i].to \in Opening
  BY <1>2
<1>4. \A d \in Opening : d.id \in Nat
  BY DEF Opening
<1> QED BY <1>1, <1>3, <1>4 DEF DialogTypes

\* Whoever answers does so to the head of the queue.
LEMMA AnswersHead ==
    ASSUME OpenDialogListens, Click \/ Key
    PROVE  /\ queue # <<>> /\ isopen /\ keyed = {Head(queue)}
           /\ \E yes \in BOOLEAN : Answer(Head(queue), yes)
<1>1. CASE Click
  BY <1>1 DEF Click, OpenDialogListens
<1>2. CASE Key
  BY <1>2 DEF Key, OpenDialogListens
<1> QED BY <1>1, <1>2

LEMMA ListenInvInit == AlertifyInit => ListenInv
BY DEF AlertifyInit, ListenInv, OpenDialogListens

LEMMA ListenInvNext ==
    DialogTypes /\ ListenInv /\ [AlertifyNext]_alertifyVars => ListenInv'
<1> SUFFICES ASSUME DialogTypes, ListenInv, [AlertifyNext]_alertifyVars PROVE ListenInv'
  OBVIOUS
<1> USE DEF ListenInv
<1>1. CASE UNCHANGED dialogVars
  BY <1>1 DEF dialogVars, OpenDialogListens
<1>2. CASE Open
  <2>1. PICK d : /\ queue' = Append(queue, d)
                 /\ hasty' = (hasty \/ "hide" \in ends)
                 /\ IF isopen
                    THEN UNCHANGED <<isopen, built, clickable, keyed, ends, hidden, gone>>
                    ELSE Setup(d, FALSE) /\ keyed' = keyed \cup {d}
    BY <1>2 DEF Open
  <2>2. queue' # <<>> /\ Head(queue') = IF queue = <<>> THEN d ELSE Head(queue)
    BY <2>1 DEF DialogTypes
  <2>3. CASE isopen
    BY <2>1, <2>2, <2>3 DEF OpenDialogListens
  <2>4. CASE ~isopen
    <3>1. /\ isopen' /\ built' = d /\ clickable' /\ ~hidden' /\ ~gone'
          /\ "hide" \in ends' => "hide" \in ends
      BY <2>1, <2>4 DEF Setup
    <3>2. queue = <<>> /\ keyed' = {d}
      BY <2>1, <2>4 DEF OpenDialogListens
    <3> QED BY <2>1, <2>2, <3>1, <3>2 DEF OpenDialogListens
  <2> QED BY <2>3, <2>4
<1>3. CASE Click \/ Key
  <2>1. PICK yes \in BOOLEAN : Answer(Head(queue), yes)
    BY <1>3, AnswersHead
  <2>2. queue # <<>> /\ isopen /\ keyed = {Head(queue)}
    BY <1>3, AnswersHead
  <2>3. queue' = Tail(queue) /\ hasty' = hasty
    BY <2>1 DEF Answer
  <2>4. CASE Len(queue) > 1
    <3>1. HideForNext(Head(queue), yes)
      BY <2>1, <2>4 DEF Answer
    <3>2. /\ isopen' /\ clickable' /\ built' = queue[2] /\ ~hidden' /\ ~gone'
          /\ ends' = ends
      BY <3>1 DEF HideForNext, Setup
    <3>3. keyed' = {queue[2]}
      BY <2>2, <3>1 DEF HideForNext
    <3>4. queue' # <<>> /\ Head(queue') = queue[2]
      BY <2>2, <2>3, <2>4, TailFacts DEF DialogTypes
    <3> QED BY <2>2, <2>3, <3>2, <3>3, <3>4 DEF OpenDialogListens
  <2>5. CASE ~(Len(queue) > 1)
    <3>1. HideLast(Head(queue), yes)
      BY <2>1, <2>5 DEF Answer
    <3>2. ~isopen' /\ ~clickable' /\ keyed' = {}
      BY <2>2, <3>1 DEF HideLast
    <3>3. queue' = <<>>
      BY <2>2, <2>3, <2>5, TailFacts DEF DialogTypes
    <3> QED BY <3>2, <3>3 DEF OpenDialogListens
  <2> QED BY <2>4, <2>5
<1>4. CASE TransitionEnd
  BY <1>4 DEF TransitionEnd, OpenDialogListens
<1>5. ASSUME NEW m \in Message, Log(m) \/ ClickLog(m) \/ LogTimer(m) \/ LogTransitionEnd(m)
      PROVE  UNCHANGED dialogVars
  BY <1>5 DEF Log, ClickLog, LogTimer, LogTransitionEnd
<1> QED BY <1>1, <1>2, <1>3, <1>4, <1>5 DEF AlertifyNext, alertifyVars

(***************************************************************************)
(* Where answers go.  Dialogs are numbered as they are opened, so the      *)
(* queue holds the numbers that follow those of the answered ones; and     *)
(* what is in the way of an answer is only ever a dialog of another type.  *)
(***************************************************************************)
Answered == Len(given) + Cardinality(lost)

OnlyConfirms ==
    /\ \A d \in lost : d.type = "confirm"
    /\ \A i \in DOMAIN given : given[i].to.type = "confirm"
    /\ \A j \in DOMAIN queue : queue[j].type = "confirm"

OrderInv ==
    /\ \A j \in DOMAIN queue : queue[j].id = Answered + j
    /\ \A d \in lost : d.id <= Answered
    /\ \A i \in DOMAIN given : given[i].to.id <= Answered
    /\ \A i, j \in DOMAIN given : i < j => given[i].to.id < given[j].to.id
    /\ OnlyConfirms => lost = {}

LEMMA OrderInvInit == AlertifyInit => DialogTypes /\ OrderInv
<1> SUFFICES ASSUME AlertifyInit PROVE DialogTypes /\ OrderInv
  OBVIOUS
<1>1. IsFiniteSet(lost)
  BY FS_EmptySet DEF AlertifyInit
<1> QED BY <1>1 DEF AlertifyInit, DialogTypes, OrderInv

LEMMA OrderInvNext ==
    DialogTypes /\ ListenInv /\ OrderInv /\ [AlertifyNext]_alertifyVars
        => DialogTypes' /\ OrderInv'
<1> SUFFICES ASSUME DialogTypes, ListenInv, OrderInv, [AlertifyNext]_alertifyVars
             PROVE  DialogTypes' /\ OrderInv'
  OBVIOUS
<1>0. Cardinality(lost) \in Nat /\ Len(given) \in Nat /\ Answered \in Nat
  BY FS_CardinalityType DEF DialogTypes, Answered
<1>1. CASE UNCHANGED <<queue, given, lost>>
  BY <1>1 DEF DialogTypes, OrderInv, OnlyConfirms, Answered
<1>2. CASE Open
  <2>1. PICK type \in Type : queue' = Append(queue, [id |-> Opened + 1, type |-> type])
    BY <1>2 DEF Open
  <2>2. given' = given /\ lost' = lost
    BY <1>2 DEF Open
  <2> DEFINE d == [id |-> Opened + 1, type |-> type]
  <2>3. d \in Opening /\ d.id = Answered + Len(queue) + 1
    BY <1>0 DEF Opening, Opened, Answered, DialogTypes
  <2>4. DialogTypes'
    BY <2>1, <2>2, <2>3 DEF DialogTypes
  <2>5. /\ DOMAIN queue' = 1..(Len(queue) + 1)
        /\ \A j \in 1..Len(queue) : queue'[j] = queue[j]
        /\ queue'[Len(queue) + 1] = d
        /\ DOMAIN queue = 1..Len(queue) /\ Len(queue) \in Nat
    BY <2>1, <2>3 DEF DialogTypes
  <2>6. \A j \in DOMAIN queue' : queue'[j].id = Answered + j
    BY <1>0, <2>3, <2>5 DEF OrderInv
  <2>7. OnlyConfirms' => OnlyConfirms
    BY <2>2, <2>5 DEF OnlyConfirms
  <2> QED BY <2>2, <2>4, <2>6, <2>7 DEF OrderInv, Answered
<1>3. CASE Click \/ Key
  <2>1. PICK yes \in BOOLEAN : Answer(Head(queue), yes)
    BY <1>3, AnswersHead DEF ListenInv
  <2> DEFINE d == Head(queue)
             reply == [to |-> d, yes |-> yes]
  <2>2. queue # <<>>
    BY <1>3, AnswersHead DEF ListenInv
  <2>3. /\ queue' \in Seq(Opening) /\ d = queue[1] /\ d \in Opening
        /\ DOMAIN queue = 1..Len(queue) /\ Len(queue) \in Nat /\ Len(queue) > 0
        /\ DOMAIN queue' = 1..(Len(queue) - 1)
        /\ \A j \in 1..(Len(queue) - 1) : queue'[j] = queue[j + 1]
    BY <2>1, <2>2, TailFacts DEF Answer, DialogTypes
  <2>4. d.id = Answered + 1
    BY <2>3 DEF OrderInv
  <2>5. \A j \in DOMAIN queue' : queue'[j].id = Answered + 1 + j
    <3> TAKE j \in DOMAIN queue'
    <3>1. j \in Nat /\ j + 1 \in DOMAIN queue /\ queue'[j] = queue[j + 1]
      BY <2>3
    <3>2. queue[j + 1].id = Answered + (j + 1)
      BY <3>1 DEF OrderInv
    <3> QED BY <1>0, <3>1, <3>2
  <2>6. CASE given' = Append(given, reply) /\ lost' = lost
    <3>1. /\ given' \in Seq([to : Opening, yes : BOOLEAN])
          /\ Len(given') = Len(given) + 1
          /\ DOMAIN given' = 1..(Len(given) + 1) /\ DOMAIN given = 1..Len(given)
          /\ \A i \in 1..Len(given) : given'[i] = given[i]
          /\ given'[Len(given) + 1] = reply
      BY <2>3, <2>6 DEF DialogTypes
    <3>2. Answered' = Answered + 1
      BY <1>0, <2>6, <3>1 DEF Answered
    <3>3. \A i \in DOMAIN given' : given'[i].to.id <= Answered + 1
      <4>1. \A i \in DOMAIN given : given[i].to.id \in Nat
        BY DialogFacts
      <4> QED BY <1>0, <2>4, <3>1, <4>1 DEF OrderInv
    <3>4. \A i, j \in DOMAIN given' : i < j => given'[i].to.id < given'[j].to.id
      <4>1. \A i \in DOMAIN given : given[i].to.id \in Nat
        BY DialogFacts
      <4> QED BY <1>0, <2>4, <3>1, <4>1 DEF OrderInv
    <3>5. \A e \in lost' : e.id <= Answered + 1
      BY <1>0, <2>6, DialogFacts DEF OrderInv
    <3>6. OnlyConfirms' => OnlyConfirms
      <4> SUFFICES ASSUME OnlyConfirms' PROVE OnlyConfirms
        OBVIOUS
      <4>1. d.type = "confirm"
        BY <1>0, <3>1 DEF OnlyConfirms
      <4>2. \A j \in DOMAIN queue : queue[j].type = "confirm"
        <5> TAKE j \in DOMAIN queue
        <5>1. CASE j = 1
          BY <2>3, <4>1, <5>1
        <5>2. CASE j # 1
          <6>1. j - 1 \in DOMAIN queue' /\ queue'[j - 1] = queue[j]
            BY <2>3, <5>2
          <6> QED BY <6>1 DEF OnlyConfirms
        <5> QED BY <5>1, <5>2
      <4>3. \A i \in DOMAIN given : given[i].to.type = "confirm"
        BY <1>0, <3>1 DEF OnlyConfirms
      <4> QED BY <2>6, <4>2, <4>3 DEF OnlyConfirms
    <3>7. DialogTypes'
      BY <2>3, <2>6, <3>1 DEF DialogTypes
    <3> QED BY <2>5, <2>6, <3>2, <3>3, <3>4, <3>5, <3>6, <3>7 DEF OrderInv
  <2>7. CASE given' = given /\ lost' = lost \cup {d} /\ ~OnlyConfirms'
    <3>1. d \notin lost
      BY <1>0, <2>4 DEF OrderInv
    <3>2. IsFiniteSet(lost') /\ Cardinality(lost') = Cardinality(lost) + 1
      BY <2>7, <3>1, FS_AddElement DEF DialogTypes
    <3>3. Answered' = Answered + 1
      BY <1>0, <2>7, <3>2 DEF Answered
    <3>4. DialogTypes'
      BY <2>3, <2>7, <3>2 DEF DialogTypes
    <3>5. \A e \in lost' : e.id <= Answered + 1
      BY <1>0, <2>4, <2>7, DialogFacts DEF OrderInv
    <3>6. \A i \in DOMAIN given' : given'[i].to.id <= Answered + 1
      BY <1>0, <2>7, DialogFacts DEF OrderInv
    <3> QED BY <2>5, <2>7, <3>3, <3>4, <3>5, <3>6 DEF OrderInv
  <2>8. CASE Len(queue) > 1
    <3>1. HideForNext(d, yes)
      BY <2>1, <2>8 DEF Answer
    <3>2. \/ given' = Append(given, reply) /\ lost' = lost
          \/ /\ given' = given /\ lost' = lost \cup {d}
             /\ \/ HasInput(d) /\ ~HasInput(queue[2])
                \/ HasCancel(d) /\ ~HasCancel(queue[2])
      BY <3>1, Zenon DEF HideForNext
    <3>3. 1 \in DOMAIN queue' /\ queue'[1] = queue[2]
      BY <2>3, <2>8
    <3>4. ASSUME d \in lost', ~(given' = Append(given, reply) /\ lost' = lost)
          PROVE  ~OnlyConfirms'
      BY <3>2, <3>3, <3>4 DEF OnlyConfirms, HasInput, HasCancel
    <3> QED BY <2>6, <2>7, <3>2, <3>4
  <2>9. CASE ~(Len(queue) > 1)
    BY <2>1, <2>6, <2>9 DEF Answer, HideLast
  <2> QED BY <2>8, <2>9
<1>4. CASE TransitionEnd
  BY <1>1, <1>4 DEF TransitionEnd
<1>5. ASSUME NEW m \in Message, Log(m) \/ ClickLog(m) \/ LogTimer(m) \/ LogTransitionEnd(m)
      PROVE  UNCHANGED dialogVars
  BY <1>5 DEF Log, ClickLog, LogTimer, LogTransitionEnd
<1>6. UNCHANGED dialogVars => UNCHANGED <<queue, given, lost>>
  BY DEF dialogVars
<1> QED BY <1>1, <1>2, <1>3, <1>4, <1>5, <1>6 DEF AlertifyNext, alertifyVars

LEMMA DialogInvariance == AlertifySpec => [](DialogTypes /\ ListenInv /\ OrderInv)
BY ListenInvInit, OrderInvInit, ListenInvNext, OrderInvNext, PTL DEF AlertifySpec

\* Clicks and keys are heard by the dialog at the head of the queue and by no
\* other, and what is left over from an earlier one does not hide it.
THEOREM HeadListens == AlertifySpec => []OpenDialogListens
<1>1. ListenInv => OpenDialogListens
  BY DEF ListenInv
<1> QED BY <1>1, DialogInvariance, PTL

\* Answers come in the order of the questions, and a page that only asks for
\* confirmation hears of every one.
THEOREM AnswersInOrder == AlertifySpec => []AnswersArrive
<1>1. DialogTypes /\ OrderInv => AnswersArrive
  <2> SUFFICES ASSUME DialogTypes, OrderInv PROVE AnswersArrive
    OBVIOUS
  <2>1. Answered \in Nat
    BY FS_CardinalityType DEF DialogTypes, Answered
  <2>0. DOMAIN queue \subseteq Nat \ {0}
    BY DEF DialogTypes
  <2>2. \A i \in DOMAIN given : \A j \in DOMAIN queue : given[i].to.id < queue[j].id
    BY <2>1, <2>0, DialogFacts DEF OrderInv
  <2>3. (\A d \in lost \cup {given[i].to : i \in DOMAIN given} : d.type = "confirm")
            /\ (\A j \in DOMAIN queue : queue[j].type = "confirm")
        => OnlyConfirms
    BY DEF OnlyConfirms
  <2> QED BY <2>2, <2>3 DEF OrderInv, AnswersArrive
<1> QED BY <1>1, DialogInvariance, PTL

-----------------------------------------------------------------------------
(***************************************************************************)
(* What a tip's object believes, the document and the pointer agree, for   *)
(* any number of hides that are under way.                                 *)
(***************************************************************************)

\* A call of hide() that waits for a transition also waits for its timer, and
\* an undisturbed show() finds none of them.
DocumentInv ==
    /\ TipIsInDocument
    /\ waiting \subseteq hideTimers
    /\ undisturbed /\ "in" \in tipHas => hideTimers = {}

\* A timer of the pointer is the one for the side of the element it is on.
\* With a delay for hiding alone an old timer may go off after the next show().
PointerInv ==
    /\ hoverTimer \in {"none", "in", "out"}
    /\ trigger = "hover" /\ delayed # {"hide"} =>
          /\ hoverTimer = "none" => (over <=> "in" \in tipHas)
          /\ hoverTimer = "in" => over /\ hoverState = "in"
          /\ hoverTimer = "out" => ~over /\ hoverState = "out"
    /\ delayed \subseteq {"show", "hide"}
    /\ "show" \notin delayed /\ delayed # {"hide"} => hoverTimer = "none"

TipInv == DocumentInv /\ PointerInv

LEMMA TipInvInit == TooltipInit => TipInv
BY DEF TooltipInit, TipInv, DocumentInv, TipIsInDocument, PointerInv

LEMMA ShowKeepsDocument == DocumentInv /\ ShowTip => DocumentInv'
BY DEF DocumentInv, TipIsInDocument, ShowTip

LEMMA HideKeepsDocument == DocumentInv /\ HideTip => DocumentInv'
BY DEF DocumentInv, TipIsInDocument, HideTip

LEMMA UnmovedDocument == DocumentInv /\ Unmoved => DocumentInv'
BY DEF DocumentInv, TipIsInDocument, Unmoved

LEMMA DocumentInvNext ==
    DocumentInv /\ PointerInv /\ [TooltipNext]_tooltipVars => DocumentInv'
<1> SUFFICES ASSUME DocumentInv, PointerInv, [TooltipNext]_tooltipVars PROVE DocumentInv'
  OBVIOUS
<1> USE ShowKeepsDocument, HideKeepsDocument, UnmovedDocument
<1>1. CASE PointerEnters \/ PointerLeaves
  BY <1>1 DEF PointerEnters, PointerLeaves
<1>2. CASE HoverTimer
  <2>1. hoverTimer \in {"in", "out"}
    BY <1>2 DEF HoverTimer, PointerInv
  <2> QED BY <1>2, <2>1 DEF HoverTimer
<1>3. CASE ClickElement
  BY <1>3 DEF ClickElement
<1>4. CASE PageRemoves
  BY <1>4 DEF PageRemoves, DocumentInv, TipIsInDocument
<1>5. CASE TipTransitionEnd
  BY <1>5 DEF TipTransitionEnd, DocumentInv, TipIsInDocument
<1>6. ASSUME NEW n \in 1..MaxHidden, TipTimer(n) PROVE DocumentInv'
  BY <1>6 DEF TipTimer, DocumentInv, TipIsInDocument
<1>7. CASE UNCHANGED tooltipVars
  BY <1>7 DEF tooltipVars, Unmoved
<1> QED BY <1>1, <1>2, <1>3, <1>4, <1>5, <1>6, <1>7 DEF TooltipNext

LEMMA PointerInvNext == PointerInv /\ [TooltipNext]_tooltipVars => PointerInv'
<1> SUFFICES ASSUME PointerInv, [TooltipNext]_tooltipVars PROVE PointerInv'
  OBVIOUS
<1> USE DEF PointerInv
<1>1. CASE PointerEnters
  BY <1>1 DEF PointerEnters, ShowTip, Unmoved
<1>2. CASE PointerLeaves
  BY <1>2 DEF PointerLeaves, HideTip, Unmoved
<1>3. CASE HoverTimer
  <2>1. CASE trigger = "hover" /\ delayed # {"hide"}
    <3>1. /\ hoverTimer = "in" => over /\ ShowTip
          /\ hoverTimer = "out" => ~over /\ HideTip
      BY <1>3, <2>1 DEF HoverTimer
    <3> QED BY <1>3, <2>1, <3>1 DEF HoverTimer, ShowTip, HideTip
  <2>2. CASE ~(trigger = "hover" /\ delayed # {"hide"})
    BY <1>3, <2>2 DEF HoverTimer
  <2> QED BY <2>1, <2>2
<1>4. CASE ClickElement \/ PageRemoves
  BY <1>4 DEF ClickElement, PageRemoves, hoverVars
<1>5. CASE TipTransitionEnd
  BY <1>5 DEF TipTransitionEnd, hoverVars
<1>6. ASSUME NEW n \in 1..MaxHidden, TipTimer(n) PROVE PointerInv'
  BY <1>6 DEF TipTimer, hoverVars
<1>7. CASE UNCHANGED tooltipVars
  BY <1>7 DEF tooltipVars
<1> QED BY <1>1, <1>2, <1>3, <1>4, <1>5, <1>6, <1>7 DEF TooltipNext

\* A tip that counts as shown is in the document and one that does not has
\* left it when no timer is pending; and once the pointer's timers have gone off
\* the tip is shown exactly while the pointer is over the element.
THEOREM TipsAgree == TooltipSpec => []TipAgrees
<1>1. TipInv => TipAgrees
  BY DEF TipInv, DocumentInv, PointerInv, TipAgrees, TipFollowsPointer
<1>2. TipInv /\ [TooltipNext]_tooltipVars => TipInv'
  BY DocumentInvNext, PointerInvNext DEF TipInv
<1> QED BY <1>1, <1>2, TipInvInit, PTL DEF TooltipSpec

-----------------------------------------------------------------------------
(***************************************************************************)
(* The accordion.  A panel on its way to be open has its Collapse object   *)
(* busy, and that is the object that another panel asks; so it stays open  *)
(* until its transition is over, while one that closes may be opened again *)
(* before, by its new object.                                              *)
(***************************************************************************)
Objects == {Kept(p) : p \in Panel} \cup {Forgotten(p) : p \in Panel}
Finish == [object : Objects, opens : BOOLEAN]

CollapseTypes(a) ==
    a \in [open : SUBSET Panel, size : [Panel -> {"auto", "zero", "full"}],
           data : SUBSET Panel, busy : SUBSET Objects, onEnd : [Panel -> Seq(Finish)]]

\* What waits for the transition of a panel.
EndInv(a, p) ==
    /\ \A f \in ToSet(a.onEnd[p]) :
          /\ f.object[1] = p
          /\ f.opens => p \in a.open /\ p \in a.data /\ f.object = Kept(p) /\ Kept(p) \in a.busy
    /\ a.onEnd[p] = <<>> /\ p \in a.open => a.size[p] = "auto"
    /\ p \notin a.open => a.size[p] = "zero"
    /\ a.onEnd[p] # <<>> /\ p \in a.open => \E f \in ToSet(a.onEnd[p]) : f.opens
    /\ \A o \in a.busy : o[1] = p => \E f \in ToSet(a.onEnd[p]) : f.object = o

CollapseInv(a) ==
    /\ \A p, q \in a.open : p = q
    /\ \A p \in a.open \ a.data : Forgotten(p) \notin a.busy
    /\ \A p \in Panel : EndInv(a, p)

LEMMA ObjectFacts ==
    /\ \A p \in Panel : Kept(p) \in Objects /\ Forgotten(p) \in Objects
    /\ \A p : Kept(p)[1] = p /\ Forgotten(p)[1] = p
    /\ \A p, q : Kept(p) # Forgotten(q)
    /\ \A o \in Objects : o[1] \in Panel /\ o \in {Kept(o[1]), Forgotten(o[1])}
<1>1. \A p, q : Kept(p) # Forgotten(q)
  BY DEF Kept, Forgotten
<1>2. \A p : Kept(p)[1] = p /\ Forgotten(p)[1] = p
  BY DEF Kept, Forgotten
<1>3. \A p \in Panel : Kept(p) \in Objects /\ Forgotten(p) \in Objects
  BY DEF Objects
<1>4. \A o \in Objects : o[1] \in Panel /\ o \in {Kept(o[1]), Forgotten(o[1])}
  BY <1>2 DEF Objects
<1> QED BY <1>1, <1>2, <1>3, <1>4

LEMMA AppendedSet ==
    ASSUME NEW S, NEW s \in Seq(S), NEW e \in S
    PROVE  /\ Append(s, e) \in Seq(S) /\ Append(s, e) # <<>>
           /\ ToSet(Append(s, e)) = ToSet(s) \cup {e}
<1>1. PICK n \in Nat : n = Len(s) /\ DOMAIN s = 1..n
  BY LenProperties
<1>2. /\ Append(s, e) \in Seq(S) /\ Append(s, e) # <<>> /\ Len(Append(s, e)) = n + 1
      /\ \A i \in 1..n : Append(s, e)[i] = s[i]
      /\ Append(s, e)[n + 1] = e
  BY <1>1, AppendProperties
<1>3. DOMAIN Append(s, e) = 1..(n + 1)
  BY <1>2, LenProperties
<1>4. \A i \in 1..(n + 1) : i \in 1..n \/ i = n + 1
  BY <1>1
<1>5. \A i \in 1..n : i \in 1..(n + 1)
  BY <1>1
<1>6. n + 1 \in 1..(n + 1)
  BY <1>1
<1>7. ToSet(s) = {s[i] : i \in 1..n} /\ ToSet(Append(s, e)) = {Append(s, e)[i] : i \in 1..(n + 1)}
  BY <1>1, <1>3 DEF ToSet
<1> QED BY <1>2, <1>4, <1>5, <1>6, <1>7

\* What Transition changes.
Moved(a, b, moved, objects, opens) ==
    /\ CollapseTypes(b) /\ b.data = a.data
    /\ b.busy = a.busy \cup {objects[p] : p \in moved}
    /\ opens => b.open = a.open \cup moved
    /\ ~opens => b.open = a.open \ moved
    /\ \A p \in Panel \ moved : b.size[p] = a.size[p] /\ b.onEnd[p] = a.onEnd[p]
    /\ \A p \in moved :
          /\ b.size[p] = IF opens THEN "full" ELSE "zero"
          /\ b.onEnd[p] # <<>>
          /\ \E f \in Finish : /\ f.object = objects[p] /\ f.opens = opens
                                  /\ ToSet(b.onEnd[p]) = ToSet(a.onEnd[p]) \cup {f}

LEMMA TransitionFacts ==
    ASSUME NEW a, CollapseTypes(a), NEW moved \in SUBSET Panel,
           NEW objects, objects \in [moved -> Objects], NEW opens \in BOOLEAN,
           NEW b, b = Transition(a, objects, opens)
    PROVE  Moved(a, b, moved, objects, opens)
<1> DEFINE f(p) == [object |-> objects[p], opens |-> opens]
           size == [p \in Panel |-> IF p \notin moved THEN a.size[p]
                                    ELSE IF opens THEN "full" ELSE "zero"]
           onEnd == [p \in Panel |-> IF p \notin moved THEN a.onEnd[p] ELSE Append(a.onEnd[p], f(p))]
<1>1. DOMAIN objects = moved /\ \A p \in moved : p \in Panel /\ objects[p] \in Objects
  OBVIOUS
<1>2. /\ a.open \subseteq Panel /\ a.size \in [Panel -> {"auto", "zero", "full"}]
      /\ a.busy \subseteq Objects /\ a.onEnd \in [Panel -> Seq(Finish)] /\ a.data \subseteq Panel
  BY DEF CollapseTypes
<1>3. /\ b.busy = a.busy \cup {objects[p] : p \in moved}
      /\ b.open = IF opens THEN a.open \cup moved ELSE a.open \ moved
      /\ b.data = a.data /\ b.size = size /\ b.onEnd = onEnd
      /\ b = [open |-> b.open, size |-> b.size, data |-> b.data, busy |-> b.busy, onEnd |-> b.onEnd]
  BY <1>1 DEF Transition, CollapseTypes
<1>4. \A p \in moved : f(p) \in Finish
  BY <1>1 DEF Finish
<1> HIDE DEF f
<1>5. \A p \in moved : /\ onEnd[p] = Append(a.onEnd[p], f(p)) /\ onEnd[p] \in Seq(Finish) /\ onEnd[p] # <<>>
                       /\ ToSet(onEnd[p]) = ToSet(a.onEnd[p]) \cup {f(p)}
  <2> TAKE p \in moved
  <2>1. a.onEnd[p] \in Seq(Finish) /\ f(p) \in Finish /\ onEnd[p] = Append(a.onEnd[p], f(p))
    BY <1>1, <1>2, <1>4
  <2> HIDE DEF onEnd
  <2> QED BY <2>1, AppendedSet
<1>6. onEnd \in [Panel -> Seq(Finish)] /\ size \in [Panel -> {"auto", "zero", "full"}]
  <2>1. \A p \in Panel : onEnd[p] \in Seq(Finish)
    BY <1>2, <1>5
  <2> QED BY <1>2, <2>1
<1> HIDE DEF onEnd
<1>7. CollapseTypes(b)
  BY <1>1, <1>2, <1>3, <1>6 DEF CollapseTypes
<1> USE DEF onEnd
<1>8. \A p \in Panel \ moved : b.size[p] = a.size[p] /\ b.onEnd[p] = a.onEnd[p]
  BY <1>3
<1>9. \A p \in moved : b.size[p] = IF opens THEN "full" ELSE "zero"
  BY <1>1, <1>3
<1> HIDE DEF onEnd
<1>10. \A p \in moved : b.onEnd[p] # <<>> /\ ToSet(b.onEnd[p]) = ToSet(a.onEnd[p]) \cup {f(p)}
  BY <1>3, <1>5
<1>11. \A p \in moved : f(p).object = objects[p] /\ f(p).opens = opens
  BY DEF f
<1> QED BY <1>3, <1>4, <1>7, <1>8, <1>9, <1>10, <1>11 DEF Moved

\* Panels that close, by objects that are not busy.
LEMMA ClosedInv ==
    ASSUME NEW a, CollapseTypes(a), CollapseInv(a), NEW moved \in SUBSET a.open,
           NEW objects, objects \in [moved -> Objects],
           \A p \in moved : /\ objects[p] \in {Kept(p), Forgotten(p)} \ a.busy
                            /\ p \in a.data => objects[p] = Kept(p),
           NEW b, b = Transition(a, objects, FALSE)
    PROVE  CollapseTypes(b) /\ CollapseInv(b)
<1>0. moved \in SUBSET Panel
  BY DEF CollapseTypes
<1>1. /\ CollapseTypes(b) /\ b.data = a.data
      /\ b.busy = a.busy \cup {objects[p] : p \in moved}
      /\ b.open = a.open \ moved
      /\ \A p \in Panel \ moved : b.size[p] = a.size[p] /\ b.onEnd[p] = a.onEnd[p]
      /\ \A p \in moved :
            /\ b.size[p] = "zero" /\ b.onEnd[p] # <<>>
            /\ \E f \in Finish : /\ f.object = objects[p] /\ ~f.opens
                                    /\ ToSet(b.onEnd[p]) = ToSet(a.onEnd[p]) \cup {f}
  <2>1. PICK opens \in BOOLEAN : ~opens /\ b = Transition(a, objects, opens)
    OBVIOUS
  <2>2. Moved(a, b, moved, objects, opens)
    BY <1>0, <2>1, TransitionFacts
  <2> QED BY <2>1, <2>2 DEF Moved
<1>2. \A p \in moved : objects[p][1] = p
  BY ObjectFacts
<1>3. ASSUME NEW p \in moved PROVE EndInv(b, p)
  <2>1. p \in Panel /\ EndInv(a, p) /\ p \in a.open /\ p \notin b.open
    BY <1>0, <1>1, <1>3 DEF CollapseInv
  <2>2. \A f \in ToSet(a.onEnd[p]) : ~f.opens
    BY <1>3, <2>1 DEF EndInv
  <2>5. PICK g \in Finish : /\ g.object = objects[p] /\ ~g.opens
                                /\ ToSet(b.onEnd[p]) = ToSet(a.onEnd[p]) \cup {g}
    BY <1>1, <1>3
  <2>3. \A f \in ToSet(b.onEnd[p]) : f.object[1] = p /\ ~f.opens
    BY <1>2, <1>3, <2>1, <2>2, <2>5 DEF EndInv
  <2>4. ASSUME NEW o \in b.busy, o[1] = p PROVE \E f \in ToSet(b.onEnd[p]) : f.object = o
    <3>1. CASE o \in a.busy
      BY <2>1, <2>4, <2>5, <3>1 DEF EndInv
    <3>2. CASE o \notin a.busy
      <4>1. PICK q \in moved : o = objects[q]
        BY <1>1, <2>4, <3>2
      <4>2. q = p
        BY <1>2, <2>4, <4>1
      <4> QED BY <2>5, <4>1, <4>2
    <3> QED BY <3>1, <3>2
  <2> QED BY <1>1, <1>3, <2>1, <2>3, <2>4 DEF EndInv
<1>4. ASSUME NEW p \in Panel \ moved PROVE EndInv(b, p)
  <2>1. EndInv(a, p) /\ (p \in a.open <=> p \in b.open)
    BY <1>1, <1>4 DEF CollapseInv
  <2>2. ASSUME NEW o \in b.busy, o[1] = p PROVE o \in a.busy
    <3>1. o \in a.busy \/ \E q \in moved : o = objects[q]
      BY <1>1
    <3> QED BY <1>2, <1>4, <2>2, <3>1
  <2> QED BY <1>1, <1>4, <2>1, <2>2 DEF EndInv
<1>5. \A p, q \in b.open : p = q
  BY <1>1 DEF CollapseInv
<1>6. \A p \in b.open \ b.data : Forgotten(p) \notin b.busy
  <2> TAKE p \in b.open \ b.data
  <2>1. p \in a.open \ a.data /\ p \notin moved
    BY <1>1
  <2>2. \A q \in moved : objects[q] # Forgotten(p)
    BY <1>2, <2>1, ObjectFacts
  <2> QED BY <1>1, <2>1, <2>2 DEF CollapseInv
<1> QED BY <1>1, <1>3, <1>4, <1>5, <1>6 DEF CollapseInv

\* A panel that opens when none is open.
LEMMA OpenedInv ==
    ASSUME NEW a, CollapseTypes(a), CollapseInv(a), a.open = {}, NEW p \in Panel, Kept(p) \notin a.busy,
           NEW t, t = Transition(a, [q \in {p} |-> Kept(p)], TRUE),
           NEW b, b = [t EXCEPT !.data = @ \cup {p}]
    PROVE  CollapseTypes(b) /\ CollapseInv(b)
<1> DEFINE objects == [q \in {p} |-> Kept(p)]
<1>1. objects \in [{p} -> Objects] /\ objects[p] = Kept(p) /\ {p} \in SUBSET Panel
  BY ObjectFacts
<1>2. t = Transition(a, objects, TRUE)
  OBVIOUS
<1> HIDE DEF objects
<1>3. /\ CollapseTypes(t) /\ t.data = a.data
      /\ t.busy = a.busy \cup {Kept(p)} /\ t.open = {p}
      /\ \A q \in Panel \ {p} : t.size[q] = a.size[q] /\ t.onEnd[q] = a.onEnd[q]
      /\ t.onEnd[p] # <<>>
      /\ \E f \in Finish : /\ f.object = Kept(p) /\ f.opens
                              /\ ToSet(t.onEnd[p]) = ToSet(a.onEnd[p]) \cup {f}
  <2>1. PICK opens \in BOOLEAN : opens /\ t = Transition(a, objects, opens)
    BY <1>2
  <2>2. Moved(a, t, {p}, objects, opens)
    <3>1. PICK moved \in SUBSET Panel : moved = {p} /\ objects \in [moved -> Objects]
      BY <1>1
    <3>2. Moved(a, t, moved, objects, opens)
      BY <2>1, <3>1, TransitionFacts
    <3> QED BY <3>1, <3>2
  <2>3. t.busy = a.busy \cup {objects[p]} /\ p \in {p}
    <3>1. {objects[q] : q \in {p}} = {objects[p]}
      OBVIOUS
    <3> QED BY <2>2, <3>1 DEF Moved
  <2> QED BY <1>1, <2>1, <2>2, <2>3 DEF Moved
<1>4. /\ CollapseTypes(b) /\ b.data = a.data \cup {p} /\ b.busy = a.busy \cup {Kept(p)}
      /\ b.open = {p} /\ b.size = t.size /\ b.onEnd = t.onEnd
  BY <1>3 DEF CollapseTypes
<1>7. PICK g \in Finish : /\ g.object = Kept(p) /\ g.opens
                              /\ ToSet(b.onEnd[p]) = ToSet(a.onEnd[p]) \cup {g}
  BY <1>3, <1>4
<1>5. EndInv(b, p)
  <2>1. EndInv(a, p)
    BY DEF CollapseInv
  <2>2. \A f \in ToSet(b.onEnd[p]) :
            f.object[1] = p /\ (f.opens => f.object = Kept(p))
    BY <1>7, <2>1, ObjectFacts DEF EndInv
  <2>3. \E f \in ToSet(b.onEnd[p]) : f.opens /\ f.object = Kept(p)
    BY <1>7
  <2>4. \A o \in b.busy : o[1] = p => \E f \in ToSet(b.onEnd[p]) : f.object = o
    BY <1>4, <1>7, <2>1, <2>3 DEF EndInv
  <2>5. p \in b.open /\ p \in b.data /\ b.onEnd[p] # <<>> /\ Kept(p) \in b.busy
    BY <1>3, <1>4
  <2>6. \A f \in ToSet(b.onEnd[p]) :
            /\ f.object[1] = p
            /\ f.opens => p \in b.open /\ p \in b.data /\ f.object = Kept(p) /\ Kept(p) \in b.busy
    BY <2>2, <2>5
  <2>7. \E f \in ToSet(b.onEnd[p]) : f.opens
    BY <2>3
  <2> QED BY <2>4, <2>5, <2>6, <2>7, Zenon DEF EndInv
<1>6. ASSUME NEW q \in Panel \ {p} PROVE EndInv(b, q)
  <2>1. EndInv(a, q) /\ q \notin b.open /\ q \notin a.open /\ Kept(p)[1] # q
    BY <1>4, <1>6, ObjectFacts DEF CollapseInv
  <2>2. b.onEnd[q] = a.onEnd[q] /\ b.size[q] = a.size[q]
    <3>1. t.onEnd[q] = a.onEnd[q] /\ t.size[q] = a.size[q]
      BY <1>3
    <3>2. b.onEnd = t.onEnd /\ b.size = t.size
      BY <1>4
    <3> QED BY <3>1, <3>2, Zenon
  <2>3. \A f \in ToSet(b.onEnd[q]) : f.object[1] = q /\ ~f.opens
    BY <2>1, <2>2 DEF EndInv
  <2>4. \A o \in b.busy : o[1] = q => \E f \in ToSet(b.onEnd[q]) : f.object = o
    BY <1>4, <2>1, <2>2 DEF EndInv
  <2>5. b.size[q] = "zero"
    BY <2>1, <2>2 DEF EndInv
  <2> QED BY <2>1, <2>3, <2>4, <2>5, Zenon DEF EndInv
<1> QED BY <1>4, <1>5, <1>6 DEF CollapseInv

LEMMA CollapseNextInv ==
    CollapseTypes(accordion) /\ CollapseInv(accordion) /\ [CollapseNext]_accordion
        => (CollapseTypes(accordion) /\ CollapseInv(accordion))'
<1> SUFFICES ASSUME CollapseTypes(accordion), CollapseInv(accordion), [CollapseNext]_accordion
             PROVE  (CollapseTypes(accordion) /\ CollapseInv(accordion))'
  OBVIOUS
<1>1. PICK a : a = accordion
  OBVIOUS
<1>2. CollapseTypes(a) /\ CollapseInv(a)
  BY <1>1
<1> DEFINE Good(b) == CollapseTypes(b) /\ CollapseInv(b)
<1>3. ASSUME NEW p \in Panel, NEW t, Good(t) PROVE Good([t EXCEPT !.data = @ \cup {p}])
  <2> DEFINE b == [t EXCEPT !.data = @ \cup {p}]
  <2>1. /\ CollapseTypes(b) /\ b.data = t.data \cup {p} /\ b.open = t.open /\ b.size = t.size
        /\ b.busy = t.busy /\ b.onEnd = t.onEnd
    BY <1>3 DEF CollapseTypes
  <2> HIDE DEF b
  <2>2. CollapseInv(b)
    BY <1>3, <2>1 DEF CollapseInv, EndInv
  <2> QED BY <2>1, <2>2 DEF b
<1>4. ASSUME NEW p \in Panel, ClickHeader(p) PROVE Good(accordion')
  <2>1. PICK t : /\ t = IF p \in a.open THEN HidePanel(a, p) ELSE ShowPanel(a, p)
                 /\ accordion' = [t EXCEPT !.data = @ \cup {p}]
    BY <1>1, <1>4 DEF ClickHeader
  <2>2. CASE t = a
    BY <1>2, <1>3, <2>1, <2>2
  <2>3. CASE p \in a.open /\ t # a
    <3> DEFINE objects == [q \in {p} |-> Kept(p)]
    <3>1. t = Transition(a, objects, FALSE) /\ Kept(p) \notin a.busy
      BY <2>1, <2>3 DEF HidePanel
    <3>2. objects \in [{p} -> Objects] /\ \A q \in {p} : objects[q] = Kept(q)
      BY ObjectFacts
    <3> HIDE DEF objects
    <3>3. {p} \in SUBSET a.open
      BY <2>3
    <3>4. Good(t)
      BY <1>2, <3>1, <3>2, <3>3, ClosedInv
    <3> QED BY <1>3, <2>1, <3>4
  <2>4. CASE p \notin a.open /\ t # a
    <3>1. /\ t = Transition(HideOpen(a), [q \in {p} |-> Kept(p)], TRUE)
          /\ Kept(p) \notin a.busy /\ \A q \in a.open : q \in a.data => Kept(q) \notin a.busy
      BY <2>1, <2>4 DEF ShowPanel
    <3> DEFINE object == [q \in a.open |-> IF q \in a.data THEN Kept(q) ELSE Forgotten(q)]
               moved == {q \in a.open : object[q] \notin a.busy}
               objects == [q \in moved |-> object[q]]
    <3>2. PICK h : h = HideOpen(a)
      OBVIOUS
    <3>3. h = Transition(a, objects, FALSE)
      BY <3>2 DEF HideOpen
    <3>4. moved = a.open
      <4> SUFFICES ASSUME NEW q \in a.open PROVE object[q] \notin a.busy
        OBVIOUS
      <4> QED BY <1>2, <3>1 DEF CollapseInv
    <3>5. a.open \subseteq Panel
      BY <1>2 DEF CollapseTypes
    <3>6. \A q \in a.open : objects[q] = IF q \in a.data THEN Kept(q) ELSE Forgotten(q)
      BY <3>4
    <3>7. objects \in [a.open -> Objects]
      BY <3>4, <3>5, <3>6, ObjectFacts
    <3>8. \A q \in a.open : objects[q] \notin a.busy
      BY <3>4
    <3> HIDE DEF object, moved, objects
    <3>9. Good(h)
      BY <1>2, <3>3, <3>6, <3>7, <3>8, ClosedInv
    <3>10. h.open = {} /\ h.busy = a.busy \cup {objects[q] : q \in a.open}
      <4>1. PICK opens \in BOOLEAN : ~opens /\ h = Transition(a, objects, opens)
        BY <3>3
      <4>2. Moved(a, h, a.open, objects, opens)
        BY <1>2, <3>5, <3>7, <4>1, TransitionFacts
      <4> QED BY <4>1, <4>2 DEF Moved
    <3>11. \A q \in a.open : objects[q] # Kept(p)
      BY <2>4, <3>6, ObjectFacts
    <3>12. Kept(p) \notin h.busy
      BY <3>1, <3>10, <3>11
    <3> QED BY <2>1, <3>1, <3>2, <3>9, <3>10, <3>12, OpenedInv
  <2> QED BY <2>2, <2>3, <2>4
<1>5. ASSUME NEW p \in Panel, PanelTransitionEnd(p) PROVE Good(accordion')
  <2> DEFINE done == ToSet(a.onEnd[p])
  <2>1. PICK b : b = accordion'
    OBVIOUS
  <2>2. b = [a EXCEPT !.onEnd[p] = <<>>, !.busy = @ \ {f.object : f \in done},
                      !.size[p] = IF \E f \in done : f.opens THEN "auto" ELSE @]
    BY <1>1, <1>5, <2>1 DEF PanelTransitionEnd
  <2>3. a.onEnd[p] # <<>>
    BY <1>1, <1>5 DEF PanelTransitionEnd
  <2> HIDE DEF done
  <2>4. /\ b.onEnd = [a.onEnd EXCEPT ![p] = <<>>] /\ b.busy = a.busy \ {f.object : f \in done}
        /\ b.size = [a.size EXCEPT ![p] = IF \E f \in done : f.opens THEN "auto" ELSE @]
        /\ b.open = a.open /\ b.data = a.data
        /\ b = [open |-> b.open, size |-> b.size, data |-> b.data, busy |-> b.busy, onEnd |-> b.onEnd]
    BY <1>2, <2>2 DEF CollapseTypes
  <2>5. CollapseTypes(b)
    <3>1. <<>> \in Seq(Finish)
      OBVIOUS
    <3>2. b.onEnd \in [Panel -> Seq(Finish)]
      BY <1>2, <2>4, <3>1 DEF CollapseTypes
    <3>3. b.size \in [Panel -> {"auto", "zero", "full"}]
      BY <1>2, <2>4 DEF CollapseTypes
    <3>4. b.open \subseteq Panel /\ b.data \subseteq Panel /\ b.busy \subseteq Objects
      BY <1>2, <2>4 DEF CollapseTypes
    <3> QED BY <2>4, <3>2, <3>3, <3>4 DEF CollapseTypes
  <2>6. EndInv(b, p)
    <3>1. b.onEnd[p] = <<>> /\ ToSet(b.onEnd[p]) = {} /\ b.size[p] = IF \E f \in done : f.opens THEN "auto" ELSE a.size[p]
      BY <1>2, <2>4 DEF CollapseTypes, ToSet
    <3>2. EndInv(a, p)
      BY <1>2 DEF CollapseInv
    <3>3. \A o \in b.busy : o[1] # p
      BY <2>4, <3>2 DEF EndInv, done
    <3>4. p \in b.open <=> \E f \in done : f.opens
      BY <2>3, <2>4, <3>2 DEF EndInv, done
    <3> QED BY <2>4, <3>1, <3>2, <3>3, <3>4 DEF EndInv
  <2>7. ASSUME NEW q \in Panel \ {p} PROVE EndInv(b, q)
    <3>1. b.onEnd[q] = a.onEnd[q] /\ b.size[q] = a.size[q] /\ EndInv(a, q)
      BY <1>2, <2>4 DEF CollapseTypes, CollapseInv
    <3>2. \A f \in done : f.object # Kept(q)
      <4>1. \A f \in done : f.object[1] = p
        BY <1>2 DEF CollapseInv, EndInv, done
      <4> QED BY <4>1, ObjectFacts
    <3> QED BY <2>4, <3>1, <3>2 DEF EndInv
  <2>8. CollapseInv(b)
    BY <1>2, <2>4, <2>6, <2>7 DEF CollapseInv
  <2> QED BY <2>1, <2>5, <2>8
<1>6. CASE UNCHANGED accordion
  BY <1>6
<1> QED BY <1>4, <1>5, <1>6 DEF CollapseNext

\* CollapseAgrees, whatever the number of panels.
THEOREM OnePanelOpen == CollapseSpec => []CollapseAgrees
<1>1. CollapseInit => CollapseTypes(accordion) /\ CollapseInv(accordion)
  <2> SUFFICES ASSUME NEW open \in {{p} : p \in Panel} \cup {{}},
                      accordion = [open |-> open,
                                   size |-> [p \in Panel |-> IF p \in open THEN "auto" ELSE "zero"],
                                   data |-> {}, busy |-> {}, onEnd |-> [p \in Panel |-> <<>>]]
               PROVE  CollapseTypes(accordion) /\ CollapseInv(accordion)
    BY DEF CollapseInit
  <2>1. open \subseteq Panel /\ \A p, q \in open : p = q
    OBVIOUS
  <2>2. [p \in Panel |-> <<>>] \in [Panel -> Seq(Finish)]
    OBVIOUS
  <2>3. CollapseTypes(accordion)
    BY <2>1, <2>2 DEF CollapseTypes
  <2>4. \A p \in Panel : EndInv(accordion, p)
    BY DEF EndInv, ToSet
  <2> QED BY <2>1, <2>3, <2>4 DEF CollapseInv
<1>2. CollapseTypes(accordion) /\ CollapseInv(accordion) => CollapseAgrees
  <2> SUFFICES ASSUME CollapseTypes(accordion), CollapseInv(accordion) PROVE CollapseAgrees
    OBVIOUS
  <2>1. Cardinality(accordion.open) <= 1
    <3>1. CASE accordion.open = {}
      BY <3>1, FS_EmptySet
    <3>2. CASE accordion.open # {}
      <4>1. PICK p : accordion.open = {p}
        BY <3>2 DEF CollapseInv
      <4> QED BY <4>1, FS_Singleton
    <3> QED BY <3>1, <3>2
  <2>2. \A p \in Panel : accordion.onEnd[p] = <<>> =>
            accordion.size[p] = IF p \in accordion.open THEN "auto" ELSE "zero"
    BY DEF CollapseInv, EndInv
  <2>3. \A o \in accordion.busy : \E f \in ToSet(accordion.onEnd[o[1]]) : f.object = o
    BY ObjectFacts DEF CollapseInv, EndInv, CollapseTypes
  <2> QED BY <2>1, <2>2, <2>3 DEF CollapseAgrees
<1> QED BY <1>1, <1>2, CollapseNextInv, PTL DEF CollapseSpec

-----------------------------------------------------------------------------
Ends == [to : Tab, from : SUBSET Tab]

TabsStates ==
    [chosen : Tab, active : SUBSET Tab, in : SUBSET Tab, fade : SUBSET Tab,
     onEnd : [Tab -> Seq(Ends)], calm : BOOLEAN]

\* Nothing waits.
Settled(s) ==
    /\ \A p \in Tab : s.onEnd[p] = <<>>
    /\ s.active = {s.chosen}
    /\ s.chosen \in s.in \/ s.chosen \notin s.fade

\* The pane p is to be replaced by that of the chosen tab.
Fading(s, p) ==
    /\ p # s.chosen /\ s.active = {p}
    /\ s.onEnd[p] = <<[to |-> s.chosen, from |-> {p}]>>
    /\ \A q \in Tab \ {p} : s.onEnd[q] = <<>>

TabsInv(s) == s.calm => Settled(s) \/ \E p \in Tab : Fading(s, p)

\* What NextPane changes.
Replaced(s, f, fading, u) ==
    /\ u \in TabsStates /\ u.chosen = s.chosen /\ u.calm = s.calm /\ u.onEnd = s.onEnd
    /\ u.active = (s.active \ f.from) \cup {f.to}
    /\ fading => u.in = s.in \cup {f.to} /\ u.fade = s.fade
    /\ ~fading => u.in = s.in /\ u.fade = s.fade \ {f.to}

LEMMA NextPaneFacts ==
    ASSUME NEW s \in TabsStates, NEW f \in Ends, NEW fading \in BOOLEAN
    PROVE  Replaced(s, f, fading, NextPane(s, f, fading))
BY DEF NextPane, Replaced, TabsStates, Ends

\* All that waited for the end of a pane's transition.
LEMMA PaneEnds ==
    ASSUME NEW s \in TabsStates, s = tabs, NEW p \in Tab, PaneTransitionEnd(p),
           NEW n \in Nat, n = Len(s.onEnd[p])
    PROVE  /\ tabs' \in TabsStates /\ tabs'.calm = s.calm
           /\ n = 1 => tabs' = NextPane([s EXCEPT !.onEnd[p] = <<>>], s.onEnd[p][1], TRUE)
<1> DEFINE base == [s EXCEPT !.onEnd[p] = <<>>]
           within == [i \in 0..n |-> {x \in TabsStates : x.calm = s.calm}]
           ended == s.onEnd[p]
           e(h, i) == IF i = 0 THEN base ELSE NextPane(h[i - 1], ended[i], TRUE)
           step == [i \in 1..n |-> [x \in TabsStates |-> NextPane(x, ended[i], TRUE)]]
           after == CHOOSE h : h = [i \in 0..n |-> e(h, i)]
<1>1. tabs' = after[n]
  BY DEF PaneTransitionEnd
<1>2. ended \in Seq(Ends) /\ \A i \in 1..n : ended[i] \in Ends
  <2>1. ended \in Seq(Ends)
    BY DEF TabsStates
  <2> HIDE DEF ended
  <2>2. n = Len(ended)
    BY DEF ended
  <2> QED BY <2>1, <2>2, ElementOfSeq
<1>3. base \in TabsStates /\ base.calm = s.calm
  <2>1. <<>> \in Seq(Ends)
    OBVIOUS
  <2> QED BY <2>1 DEF TabsStates
<1> HIDE DEF base, ended
<1>4. \A i \in 1..n : \A x \in TabsStates :
          /\ step[i][x] = NextPane(x, ended[i], TRUE)
          /\ step[i][x] \in TabsStates /\ step[i][x].calm = x.calm
  <2> TAKE i \in 1..n
  <2> TAKE x \in TabsStates
  <2>1. PICK fading \in BOOLEAN : fading = TRUE
    OBVIOUS
  <2>2. step[i][x] = NextPane(x, ended[i], fading)
    BY <2>1
  <2>3. Replaced(x, ended[i], fading, NextPane(x, ended[i], fading))
    BY <1>2, NextPaneFacts
  <2> QED BY <2>1, <2>2, <2>3 DEF Replaced
<1>5. \A i \in 0..n : within[i] = {x \in TabsStates : x.calm = s.calm}
  OBVIOUS
<1>6. \A i \in 1..n : i - 1 \in 0..n /\ i \in 0..n
  OBVIOUS
<1>7. 0 \in 0..n /\ n \in 0..n
  OBVIOUS
<1> HIDE DEF step, within
<1>8. base \in within[0]
  BY <1>3, <1>5, <1>7
<1>9. \A i \in 1..n : \A x \in within[i - 1] : step[i][x] \in within[i]
  <2> TAKE i \in 1..n
  <2>1. within[i - 1] = {x \in TabsStates : x.calm = s.calm} /\ within[i] = within[i - 1]
    BY <1>5, <1>6
  <2> QED BY <1>4, <2>1
<1>10. PICK g : IsRun(g, n, base, step) /\ \A i \in 0..n : g[i] \in within[i]
  BY <1>8, <1>9, RunExists
<1>11. g = [i \in 0..n |-> e(g, i)]
  <2>1. \A i \in 0..n : (IF i = 0 THEN base ELSE step[i][g[i - 1]]) = e(g, i)
    <3> TAKE i \in 0..n
    <3>1. CASE i = 0
      BY <3>1
    <3>2. CASE i # 0
      <4>1. i \in 1..n /\ i - 1 \in 0..n
        BY <3>2
      <4>2. g[i - 1] \in TabsStates
        BY <1>5, <1>10, <4>1
      <4> QED BY <1>4, <3>2, <4>1, <4>2
    <3> QED BY <3>1, <3>2
  <2> QED BY <1>10, <2>1 DEF IsRun
<1>12. after = [i \in 0..n |-> e(after, i)]
  BY <1>11
<1> HIDE DEF after
<1>13. \A i \in 0..n : after[i] = e(after, i)
  BY <1>12
<1>14. \A i \in 0..n : after[i] \in within[i]
  <2>1. after[0] \in within[0]
    BY <1>7, <1>8, <1>13
  <2>2. \A i \in 1..n : after[i - 1] \in within[i - 1] => after[i] \in within[i]
    <3> TAKE i \in 1..n
    <3> HAVE after[i - 1] \in within[i - 1]
    <3>1. after[i - 1] \in TabsStates
      BY <1>5, <1>6
    <3>2. after[i] = NextPane(after[i - 1], ended[i], TRUE)
      <4>1. i \in 0..n /\ i # 0
        OBVIOUS
      <4>2. after[i] = e(after, i)
        BY <1>13, <4>1
      <4> QED BY <4>1, <4>2
    <3>3. after[i] = step[i][after[i - 1]]
      BY <1>4, <3>1, <3>2
    <3> QED BY <1>9, <3>3
  <2> QED BY <2>1, <2>2, RunStays
<1>15. tabs' \in within[n]
  BY <1>1, <1>7, <1>14
<1>16. ASSUME n = 1 PROVE tabs' = NextPane(base, ended[1], TRUE)
  <2>1. after[1] = NextPane(after[0], ended[1], TRUE) /\ after[0] = base
    <3>1. 1 \in 0..n /\ 0 \in 0..n /\ 1 - 1 = 0
      BY <1>16
    <3>2. after[1] = e(after, 1) /\ after[0] = e(after, 0)
      BY <1>13, <3>1
    <3>3. after[1] = NextPane(after[1 - 1], ended[1], TRUE)
      <4>1. 1 # 0
        OBVIOUS
      <4> QED BY <3>2, <4>1, Zenon
    <3>4. after[0] = base
      BY <3>2
    <3> QED BY <3>1, <3>3, <3>4, Zenon
  <2> QED BY <1>1, <1>16, <2>1
<1> QED BY <1>5, <1>7, <1>15, <1>16 DEF base, ended

LEMMA TabsNextInv ==
    tabs \in TabsStates /\ TabsInv(tabs) /\ [TabsNext]_tabs => (tabs \in TabsStates /\ TabsInv(tabs))'
<1> SUFFICES ASSUME tabs \in TabsStates, TabsInv(tabs), [TabsNext]_tabs
             PROVE  tabs' \in TabsStates /\ TabsInv(tabs')
  OBVIOUS
<1>0. PICK s \in TabsStates : s = tabs
  OBVIOUS
<1>1. TabsInv(s)
  BY <1>0
<1>2. ASSUME NEW t \in Tab, ClickTab(t) PROVE tabs' \in TabsStates /\ TabsInv(tabs')
  <2> DEFINE waits == \E p \in Tab : s.onEnd[p] # <<>>
             c == [s EXCEPT !.chosen = t, !.calm = @ /\ ~waits]
  <2>1. tabs' = ActivatePane(c, t) /\ t # s.chosen
    BY <1>0, <1>2 DEF ClickTab
  <2>2. c \in TabsStates /\ c.active = s.active /\ c.fade = s.fade /\ c.in = s.in /\ c.onEnd = s.onEnd
        /\ c.chosen = t /\ (c.calm <=> s.calm /\ ~waits)
    <3>1. (s.calm /\ ~waits) \in BOOLEAN
      OBVIOUS
    <3> HIDE DEF waits
    <3> QED BY <3>1 DEF TabsStates
  <2> HIDE DEF waits, c
  <2> DEFINE next == [to |-> t, from |-> c.active]
             fading == c.active \cap c.fade # {}
             onEnd == [p \in Tab |-> IF p \in c.active THEN Append(c.onEnd[p], next) ELSE c.onEnd[p]]
             later == [c EXCEPT !.onEnd = onEnd]
             there == IF fading THEN later ELSE NextPane(c, next, FALSE)
  <2>3. next \in Ends /\ next.to = t /\ next.from = c.active
    BY <2>2 DEF TabsStates, Ends
  <2>4. tabs' = [there EXCEPT !.in = @ \ c.active]
    BY <2>1 DEF ActivatePane
  <2>5. onEnd \in [Tab -> Seq(Ends)]
    <3> HIDE DEF next
    <3>1. c.onEnd \in [Tab -> Seq(Ends)]
      BY <2>2 DEF TabsStates
    <3>2. \A p \in Tab : Append(c.onEnd[p], next) \in Seq(Ends)
      BY <2>3, <3>1, AppendProperties
    <3> QED BY <3>1, <3>2
  <2>6. /\ later \in TabsStates /\ later.chosen = t /\ later.calm = c.calm /\ later.onEnd = onEnd
        /\ later.active = c.active /\ later.in = c.in /\ later.fade = c.fade
    <3> HIDE DEF onEnd
    <3> QED BY <2>2, <2>5 DEF TabsStates
  <2>7. /\ NextPane(c, next, FALSE) \in TabsStates
        /\ NextPane(c, next, FALSE).chosen = t /\ NextPane(c, next, FALSE).calm = c.calm
        /\ NextPane(c, next, FALSE).onEnd = c.onEnd
        /\ NextPane(c, next, FALSE).active = (c.active \ c.active) \cup {t}
        /\ NextPane(c, next, FALSE).fade = c.fade \ {t}
    <3>1. PICK opens \in BOOLEAN : ~opens /\ opens = FALSE
      OBVIOUS
    <3>2. PICK f \in Ends : f = next
      BY <2>3
    <3>3. PICK u : u = NextPane(c, f, opens)
      OBVIOUS
    <3>4. Replaced(c, f, opens, u)
      BY <2>2, <3>3, NextPaneFacts
    <3>5. u = NextPane(c, next, FALSE)
      BY <3>1, <3>2, <3>3
    <3> HIDE DEF next, onEnd, later
    <3>6. u \in TabsStates /\ u.chosen = t /\ u.calm = c.calm /\ u.onEnd = c.onEnd
          /\ u.active = (c.active \ c.active) \cup {t} /\ u.fade = c.fade \ {t}
      BY <2>2, <2>3, <3>1, <3>2, <3>4 DEF Replaced
    <3> QED BY <3>5, <3>6
  <2> HIDE DEF next, onEnd, later
  <2>8. there \in TabsStates /\ there.chosen = t /\ there.calm = c.calm
    BY <2>6, <2>7
  <2>9. /\ tabs' \in TabsStates /\ tabs'.chosen = t /\ tabs'.calm = c.calm
        /\ tabs'.active = there.active /\ tabs'.fade = there.fade /\ tabs'.onEnd = there.onEnd
    <3> HIDE DEF there
    <3> QED BY <2>4, <2>8 DEF TabsStates
  <2>10. ASSUME tabs'.calm PROVE Settled(tabs') \/ \E p \in Tab : Fading(tabs', p)
    <3>1. s.calm /\ ~waits /\ Settled(s)
      <4>1. s.calm /\ ~waits
        BY <2>2, <2>9, <2>10
      <4>2. \A p \in Tab : s.onEnd[p] = <<>>
        BY <4>1 DEF waits
      <4>3. \A p \in Tab : ~Fading(s, p)
        BY <4>2 DEF Fading
      <4> QED BY <1>1, <4>1, <4>3 DEF TabsInv
    <3>2. c.active = {s.chosen} /\ s.chosen \in Tab /\ t # s.chosen /\ \A p \in Tab : c.onEnd[p] = <<>>
      BY <2>1, <2>2, <3>1 DEF Settled, TabsStates
    <3>3. CASE fading
      <4>1. tabs'.active = {s.chosen} /\ tabs'.onEnd = onEnd
        BY <2>6, <2>9, <3>2, <3>3
      <4>2. \A q \in Tab \ {s.chosen} : onEnd[q] = <<>>
        BY <3>2 DEF onEnd
      <4>3. onEnd[s.chosen] = Append(<<>>, next)
        BY <3>2 DEF onEnd
      <4>4. Append(<<>>, next) = <<[to |-> t, from |-> {s.chosen}]>>
        BY <3>2 DEF next
      <4>5. Fading(tabs', s.chosen)
        BY <2>9, <3>2, <4>1, <4>2, <4>3, <4>4 DEF Fading
      <4> QED BY <3>2, <4>5
    <3>4. CASE ~fading
      <4>1. tabs'.active = {t} /\ tabs'.onEnd = c.onEnd /\ t \notin tabs'.fade
        BY <2>7, <2>9, <3>4
      <4> QED BY <2>9, <3>2, <4>1 DEF Settled
    <3> QED BY <3>3, <3>4
  <2> QED BY <2>9, <2>10 DEF TabsInv
<1>3. ASSUME NEW p \in Tab, PaneTransitionEnd(p) PROVE tabs' \in TabsStates /\ TabsInv(tabs')
  <2>1. PICK n \in Nat : n = Len(s.onEnd[p])
    <3>1. s.onEnd[p] \in Seq(Ends)
      BY DEF TabsStates
    <3> QED BY <3>1, LenProperties
  <2> DEFINE base == [s EXCEPT !.onEnd[p] = <<>>]
  <2>2. /\ tabs' \in TabsStates /\ tabs'.calm = s.calm
        /\ n = 1 => tabs' = NextPane(base, s.onEnd[p][1], TRUE)
    BY <1>0, <1>3, <2>1, PaneEnds
  <2>3. ASSUME s.calm PROVE Settled(tabs')
    <3>1. p \in s.active /\ s.onEnd[p] # <<>>
      BY <1>0, <1>3 DEF PaneTransitionEnd
    <3>2. Fading(s, p)
      BY <1>1, <2>3, <3>1 DEF TabsInv, Settled, Fading
    <3>3. s.onEnd[p][1] = [to |-> s.chosen, from |-> {p}] /\ n = 1 /\ s.chosen \in Tab
      BY <2>1, <3>2 DEF Fading, TabsStates
    <3>4. /\ base \in TabsStates /\ base.chosen = s.chosen /\ base.active = {p}
          /\ base.onEnd = [s.onEnd EXCEPT ![p] = <<>>]
      <4>1. <<>> \in Seq(Ends)
        OBVIOUS
      <4> QED BY <3>2, <4>1 DEF TabsStates, Fading
    <3> HIDE DEF base
    <3>5. PICK f \in Ends : f = s.onEnd[p][1]
      BY <3>3 DEF Ends
    <3>6. f.to = s.chosen /\ f.from = {p}
      BY <3>3, <3>5
    <3>7. PICK opens \in BOOLEAN : opens = TRUE
      OBVIOUS
    <3>8. tabs' = NextPane(base, f, opens)
      BY <2>2, <3>3, <3>5, <3>7
    <3>9. /\ tabs'.chosen = s.chosen /\ tabs'.onEnd = base.onEnd /\ tabs'.active = {s.chosen}
          /\ s.chosen \in tabs'.in
      <4>1. Replaced(base, f, opens, NextPane(base, f, opens))
        BY <3>4, NextPaneFacts
      <4> QED BY <3>4, <3>6, <3>7, <3>8, <4>1 DEF Replaced
    <3>10. \A q \in Tab : tabs'.onEnd[q] = <<>>
      BY <3>2, <3>4, <3>9 DEF Fading, TabsStates
    <3> QED BY <3>9, <3>10 DEF Settled
  <2> QED BY <2>2, <2>3 DEF TabsInv
<1>4. CASE UNCHANGED tabs
  BY <1>4
<1> QED BY <1>2, <1>3, <1>4 DEF TabsNext

\* TabsAgree, whatever the number of tabs and of clicks.
THEOREM PaneOfChosenTab == TabsSpec => []TabsAgree
<1>1. TabsInit => tabs \in TabsStates /\ TabsInv(tabs)
  <2> SUFFICES ASSUME NEW first \in Tab, NEW fade \in SUBSET Tab,
                      tabs = [chosen |-> first, active |-> {first}, in |-> {first} \cap fade,
                              fade |-> fade, onEnd |-> [t \in Tab |-> <<>>], calm |-> TRUE]
               PROVE  tabs \in TabsStates /\ TabsInv(tabs)
    BY DEF TabsInit
  <2>1. [t \in Tab |-> <<>>] \in [Tab -> Seq(Ends)]
    OBVIOUS
  <2>2. tabs \in TabsStates
    BY <2>1 DEF TabsStates
  <2>3. Settled(tabs)
    BY DEF Settled
  <2> QED BY <2>2, <2>3 DEF TabsInv
<1>2. tabs \in TabsStates /\ TabsInv(tabs) => TabsAgree
  <2> SUFFICES ASSUME tabs \in TabsStates, TabsInv(tabs), tabs.calm PROVE TabsAgree
    BY DEF TabsAgree
  <2>1. CASE Settled(tabs)
    BY <2>1, FS_Singleton DEF Settled, TabsAgree
  <2>2. ASSUME NEW p \in Tab, Fading(tabs, p) PROVE TabsAgree
    <3>1. PICK f : f = [to |-> tabs.chosen, from |-> {p}] /\ tabs.onEnd[p] = <<f>>
      BY <2>2 DEF Fading
    <3>2. f \in ToSet(tabs.onEnd[p]) /\ f.to = tabs.chosen /\ tabs.onEnd[p] # <<>>
      BY <3>1 DEF ToSet
    <3>3. tabs.chosen \notin tabs.active /\ Cardinality(tabs.active) = 1 /\ p \in tabs.active
      BY <2>2, FS_Singleton DEF Fading
    <3> QED BY <3>2, <3>3 DEF TabsAgree
  <2> QED BY <2>1, <2>2 DEF TabsInv
<1> QED BY <1>1, <1>2, TabsNextInv, PTL DEF TabsSpec

-----------------------------------------------------------------------------
Slid == {Indicate} \cup {GoTo(pos) : pos \in Position}

CarouselStates ==
    [active : SUBSET Position, indicators : SUBSET Position, leaving : SUBSET Position,
     coming : Position \cup {NoItem}, sliding : BOOLEAN, paused : BOOLEAN, cycling : BOOLEAN,
     onSlid : Seq(Slid), slidTimers : Nat, prevented : BOOLEAN, hasty : BOOLEAN]

\* Holds whatever scripts do.
Whole(c) ==
    /\ \E i \in Position : c.active = {i}
    /\ c.coming = NoItem => c.leaving = {}
    /\ c.coming # NoItem => c.sliding /\ c.leaving = c.active /\ c.coming \notin c.active
    /\ c.sliding => c.coming # NoItem \/ c.prevented \/ Items = 1
    /\ Items = 1 => c.slidTimers = 0

\* The indicators are out, and the next slid sets them first of all.
Listens(q) == Len(q) > 0 /\ q[1] = Indicate /\ \A i \in 2..Len(q) : q[i].do = "to"

\* Holds until a script prevents a slide or one begins too early.
InOrder(c) ==
    /\ c.coming # NoItem => c.slidTimers = 0
    /\ c.coming = NoItem /\ c.slidTimers > 0 => c.slidTimers = 1
    /\ c.coming # NoItem \/ c.slidTimers > 0 => c.indicators = {} /\ Listens(c.onSlid)
    /\ c.coming = NoItem /\ c.slidTimers = 0 =>
          c.indicators = c.active /\ (c.onSlid = <<>> \/ c.sliding)

CalmCarousel(c) == ~c.prevented /\ ~c.hasty

GoodCarousel(c) == c \in CarouselStates /\ Whole(c) /\ (CalmCarousel(c) => InOrder(c))

-----------------------------------------------------------------------------
LEMMA SlidFacts ==
    /\ Indicate \in Slid /\ Indicate.do = "indicate"
    /\ \A pos \in Position : GoTo(pos) \in Slid /\ GoTo(pos).do = "to" /\ GoTo(pos).pos = pos
    /\ \A f \in Slid : f.do = "to" => f.pos \in Position
    /\ \A f \in Slid : f.do # "to" => f = Indicate
    /\ NoItem \notin Position
<1>1. Indicate \in Slid /\ \A pos \in Position : GoTo(pos) \in Slid
  BY DEF Slid
<1>2. Indicate.do = "indicate" /\ \A pos : GoTo(pos).do = "to" /\ GoTo(pos).pos = pos
  BY DEF Indicate, GoTo
<1>3. "indicate" # "to"
  OBVIOUS
<1>4. \A f \in Slid : f = Indicate \/ \E pos \in Position : f = GoTo(pos)
  BY DEF Slid
<1>5. NoItem \notin Position
  BY CarouselAssumption DEF NoItem, Position
<1> QED BY <1>1, <1>2, <1>3, <1>4, <1>5

LEMMA ListensFacts ==
    /\ Listens(<<Indicate>>) /\ Append(<<>>, Indicate) = <<Indicate>>
    /\ \A q \in Seq(Slid) : \A f \in Slid :
          /\ Append(q, f) \in Seq(Slid)
          /\ Listens(q) /\ f.do = "to" => Listens(Append(q, f))
<1>1. Listens(<<Indicate>>) /\ Append(<<>>, Indicate) = <<Indicate>>
  BY DEF Listens
<1>2. ASSUME NEW q \in Seq(Slid), NEW f \in Slid
      PROVE  Append(q, f) \in Seq(Slid) /\ (Listens(q) /\ f.do = "to" => Listens(Append(q, f)))
  <2>1. PICK n \in Nat : n = Len(q)
    BY LenProperties
  <2>2. /\ Append(q, f) \in Seq(Slid) /\ Len(Append(q, f)) = n + 1
        /\ \A i \in 1..n : Append(q, f)[i] = q[i]
        /\ Append(q, f)[n + 1] = f
    BY <2>1, AppendProperties
  <2> QED BY <2>1, <2>2 DEF Listens
<1> QED BY <1>1, <1>2

\* What Cycle changes, and Pause when nothing slides.
Alike(c, d) ==
    /\ d \in CarouselStates
    /\ d.active = c.active /\ d.indicators = c.indicators /\ d.leaving = c.leaving
    /\ d.coming = c.coming /\ d.sliding = c.sliding /\ d.onSlid = c.onSlid
    /\ d.slidTimers = c.slidTimers /\ d.prevented = c.prevented /\ d.hasty = c.hasty

\* A method keeps the invariant, and does not call what happened off.
Keeps(c, d) == GoodCarousel(d) /\ (CalmCarousel(d) => CalmCarousel(c))

LEMMA AlikeGood ==
    ASSUME NEW c, GoodCarousel(c), NEW d, Alike(c, d)
    PROVE  Keeps(c, d)
BY DEF GoodCarousel, Alike, Keeps, Whole, InOrder, CalmCarousel

LEMMA CycleFacts ==
    ASSUME NEW c \in CarouselStates, NEW byPointer \in BOOLEAN
    PROVE  Alike(c, Cycle(c, byPointer))
<1>1. (byPointer /\ c.paused) \in BOOLEAN
  OBVIOUS
<1>2. PICK paused \in BOOLEAN : paused = (byPointer /\ c.paused)
  BY <1>1
<1>3. Cycle(c, byPointer) = [c EXCEPT !.paused = paused, !.cycling = ~paused]
  BY <1>2 DEF Cycle
<1> QED BY <1>3 DEF Alike, CarouselStates

LEMMA EndSlideGood ==
    ASSUME NEW c, GoodCarousel(c), c.coming # NoItem
    PROVE  Keeps(c, EndSlide(c))
<1> DEFINE d == EndSlide(c)
<1>1. c.coming \in Position /\ c.leaving = c.active /\ c.slidTimers \in Nat
  BY DEF GoodCarousel, CarouselStates, Whole
<1>2. /\ d \in CarouselStates /\ d.active = {c.coming} /\ d.leaving = {} /\ d.coming = NoItem
      /\ ~d.sliding /\ d.slidTimers = c.slidTimers + 1 /\ d.indicators = c.indicators
      /\ d.onSlid = c.onSlid /\ d.prevented = c.prevented /\ d.hasty = c.hasty
  <2>1. PICK active \in SUBSET Position : active = {c.coming} /\ active = (c.active \ c.leaving) \cup {c.coming}
    BY <1>1
  <2>2. PICK left \in Nat : left = c.slidTimers + 1
    BY <1>1
  <2>3. d = [c EXCEPT !.active = active, !.leaving = {}, !.coming = NoItem, !.sliding = FALSE,
                      !.slidTimers = left]
    BY <2>1, <2>2 DEF EndSlide
  <2> HIDE DEF d
  <2> QED BY <2>1, <2>2, <2>3 DEF GoodCarousel, CarouselStates
<1> HIDE DEF d
<1>3. Items # 1
  <2>1. PICK i \in Position : c.active = {i} /\ c.coming # i
    BY DEF GoodCarousel, Whole
  <2> QED BY <1>1, <2>1 DEF Position
<1>4. Whole(d)
  BY <1>1, <1>2, <1>3 DEF Whole
<1>5. CalmCarousel(d) => CalmCarousel(c) /\ InOrder(d)
  BY <1>1, <1>2 DEF CalmCarousel, GoodCarousel, InOrder
<1> QED BY <1>2, <1>4, <1>5 DEF Keeps, GoodCarousel, d

LEMMA PauseFacts ==
    ASSUME NEW c \in CarouselStates, c.coming = NoItem, NEW byPointer \in BOOLEAN
    PROVE  Alike(c, Pause(c, byPointer))
<1>1. PICK paused \in BOOLEAN : paused = (byPointer => c.paused)
  OBVIOUS
<1>2. PICK p : p = [c EXCEPT !.paused = paused]
  OBVIOUS
<1>3. p.coming = NoItem
  BY <1>2 DEF CarouselStates
<1>4. Pause(c, byPointer) = [p EXCEPT !.cycling = FALSE]
  BY <1>1, <1>2 DEF Pause
<1> QED BY <1>2, <1>4 DEF Alike, CarouselStates

LEMMA PauseGood ==
    ASSUME NEW c, GoodCarousel(c), NEW byPointer \in BOOLEAN
    PROVE  Keeps(c, Pause(c, byPointer))
<1>0. c \in CarouselStates
  BY DEF GoodCarousel
<1>1. CASE c.coming = NoItem
  BY <1>0, <1>1, PauseFacts, AlikeGood
<1>2. CASE c.coming # NoItem
  <2>1. PICK paused \in BOOLEAN : paused = (byPointer => c.paused)
    OBVIOUS
  <2>2. PICK p : p = [c EXCEPT !.paused = paused]
    OBVIOUS
  <2>3. Alike(c, p)
    BY <1>0, <2>2 DEF Alike, CarouselStates
  <2>4. Keeps(c, p) /\ p.coming # NoItem
    BY <1>2, <2>3, AlikeGood DEF Alike
  <2>5. Keeps(p, EndSlide(p))
    BY <2>4, EndSlideGood DEF Keeps
  <2>6. PICK e : e = EndSlide(p)
    OBVIOUS
  <2>7. Pause(c, byPointer) = [e EXCEPT !.cycling = FALSE]
    BY <1>2, <2>1, <2>2, <2>6 DEF Pause
  <2>8. Alike(e, [e EXCEPT !.cycling = FALSE])
    BY <2>5, <2>6 DEF Keeps, GoodCarousel, Alike, CarouselStates
  <2>9. Keeps(e, Pause(c, byPointer))
    BY <2>5, <2>6, <2>7, <2>8, AlikeGood DEF Keeps
  <2> QED BY <2>4, <2>5, <2>6, <2>9 DEF Keeps
<1> QED BY <1>1, <1>2

\* Only the one item of a carousel without others may be asked for when it is
\* active.
LEMMA SlideGood ==
    ASSUME NEW c, GoodCarousel(c), ~c.sliding, NEW item \in Position, item \notin c.active \/ Items = 1,
           NEW prevent \in BOOLEAN
    PROVE  Keeps(c, Slide(c, item, prevent))
<1> DEFINE begun == [c EXCEPT !.sliding = TRUE]
           quiet == IF c.cycling THEN Pause(begun, FALSE) ELSE begun
           onSlid == Append(c.onSlid, Indicate)
           indicated == [quiet EXCEPT !.indicators = {}, !.onSlid = Append(@, Indicate),
                                      !.hasty = @ \/ c.slidTimers > 0]
           moving == [indicated EXCEPT !.leaving = c.active, !.coming = item]
           d == Slide(c, item, prevent)
<1>1. c \in CarouselStates /\ c.coming = NoItem
  BY DEF GoodCarousel, Whole
<1>2. begun \in CarouselStates /\ begun.coming = NoItem /\ Alike(begun, begun)
  BY <1>1 DEF CarouselStates, Alike
<1>3. Alike(begun, quiet)
  <2>1. PICK byPointer \in BOOLEAN : byPointer = FALSE
    OBVIOUS
  <2> HIDE DEF begun
  <2>2. Alike(begun, Pause(begun, byPointer))
    BY <1>2, PauseFacts
  <2> QED BY <1>2, <2>1, <2>2
<1>4. /\ quiet \in CarouselStates /\ quiet.active = c.active /\ quiet.indicators = c.indicators
      /\ quiet.leaving = c.leaving /\ quiet.coming = NoItem /\ quiet.sliding
      /\ quiet.onSlid = c.onSlid /\ quiet.slidTimers = c.slidTimers
      /\ quiet.prevented = c.prevented /\ quiet.hasty = c.hasty
  <2> HIDE DEF quiet
  <2> QED BY <1>1, <1>3 DEF Alike, CarouselStates
<1>5. /\ item \in c.active => d = quiet
      /\ item \notin c.active /\ prevent => d = [indicated EXCEPT !.prevented = TRUE]
      /\ item \notin c.active /\ ~prevent => d = IF c.cycling THEN Cycle(moving, FALSE) ELSE moving
  BY DEF Slide, Slides
<1> HIDE DEF quiet, d
<1>6. onSlid \in Seq(Slid)
  BY <1>1, SlidFacts, ListensFacts DEF CarouselStates
<1>7. PICK early \in BOOLEAN : early = (c.hasty \/ c.slidTimers > 0)
  OBVIOUS
<1> HIDE DEF onSlid
<1>8. /\ indicated \in CarouselStates /\ indicated.active = c.active /\ indicated.indicators = {}
      /\ indicated.leaving = c.leaving /\ indicated.coming = NoItem /\ indicated.sliding
      /\ indicated.onSlid = onSlid /\ indicated.slidTimers = c.slidTimers
      /\ indicated.prevented = c.prevented /\ indicated.hasty = early
  <2>1. indicated = [quiet EXCEPT !.indicators = {}, !.onSlid = onSlid, !.hasty = early]
    <3>1. quiet.onSlid = c.onSlid /\ quiet.hasty = c.hasty
      BY <1>4
    <3> QED BY <1>7, <3>1 DEF onSlid
  <2> QED BY <1>4, <1>6, <2>1 DEF CarouselStates
<1> HIDE DEF indicated
<1>9. CASE item \in c.active
  <2>1. Items = 1 /\ d = quiet
    BY <1>5, <1>9
  <2>2. Whole(d)
    BY <1>4, <2>1 DEF Whole, GoodCarousel
  <2>3. CalmCarousel(d) => CalmCarousel(c) /\ InOrder(d)
    BY <1>1, <1>4, <2>1 DEF CalmCarousel, GoodCarousel, InOrder
  <2> QED BY <1>4, <2>1, <2>2, <2>3 DEF Keeps, GoodCarousel, d
<1>10. CASE item \notin c.active /\ prevent
  <2>1. d = [indicated EXCEPT !.prevented = TRUE]
    BY <1>5, <1>10
  <2>2. /\ d \in CarouselStates /\ d.active = c.active /\ d.leaving = c.leaving /\ d.coming = NoItem
        /\ d.prevented /\ d.slidTimers = c.slidTimers
    BY <1>8, <2>1 DEF CarouselStates
  <2>3. Whole(d)
    BY <1>1, <2>2 DEF Whole, GoodCarousel
  <2> QED BY <2>2, <2>3 DEF Keeps, GoodCarousel, CalmCarousel, d
<1>11. CASE item \notin c.active /\ ~prevent
  <2>1. /\ moving \in CarouselStates /\ moving.active = c.active /\ moving.indicators = {}
        /\ moving.leaving = c.active /\ moving.coming = item /\ moving.sliding
        /\ moving.onSlid = onSlid /\ moving.slidTimers = c.slidTimers
        /\ moving.prevented = c.prevented /\ moving.hasty = early
    BY <1>1, <1>8 DEF CarouselStates
  <2> HIDE DEF moving
  <2>2. Whole(moving)
    BY <1>11, <2>1, SlidFacts DEF Whole, GoodCarousel
  <2>3. CalmCarousel(moving) => CalmCarousel(c) /\ InOrder(moving)
    <3> SUFFICES ASSUME CalmCarousel(moving) PROVE CalmCarousel(c) /\ InOrder(moving)
      OBVIOUS
    <3>1. CalmCarousel(c) /\ c.slidTimers = 0
      BY <1>1, <1>7, <2>1 DEF CalmCarousel, CarouselStates
    <3>2. c.onSlid = <<>>
      BY <1>1, <3>1 DEF GoodCarousel, InOrder
    <3>3. Listens(onSlid)
      BY <3>2, ListensFacts DEF onSlid
    <3> QED BY <2>1, <3>1, <3>3, SlidFacts DEF InOrder
  <2>4. Keeps(c, moving)
    BY <2>1, <2>2, <2>3 DEF Keeps, GoodCarousel
  <2>5. Keeps(moving, Cycle(moving, FALSE))
    <3>1. PICK byPointer \in BOOLEAN : byPointer = FALSE
      OBVIOUS
    <3>2. Alike(moving, Cycle(moving, byPointer))
      BY <2>1, CycleFacts
    <3> QED BY <2>4, <3>1, <3>2, AlikeGood DEF Keeps
  <2>6. Keeps(c, Cycle(moving, FALSE))
    BY <2>4, <2>5 DEF Keeps
  <2>7. d = IF c.cycling THEN Cycle(moving, FALSE) ELSE moving
    BY <1>5, <1>11 DEF moving
  <2> QED BY <2>4, <2>6, <2>7 DEF d
<1> QED BY <1>9, <1>10, <1>11

LEMMA ToGood ==
    ASSUME NEW c, GoodCarousel(c), NEW pos \in Position, NEW prevent \in BOOLEAN
    PROVE  Keeps(c, To(c, pos, prevent))
<1>1. CASE c.sliding
  <2> DEFINE onSlid == Append(c.onSlid, GoTo(pos))
             d == [c EXCEPT !.onSlid = onSlid]
  <2>1. onSlid \in Seq(Slid) /\ (Listens(c.onSlid) => Listens(onSlid))
    BY SlidFacts, ListensFacts DEF GoodCarousel, CarouselStates
  <2> HIDE DEF onSlid
  <2>2. /\ d \in CarouselStates /\ d.active = c.active /\ d.indicators = c.indicators
        /\ d.leaving = c.leaving /\ d.coming = c.coming /\ d.sliding = c.sliding
        /\ d.onSlid = onSlid /\ d.slidTimers = c.slidTimers /\ d.prevented = c.prevented
        /\ d.hasty = c.hasty
    BY <2>1 DEF GoodCarousel, CarouselStates
  <2> HIDE DEF d
  <2>3. Whole(d)
    BY <2>2 DEF GoodCarousel, Whole
  <2>4. CalmCarousel(d) => CalmCarousel(c) /\ InOrder(d)
    BY <1>1, <2>1, <2>2 DEF GoodCarousel, CalmCarousel, InOrder
  <2>5. To(c, pos, prevent) = d
    BY <1>1 DEF To, d, onSlid
  <2> QED BY <2>2, <2>3, <2>4, <2>5 DEF Keeps, GoodCarousel
<1>2. CASE ~c.sliding /\ pos \in c.active
  <2>1. PICK byPointer \in BOOLEAN : byPointer = FALSE
    OBVIOUS
  <2>2. PICK p : p = Pause(c, byPointer)
    OBVIOUS
  <2>3. Keeps(c, p)
    BY <2>2, PauseGood
  <2>4. Alike(p, Cycle(p, byPointer))
    BY <2>3, CycleFacts DEF Keeps, GoodCarousel
  <2>5. Keeps(p, Cycle(p, byPointer))
    BY <2>3, <2>4, AlikeGood DEF Keeps
  <2>6. To(c, pos, prevent) = Cycle(p, byPointer)
    BY <1>2, <2>1, <2>2 DEF To
  <2> QED BY <2>3, <2>5, <2>6 DEF Keeps
<1>3. CASE ~c.sliding /\ pos \notin c.active
  <2>1. To(c, pos, prevent) = Slide(c, pos, prevent)
    BY <1>3 DEF To
  <2> QED BY <1>3, <2>1, SlideGood
<1> QED BY <1>1, <1>2, <1>3

-----------------------------------------------------------------------------
\* What has run when i of the functions for slid are through: the first of
\* them sets the indicators.
Underway(c, x, i) ==
    /\ x \in CarouselStates /\ Whole(x)
    /\ CalmCarousel(x) => CalmCarousel(c) /\ IF i > 0 THEN InOrder(x)
                             ELSE /\ x.coming = NoItem /\ ~x.sliding /\ x.slidTimers = 0
                                  /\ x.indicators = {} /\ x.onSlid = <<>>

LEMMA RunSlidFacts ==
    ASSUME NEW c, GoodCarousel(c), c.slidTimers > 0, NEW n \in Nat, n = Len(c.onSlid), NEW i \in 1..n,
           NEW x, Underway(c, x, i - 1), NEW prevent \in BOOLEAN
    PROVE  Underway(c, RunSlid(x, c.onSlid[i], prevent), i)
<1> DEFINE f == c.onSlid[i]
           d == RunSlid(x, f, prevent)
<1>1. f \in Slid
  <2>1. c.onSlid \in Seq(Slid)
    BY DEF GoodCarousel, CarouselStates
  <2> QED BY <2>1, ElementOfSeq
<1>2. CalmCarousel(c) => c.slidTimers = 1 /\ Listens(c.onSlid)
  BY DEF GoodCarousel, InOrder
<1>3. CASE f.do # "to"
  <2>1. f = Indicate /\ d = [x EXCEPT !.indicators = @ \cup x.active]
    BY <1>1, <1>3, SlidFacts DEF RunSlid
  <2>2. /\ d \in CarouselStates /\ d.active = x.active /\ d.indicators = x.indicators \cup x.active
        /\ d.leaving = x.leaving /\ d.coming = x.coming /\ d.sliding = x.sliding
        /\ d.onSlid = x.onSlid /\ d.slidTimers = x.slidTimers /\ d.prevented = x.prevented
        /\ d.hasty = x.hasty
    <3> HIDE DEF f, d
    <3>1. PICK indicators \in SUBSET Position : indicators = x.indicators \cup x.active
      BY DEF Underway, CarouselStates
    <3>2. d = [x EXCEPT !.indicators = indicators] /\ x \in CarouselStates
      BY <2>1, <3>1 DEF Underway
    <3> QED BY <3>1, <3>2 DEF CarouselStates
  <2> HIDE DEF d, f
  <2>3. Whole(d)
    BY <2>2 DEF Underway, Whole
  <2>4. ASSUME CalmCarousel(d) PROVE CalmCarousel(c) /\ InOrder(d)
    <3>1. CalmCarousel(x) /\ CalmCarousel(c)
      BY <2>2, <2>4 DEF CalmCarousel, Underway
    <3>2. i = 1
      <4>1. i = 1 \/ i \in 2..n
        OBVIOUS
      <4> QED BY <1>2, <1>3, <3>1, <4>1 DEF Listens, f
    <3>3. /\ x.coming = NoItem /\ ~x.sliding /\ x.slidTimers = 0
          /\ x.indicators = {} /\ x.onSlid = <<>>
      BY <3>1, <3>2 DEF Underway
    <3> QED BY <2>2, <3>1, <3>3 DEF InOrder
  <2> QED BY <2>2, <2>3, <2>4 DEF Underway, d, f
<1>4. CASE f.do = "to"
  <2>1. f.pos \in Position /\ d = To(x, f.pos, prevent)
    BY <1>1, <1>4, SlidFacts DEF RunSlid
  <2>2. CalmCarousel(x) => i > 1
    <3>1. i = 1 => f = c.onSlid[1]
      OBVIOUS
    <3> QED BY <1>2, <1>4, <3>1, SlidFacts DEF Listens, Underway
  <2>3. GoodCarousel(x)
    BY <2>2 DEF GoodCarousel, Underway
  <2>4. Keeps(x, d)
    BY <2>1, <2>3, ToGood
  <2> HIDE DEF d, f
  <2> QED BY <2>4 DEF Keeps, GoodCarousel, Underway, d, f
<1> QED BY <1>3, <1>4

LEMMA SlidTimerGood ==
    ASSUME NEW c, GoodCarousel(c), c = carousel, SlidTimer
    PROVE  GoodCarousel(carousel')
<1>1. PICK prevent \in BOOLEAN :
          LET due == carousel.onSlid
              after[i \in 0..Len(due)] ==
                IF i = 0 THEN [carousel EXCEPT !.slidTimers = @ - 1, !.onSlid = <<>>]
                ELSE RunSlid(after[i - 1], due[i], prevent)
          IN  carousel' = after[Len(due)]
  BY DEF SlidTimer
<1>2. PICK n \in Nat : n = Len(c.onSlid)
  BY LenProperties DEF GoodCarousel, CarouselStates
<1> DEFINE base == [c EXCEPT !.slidTimers = @ - 1, !.onSlid = <<>>]
           within == [i \in 0..n |-> {x \in CarouselStates : Underway(c, x, i)}]
           e(h, i) == IF i = 0 THEN base ELSE RunSlid(h[i - 1], c.onSlid[i], prevent)
           step == [i \in 1..n |-> [x \in CarouselStates |-> RunSlid(x, c.onSlid[i], prevent)]]
           after == CHOOSE h : h = [i \in 0..n |-> e(h, i)]
<1>3. carousel' = after[n]
  BY <1>1, <1>2
<1>4. c.slidTimers > 0 /\ c.slidTimers \in Nat
  BY DEF SlidTimer, GoodCarousel, CarouselStates
<1>5. /\ base \in CarouselStates /\ base.active = c.active /\ base.indicators = c.indicators
      /\ base.leaving = c.leaving /\ base.coming = c.coming /\ base.sliding = c.sliding
      /\ base.onSlid = <<>> /\ base.slidTimers = c.slidTimers - 1
      /\ base.prevented = c.prevented /\ base.hasty = c.hasty
  <2>1. PICK left \in Nat : left = c.slidTimers - 1
    BY <1>4
  <2>2. PICK none \in Seq(Slid) : none = <<>>
    <3>1. <<>> \in Seq(Slid)
      OBVIOUS
    <3> QED BY <3>1, Zenon
  <2>3. base = [c EXCEPT !.slidTimers = left, !.onSlid = none]
    BY <2>1, <2>2
  <2> HIDE DEF base
  <2> QED BY <2>1, <2>2, <2>3 DEF GoodCarousel, CarouselStates
<1> HIDE DEF base
<1>6. Underway(c, base, 0)
  <2>1. Whole(base)
    <3>1. Whole(c) /\ Items # 1
      BY <1>4 DEF GoodCarousel, Whole
    <3> QED BY <1>5, <3>1 DEF Whole
  <2>2. ASSUME CalmCarousel(base)
        PROVE  /\ CalmCarousel(c) /\ base.coming = NoItem /\ ~base.sliding /\ base.slidTimers = 0
               /\ base.indicators = {}
    <3>1. CalmCarousel(c) /\ InOrder(c) /\ c.coming = NoItem /\ c.slidTimers = 1 /\ c.indicators = {}
      BY <1>4, <1>5, <2>2 DEF GoodCarousel, CalmCarousel, InOrder
    <3>2. ~c.sliding
      BY <1>4, <3>1 DEF GoodCarousel, Whole, CalmCarousel
    <3> QED BY <1>5, <3>1, <3>2
  <2> QED BY <1>5, <2>1, <2>2 DEF Underway
<1>7. \A i \in 1..n : \A x \in CarouselStates : step[i][x] = RunSlid(x, c.onSlid[i], prevent)
  OBVIOUS
<1>8. \A i \in 0..n : \A x : x \in within[i] <=> x \in CarouselStates /\ Underway(c, x, i)
  OBVIOUS
<1>9. \A i \in 1..n : i - 1 \in 0..n /\ i \in 0..n
  OBVIOUS
<1>10. 0 \in 0..n /\ n \in 0..n
  OBVIOUS
<1> HIDE DEF step, within
<1>11. base \in within[0]
  BY <1>5, <1>6, <1>8, <1>10
<1>12. \A i \in 1..n : \A x \in within[i - 1] :
          step[i][x] = RunSlid(x, c.onSlid[i], prevent) /\ step[i][x] \in within[i]
  <2> TAKE i \in 1..n
  <2> TAKE x \in within[i - 1]
  <2>1. x \in CarouselStates /\ Underway(c, x, i - 1)
    BY <1>8, <1>9
  <2>2. step[i][x] = RunSlid(x, c.onSlid[i], prevent)
    BY <1>7, <2>1
  <2>3. Underway(c, step[i][x], i)
    BY <1>2, <1>4, <2>1, <2>2, RunSlidFacts
  <2> QED BY <1>8, <1>9, <2>2, <2>3 DEF Underway
<1>13. PICK g : IsRun(g, n, base, step) /\ \A i \in 0..n : g[i] \in within[i]
  BY <1>11, <1>12, RunExists
<1>14. g = [i \in 0..n |-> e(g, i)]
  <2>1. \A i \in 0..n : (IF i = 0 THEN base ELSE step[i][g[i - 1]]) = e(g, i)
    <3> TAKE i \in 0..n
    <3>1. CASE i = 0
      BY <3>1
    <3>2. CASE i # 0
      <4>1. i \in 1..n /\ i - 1 \in 0..n
        BY <3>2
      <4> QED BY <1>12, <1>13, <3>2, <4>1
    <3> QED BY <3>1, <3>2
  <2> QED BY <1>13, <2>1 DEF IsRun
<1>15. after = [i \in 0..n |-> e(after, i)]
  BY <1>14
<1> HIDE DEF after
<1>16. \A i \in 0..n : after[i] = e(after, i)
  BY <1>15
<1>17. \A i \in 0..n : after[i] \in within[i]
  <2>1. after[0] \in within[0]
    BY <1>10, <1>11, <1>16
  <2>2. \A i \in 1..n : after[i - 1] \in within[i - 1] => after[i] \in within[i]
    <3> TAKE i \in 1..n
    <3> HAVE after[i - 1] \in within[i - 1]
    <3>1. i \in 0..n /\ i # 0
      OBVIOUS
    <3>2. after[i] = e(after, i)
      BY <1>16, <3>1
    <3>3. after[i] = RunSlid(after[i - 1], c.onSlid[i], prevent)
      BY <3>1, <3>2
    <3> QED BY <1>12, <3>3
  <2> QED BY <2>1, <2>2, RunStays
<1>18. carousel' \in within[n]
  BY <1>3, <1>10, <1>17
<1>19. Underway(c, carousel', n)
  BY <1>8, <1>10, <1>18
<1>20. CalmCarousel(carousel') => n > 0
  <2>1. CalmCarousel(c) => Listens(c.onSlid)
    BY <1>4 DEF GoodCarousel, InOrder
  <2> QED BY <1>2, <1>19, <2>1 DEF Underway, Listens
<1> QED BY <1>19, <1>20 DEF Underway, GoodCarousel

LEMMA CarouselNextInv == GoodCarousel(carousel) /\ [CarouselNext]_carousel => GoodCarousel(carousel)'
<1> SUFFICES ASSUME GoodCarousel(carousel), [CarouselNext]_carousel PROVE GoodCarousel(carousel')
  OBVIOUS
<1>0. PICK c : c = carousel /\ GoodCarousel(c)
  OBVIOUS
<1>1. PICK yes \in BOOLEAN, no \in BOOLEAN : yes = TRUE /\ no = FALSE
  OBVIOUS
<1>2. \A x : GoodCarousel(x) => \A b \in BOOLEAN : GoodCarousel(Cycle(x, b)) /\ GoodCarousel(Pause(x, b))
  <2> SUFFICES ASSUME NEW x, GoodCarousel(x), NEW b \in BOOLEAN PROVE GoodCarousel(Cycle(x, b)) /\ GoodCarousel(Pause(x, b))
    OBVIOUS
  <2>1. Alike(x, Cycle(x, b))
    BY CycleFacts DEF GoodCarousel
  <2> QED BY <2>1, AlikeGood, PauseGood DEF Keeps
<1>3. CASE NextOrPrev
  <2>1. PICK item \in Position, step \in {1, -1}, prevent \in BOOLEAN :
            /\ item = Beside(CHOOSE i \in c.active : TRUE, step)
            /\ carousel' = Slide(c, item, prevent)
    BY <1>0, <1>3 DEF NextOrPrev
  <2>2. PICK i \in Position : c.active = {i}
    BY <1>0 DEF GoodCarousel, Whole
  <2>3. item = Beside(i, step)
    BY <2>1, <2>2
  <2>4. item # i \/ Items = 1
    BY <2>3, CarouselAssumption DEF Beside, Position
  <2>5. ~c.sliding
    BY <1>0, <1>3 DEF NextOrPrev
  <2> QED BY <1>0, <2>1, <2>2, <2>4, <2>5, SlideGood DEF Keeps
<1>4. CASE ScriptGoesTo
  BY <1>0, <1>4, ToGood DEF ScriptGoesTo, Keeps
<1>5. CASE ClickIndicator
  <2>1. PICK ready : ready = Pause(Cycle(Pause(c, no), no), no)
    OBVIOUS
  <2>2. PICK pos \in Position, prevent \in BOOLEAN :
            \/ carousel' = To(ready, pos, prevent)
            \/ carousel' = Cycle(To(ready, pos, prevent), no)
    BY <1>0, <1>1, <1>5, <2>1 DEF ClickIndicator
  <2>3. GoodCarousel(ready)
    BY <1>0, <1>2, <2>1
  <2>4. GoodCarousel(To(ready, pos, prevent))
    BY <2>3, ToGood DEF Keeps
  <2> QED BY <1>2, <2>2, <2>4
<1>6. CASE PointerPauses
  BY <1>0, <1>1, <1>2, <1>6 DEF PointerPauses
<1>7. CASE PointerResumes
  BY <1>0, <1>1, <1>2, <1>7 DEF PointerResumes
<1>8. CASE ScriptPauses
  BY <1>0, <1>1, <1>2, <1>8 DEF ScriptPauses
<1>9. CASE SlideTransitionEnd
  BY <1>0, <1>9, EndSlideGood DEF SlideTransitionEnd, Keeps
<1>10. CASE SlidTimer
  BY <1>0, <1>10, SlidTimerGood
<1>11. CASE UNCHANGED carousel
  BY <1>11
<1> QED BY <1>3, <1>4, <1>5, <1>6, <1>7, <1>8, <1>9, <1>10, <1>11 DEF CarouselNext

\* CarouselAgrees, whatever the number of items and of calls.
THEOREM CarouselSlidesOn == CarouselSpec => []CarouselAgrees
<1>1. CarouselInit => GoodCarousel(carousel)
  <2> SUFFICES ASSUME CarouselInit PROVE GoodCarousel(carousel)
    OBVIOUS
  <2>1. 1 \in Position /\ <<>> \in Seq(Slid) /\ NoItem \in Position \cup {NoItem}
    BY CarouselAssumption DEF Position
  <2>2. carousel \in CarouselStates
    BY <2>1 DEF CarouselInit, CarouselStates
  <2>3. /\ carousel.active = {1} /\ carousel.leaving = {} /\ carousel.coming = NoItem
        /\ ~carousel.sliding /\ carousel.slidTimers = 0 /\ carousel.indicators = {1}
        /\ carousel.onSlid = <<>>
    BY DEF CarouselInit
  <2> QED BY <2>1, <2>2, <2>3 DEF GoodCarousel, Whole, InOrder
<1>2. GoodCarousel(carousel) => CarouselAgrees
  <2> SUFFICES ASSUME GoodCarousel(carousel) PROVE CarouselAgrees
    OBVIOUS
  <2>1. PICK i \in Position : carousel.active = {i}
    BY DEF GoodCarousel, Whole
  <2>2. Cardinality(carousel.active) = 1
    BY <2>1, FS_Singleton
  <2> QED BY <2>2 DEF GoodCarousel, Whole, CalmCarousel, InOrder, CarouselAgrees
<1>3. CarouselSpec => CarouselInit /\ [][CarouselNext]_carousel
  BY DEF CarouselSpec
<1> QED BY <1>1, <1>2, <1>3, CarouselNextInv, PTL

-----------------------------------------------------------------------------
ModalHandler == [do : {"present", "clear", "shown", "hide"}, timer : Nat]

ModalStates ==
    {m \in [isShown : BOOLEAN, in : BOOLEAN, displayed : BOOLEAN, keys : Nat, traps : Nat,
            backdrop : Nat, onBackdrop : UNION {[S -> Seq(ModalHandler)] : S \in SUBSET Nat},
            onElement : Seq(ModalHandler), timers : SUBSET Nat] :
        /\ IsFiniteSet(Backdrops(m)) /\ 0 \notin Backdrops(m)
        /\ m.backdrop \in Backdrops(m) \cup {0}}

\* The escape key is listened to.
KeyListening(m) == m.keys = IF m.isShown THEN 1 ELSE 0

OneBackdrop(m, handlers) ==
    m.backdrop # 0 /\ Backdrops(m) = {m.backdrop} /\ m.onBackdrop[m.backdrop] = handlers

ItsBackdrop(m) ==
    IF withBackdrop THEN OneBackdrop(m, <<>>) ELSE m.backdrop = 0 /\ Backdrops(m) = {}

Untimed(do) == [do |-> do, timer |-> 0]

ModalQuiet(m) == m.onElement = <<>> /\ m.timers = {}

\* What a dialog goes through if no call comes too early.
IsHidden(m) ==
    /\ ~m.isShown /\ ~m.in /\ ~m.displayed /\ m.traps = 0 /\ ModalQuiet(m)
    /\ m.backdrop = 0 /\ Backdrops(m) = {}
BackdropComes(m) ==
    /\ m.isShown /\ ~m.in /\ ~m.displayed /\ m.traps = 0 /\ ModalQuiet(m)
    /\ OneBackdrop(m, <<Untimed("present")>>) /\ withBackdrop
IsPresent(m) ==
    /\ m.isShown /\ m.in /\ m.displayed /\ m.traps = 1 /\ m.timers = {}
    /\ ItsBackdrop(m) /\ m.onElement \in {<<>>, <<Untimed("shown")>>}
FadesAway(m) ==
    /\ ~m.isShown /\ ~m.in /\ m.displayed /\ m.traps = 0 /\ ItsBackdrop(m)
    /\ \E t \in Nat : m.timers = {t} /\ m.onElement = <<[do |-> "hide", timer |-> t]>>
BackdropGoes(m) ==
    /\ ~m.isShown /\ ~m.in /\ ~m.displayed /\ m.traps = 0 /\ ModalQuiet(m)
    /\ OneBackdrop(m, <<Untimed("clear")>>)

OnItsWay(m) ==
    IsHidden(m) \/ BackdropComes(m) \/ IsPresent(m) \/ FadesAway(m) \/ BackdropGoes(m)

ModalInv ==
    /\ modal \in ModalStates /\ KeyListening(modal)
    /\ fades \in BOOLEAN /\ withBackdrop \in BOOLEAN /\ calls \in Nat /\ calm \in BOOLEAN
    /\ calm => OnItsWay(modal)

-----------------------------------------------------------------------------
\* What no callback touches.
Callback(m, u) == u \in ModalStates /\ u.keys = m.keys /\ u.isShown = m.isShown

LEMMA UntimedFacts ==
    /\ \A do \in {"present", "clear", "shown", "hide"} : Untimed(do) \in ModalHandler /\ Untimed(do).do = do
    /\ \A do, t : [do |-> do, timer |-> t].do = do /\ [do |-> do, timer |-> t].timer = t
BY DEF Untimed, ModalHandler

IsModalRecord(m) ==
    m = [isShown |-> m.isShown, in |-> m.in, displayed |-> m.displayed, keys |-> m.keys,
         traps |-> m.traps, backdrop |-> m.backdrop, onBackdrop |-> m.onBackdrop,
         onElement |-> m.onElement, timers |-> m.timers]

ModalTyped(m, S) ==
    /\ IsModalRecord(m)
    /\ m.isShown \in BOOLEAN /\ m.in \in BOOLEAN /\ m.displayed \in BOOLEAN
    /\ m.keys \in Nat /\ m.traps \in Nat
    /\ m.onElement \in Seq(ModalHandler) /\ m.timers \in SUBSET Nat
    /\ m.onBackdrop \in [S -> Seq(ModalHandler)] /\ S \in SUBSET Nat
    /\ IsFiniteSet(S) /\ 0 \notin S /\ m.backdrop \in S \cup {0}

LEMMA ModalStateFacts == ASSUME NEW m \in ModalStates PROVE ModalTyped(m, Backdrops(m))
<1>1. PICK S \in SUBSET Nat : m.onBackdrop \in [S -> Seq(ModalHandler)]
  BY DEF ModalStates
<1>2. S = Backdrops(m)
  BY <1>1 DEF Backdrops
<1> QED BY <1>1, <1>2 DEF ModalStates, ModalTyped, IsModalRecord

LEMMA MakesModalState == ASSUME NEW m, NEW S, ModalTyped(m, S) PROVE m \in ModalStates /\ Backdrops(m) = S
<1>1. S = Backdrops(m)
  BY DEF Backdrops, ModalTyped
<1>2. m.backdrop \in Nat
  <2>1. m.backdrop \in S \/ m.backdrop = 0
    BY DEF ModalTyped
  <2>2. S \subseteq Nat
    BY DEF ModalTyped
  <2>3. 0 \in Nat
    OBVIOUS
  <2> QED BY <2>1, <2>2, <2>3, Zenon
<1>3. m.onBackdrop \in UNION {[T -> Seq(ModalHandler)] : T \in SUBSET Nat}
  BY DEF ModalTyped
<1>4. m \in [isShown : BOOLEAN, in : BOOLEAN, displayed : BOOLEAN, keys : Nat, traps : Nat,
            backdrop : Nat, onBackdrop : UNION {[T -> Seq(ModalHandler)] : T \in SUBSET Nat},
            onElement : Seq(ModalHandler), timers : SUBSET Nat]
  BY <1>2, <1>3 DEF ModalTyped, IsModalRecord
<1> QED BY <1>1, <1>4 DEF ModalTyped, ModalStates

\* What a step does to the fields but the backdrops.
SameBeside(m, u) ==
    /\ u.isShown = m.isShown /\ u.in = m.in /\ u.displayed = m.displayed /\ u.keys = m.keys
    /\ u.traps = m.traps /\ u.onElement = m.onElement /\ u.timers = m.timers

LEMMA PresentFacts ==
    ASSUME NEW m \in ModalStates, NEW h \in ModalHandler, h.do = "present"
    PROVE  LET u == Run(m, h)
           IN  /\ Callback(m, u) /\ u.displayed /\ u.in /\ u.traps = m.traps + 1
               /\ u.onElement = (IF fades THEN Append(m.onElement, Untimed("shown")) ELSE m.onElement)
               /\ u.timers = m.timers /\ u.backdrop = m.backdrop /\ u.onBackdrop = m.onBackdrop
<1> DEFINE onElement == IF fades THEN Append(m.onElement, Untimed("shown")) ELSE m.onElement
           u == Run(m, h)
<1>1. ModalTyped(m, Backdrops(m)) /\ m.onElement \in Seq(ModalHandler)
  BY ModalStateFacts DEF ModalTyped
<1>2. onElement \in Seq(ModalHandler)
  <2>1. Append(m.onElement, Untimed("shown")) \in Seq(ModalHandler)
    BY <1>1, UntimedFacts, AppendProperties
  <2> QED BY <1>1, <2>1
<1>3. u = [m EXCEPT !.displayed = TRUE, !.in = TRUE, !.traps = @ + 1, !.onElement = onElement]
  BY DEF Run, Untimed
<1> HIDE DEF onElement, u
<1>4. /\ u.isShown = m.isShown /\ u.in = TRUE /\ u.displayed = TRUE /\ u.keys = m.keys
      /\ u.traps = m.traps + 1 /\ u.onElement = onElement /\ u.timers = m.timers
      /\ u.backdrop = m.backdrop /\ u.onBackdrop = m.onBackdrop
      /\ IsModalRecord(u)
  BY <1>3 DEF ModalStates, IsModalRecord
<1>5. u \in ModalStates
  <2>1. u.traps \in Nat
    BY <1>1, <1>4 DEF ModalTyped
  <2>2. u.isShown \in BOOLEAN /\ u.keys \in Nat /\ u.timers \in SUBSET Nat /\ u.onElement \in Seq(ModalHandler)
    BY <1>1, <1>2, <1>4 DEF ModalTyped
  <2>3. u.onBackdrop \in [Backdrops(m) -> Seq(ModalHandler)] /\ u.backdrop \in Backdrops(m) \cup {0}
    BY <1>1, <1>4 DEF ModalTyped
  <2>4. ModalTyped(u, Backdrops(m))
    BY <1>1, <1>4, <2>1, <2>2, <2>3, Zenon DEF ModalTyped
  <2> QED BY <2>4, MakesModalState
<1> QED BY <1>4, <1>5 DEF Callback, onElement, u

LEMMA ClearFacts ==
    ASSUME NEW m \in ModalStates, NEW h \in ModalHandler, h.do = "clear"
    PROVE  LET u == Run(m, h)
           IN  /\ Callback(m, u) /\ SameBeside(m, u)
               /\ u.backdrop = 0 /\ Backdrops(u) = Backdrops(m) \ {m.backdrop}
<1> DEFINE S == Backdrops(m) \ {m.backdrop}
           onBackdrop == [b \in S |-> m.onBackdrop[b]]
           u == Run(m, h)
<1>1. /\ m.onBackdrop \in [Backdrops(m) -> Seq(ModalHandler)] /\ Backdrops(m) \in SUBSET Nat
      /\ IsFiniteSet(Backdrops(m)) /\ 0 \notin Backdrops(m)
  BY ModalStateFacts DEF ModalTyped
<1>2. S \in SUBSET Nat /\ IsFiniteSet(S) /\ 0 \notin S
  BY <1>1, FS_RemoveElement
<1>3. onBackdrop \in [S -> Seq(ModalHandler)]
  BY <1>1
<1>4. u = [m EXCEPT !.onBackdrop = onBackdrop, !.backdrop = 0]
  BY DEF Run
<1> HIDE DEF onBackdrop, S, u
<1>5. /\ SameBeside(m, u) /\ u.backdrop = 0 /\ u.onBackdrop = onBackdrop
      /\ IsModalRecord(u)
  BY <1>4 DEF ModalStates, SameBeside, IsModalRecord
<1>6. u \in ModalStates /\ Backdrops(u) = S
  <2>1. ModalTyped(m, Backdrops(m))
    BY ModalStateFacts
  <2>2. ModalTyped(u, S)
    BY <1>2, <1>3, <1>5, <2>1 DEF SameBeside, ModalTyped
  <2> QED BY <2>2, MakesModalState
<1> QED BY <1>5, <1>6 DEF Callback, SameBeside, S, u

LEMMA RunFacts ==
    ASSUME NEW m \in ModalStates, NEW h \in ModalHandler
    PROVE  Callback(m, Run(m, h))
<1>1. CASE h.do \in {"present", "clear"}
  BY <1>1, PresentFacts, ClearFacts
<1>2. CASE h.do \notin {"present", "clear"}
  BY <1>2 DEF Run, Callback
<1> QED BY <1>1, <1>2

\* A number for a new backdrop.
LEMMA NewBackdropFacts ==
    ASSUME NEW m \in ModalStates
    PROVE  NewBackdrop(m) \in Nat \ {0} /\ NewBackdrop(m) \notin Backdrops(m)
<1>1. IsFiniteSet(Backdrops(m))
  BY ModalStateFacts DEF ModalTyped
<1>2. PICK k \in Nat : k = Cardinality(Backdrops(m))
  BY <1>1, FS_CardinalityType
<1>3. \E b \in 1..(k + 1) : b \notin Backdrops(m)
  <2>1. SUFFICES ASSUME 1..(k + 1) \subseteq Backdrops(m) PROVE FALSE
    OBVIOUS
  <2>2. Cardinality(1..(k + 1)) <= k
    BY <1>1, <1>2, <2>1, FS_Subset
  <2>3. Cardinality(1..(k + 1)) = k + 1
    BY FS_Interval
  <2> QED BY <2>2, <2>3
<1>4. NewBackdrop(m) \in 1..(k + 1) /\ NewBackdrop(m) \notin Backdrops(m)
  BY <1>2, <1>3 DEF NewBackdrop
<1> QED BY <1>4

-----------------------------------------------------------------------------
\* The backdrop that is made for a dialog.
MadeModal(m) ==
    LET new == NewBackdrop(m)
    IN  [m EXCEPT !.backdrop = new,
                  !.onBackdrop = [b \in Backdrops(m) \cup {new} |-> IF b = new THEN <<>> ELSE @[b]]]

LEMMA MadeModalFacts ==
    ASSUME NEW m \in ModalStates
    PROVE  LET u == MadeModal(m)
           IN  /\ Callback(m, u) /\ SameBeside(m, u)
               /\ u.backdrop # 0 /\ u.backdrop \in Backdrops(u)
               /\ Backdrops(u) = Backdrops(m) \cup {u.backdrop}
               /\ u.onBackdrop[u.backdrop] = <<>>
<1> DEFINE S == Backdrops(m) \cup {NewBackdrop(m)}
           onBackdrop == [b \in S |-> IF b = NewBackdrop(m) THEN <<>> ELSE m.onBackdrop[b]]
           u == MadeModal(m)
<1>1. /\ m.onBackdrop \in [Backdrops(m) -> Seq(ModalHandler)] /\ Backdrops(m) \in SUBSET Nat
      /\ IsFiniteSet(Backdrops(m)) /\ 0 \notin Backdrops(m)
  BY ModalStateFacts DEF ModalTyped
<1>2. NewBackdrop(m) \in Nat /\ NewBackdrop(m) # 0
  BY NewBackdropFacts
<1>3. S \in SUBSET Nat /\ IsFiniteSet(S) /\ 0 \notin S
  BY <1>1, <1>2, FS_AddElement
<1>4. onBackdrop \in [S -> Seq(ModalHandler)] /\ onBackdrop[NewBackdrop(m)] = <<>>
  <2>1. <<>> \in Seq(ModalHandler)
    OBVIOUS
  <2> QED BY <1>1, <2>1
<1>5. u = [m EXCEPT !.onBackdrop = onBackdrop, !.backdrop = NewBackdrop(m)]
  BY DEF MadeModal
<1> HIDE DEF onBackdrop, u
<1>6. /\ SameBeside(m, u) /\ u.backdrop = NewBackdrop(m) /\ u.onBackdrop = onBackdrop /\ IsModalRecord(u)
  BY <1>5 DEF ModalStates, SameBeside, IsModalRecord
<1>7. u \in ModalStates /\ Backdrops(u) = S
  <2>1. ModalTyped(m, Backdrops(m))
    BY ModalStateFacts
  <2>2. u.backdrop \in S \cup {0}
    BY <1>6
  <2>3. ModalTyped(u, S)
    BY <1>3, <1>4, <1>6, <2>1, <2>2 DEF SameBeside, ModalTyped
  <2> QED BY <2>3, MakesModalState
<1> QED BY <1>2, <1>4, <1>6, <1>7 DEF Callback, SameBeside, u

\* A callback that waits for the transition of the backdrop.
LEMMA WaitFacts ==
    ASSUME NEW m \in ModalStates, m.backdrop # 0, NEW h \in ModalHandler
    PROVE  LET u == [m EXCEPT !.onBackdrop[m.backdrop] = Append(@, h)]
           IN  /\ Callback(m, u) /\ SameBeside(m, u)
               /\ u.backdrop = m.backdrop /\ Backdrops(u) = Backdrops(m)
               /\ u.onBackdrop[m.backdrop] = Append(m.onBackdrop[m.backdrop], h)
<1> DEFINE handlers == Append(m.onBackdrop[m.backdrop], h)
           u == [m EXCEPT !.onBackdrop[m.backdrop] = Append(@, h)]
<1>1. /\ m.onBackdrop \in [Backdrops(m) -> Seq(ModalHandler)] /\ m.backdrop \in Backdrops(m)
      /\ ModalTyped(m, Backdrops(m))
  BY ModalStateFacts DEF ModalTyped
<1>2. handlers \in Seq(ModalHandler)
  BY <1>1, AppendProperties
<1>3. u = [m EXCEPT !.onBackdrop = [m.onBackdrop EXCEPT ![m.backdrop] = handlers]]
  OBVIOUS
<1> HIDE DEF handlers, u
<1>4. PICK onBackdrop \in [Backdrops(m) -> Seq(ModalHandler)] :
          onBackdrop = [m.onBackdrop EXCEPT ![m.backdrop] = handlers] /\ onBackdrop[m.backdrop] = handlers
  <2> DEFINE changed == [m.onBackdrop EXCEPT ![m.backdrop] = handlers]
  <2>1. changed \in [Backdrops(m) -> Seq(ModalHandler)] /\ changed[m.backdrop] = handlers
    BY <1>1, <1>2
  <2> HIDE DEF changed
  <2>2. changed = [m.onBackdrop EXCEPT ![m.backdrop] = handlers]
    BY DEF changed
  <2> QED BY <2>1, <2>2, Zenon
<1>5. u = [m EXCEPT !.onBackdrop = onBackdrop]
  BY <1>3, <1>4
<1>6. SameBeside(m, u) /\ u.backdrop = m.backdrop /\ u.onBackdrop = onBackdrop /\ IsModalRecord(u)
  BY <1>5 DEF ModalStates, SameBeside, IsModalRecord
<1>7. ModalTyped(u, Backdrops(m))
  BY <1>1, <1>6 DEF SameBeside, ModalTyped
<1>8. u \in ModalStates /\ Backdrops(u) = Backdrops(m)
  BY <1>7, MakesModalState
<1> QED BY <1>4, <1>6, <1>8 DEF Callback, SameBeside, u, handlers

\* A change of the fields that are no backdrops.
LEMMA ModalChangeFacts ==
    ASSUME NEW m \in ModalStates, NEW u, IsModalRecord(u),
           u.isShown \in BOOLEAN, u.in \in BOOLEAN, u.displayed \in BOOLEAN,
           u.keys \in Nat, u.traps \in Nat, u.onElement \in Seq(ModalHandler), u.timers \in SUBSET Nat,
           u.backdrop = m.backdrop, u.onBackdrop = m.onBackdrop
    PROVE  u \in ModalStates /\ Backdrops(u) = Backdrops(m)
<1>1. ModalTyped(m, Backdrops(m))
  BY ModalStateFacts
<1>2. ModalTyped(u, Backdrops(m))
  BY <1>1 DEF ModalTyped
<1> QED BY <1>2, MakesModalState

\* What Backdrop does, by its cases.
LEMMA BackdropCases ==
    ASSUME NEW m \in ModalStates, NEW do
    PROVE  /\ m.isShown /\ withBackdrop => Backdrop(m, do) =
                 IF fades THEN [MadeModal(m) EXCEPT !.onBackdrop[MadeModal(m).backdrop] = Append(@, Untimed(do))]
                 ELSE Run(MadeModal(m), Untimed(do))
           /\ ~m.isShown /\ m.backdrop # 0 => Backdrop(m, do) =
                 IF fades THEN [m EXCEPT !.onBackdrop[m.backdrop] = Append(@, Untimed(do))]
                 ELSE Run(m, Untimed(do))
           /\ ~(m.isShown /\ withBackdrop) /\ ~(~m.isShown /\ m.backdrop # 0) =>
                 Backdrop(m, do) = Run(m, Untimed(do))
BY DEF Backdrop, MadeModal, Untimed

LEMMA BackdropKeeps ==
    ASSUME NEW m \in ModalStates, NEW do \in {"present", "clear"}
    PROVE  Callback(m, Backdrop(m, do))
<1>1. Untimed(do) \in ModalHandler
  BY UntimedFacts
<1>2. PICK n : n = MadeModal(m) /\ Callback(m, n) /\ n.backdrop # 0
  BY MadeModalFacts
<1>3. /\ Callback(n, [n EXCEPT !.onBackdrop[n.backdrop] = Append(@, Untimed(do))])
      /\ Callback(n, Run(n, Untimed(do))) /\ Callback(m, Run(m, Untimed(do)))
  BY <1>1, <1>2, WaitFacts, RunFacts DEF Callback
<1>4. m.backdrop # 0 => Callback(m, [m EXCEPT !.onBackdrop[m.backdrop] = Append(@, Untimed(do))])
  BY <1>1, WaitFacts
<1>5. CASE m.isShown /\ withBackdrop
  <2>1. Backdrop(m, do) = IF fades THEN [n EXCEPT !.onBackdrop[n.backdrop] = Append(@, Untimed(do))]
                          ELSE Run(n, Untimed(do))
    BY <1>2, <1>5, BackdropCases
  <2> QED BY <1>2, <1>3, <2>1, Zenon DEF Callback
<1>6. CASE ~m.isShown /\ m.backdrop # 0
  <2>1. Backdrop(m, do) = IF fades THEN [m EXCEPT !.onBackdrop[m.backdrop] = Append(@, Untimed(do))]
                          ELSE Run(m, Untimed(do))
    BY <1>6, BackdropCases
  <2> QED BY <1>3, <1>4, <1>6, <2>1, Zenon
<1>7. CASE ~(m.isShown /\ withBackdrop) /\ ~(~m.isShown /\ m.backdrop # 0)
  BY <1>3, <1>7, BackdropCases
<1> QED BY <1>5, <1>6, <1>7

LEMMA HideModalKeeps == ASSUME NEW m \in ModalStates PROVE Callback(m, HideModal(m))
<1>0. PICK u : u = [m EXCEPT !.displayed = FALSE]
  OBVIOUS
<1>1. /\ IsModalRecord(u) /\ u.isShown = m.isShown /\ u.in = m.in /\ ~u.displayed /\ u.keys = m.keys
      /\ u.traps = m.traps /\ u.onElement = m.onElement /\ u.timers = m.timers
      /\ u.backdrop = m.backdrop /\ u.onBackdrop = m.onBackdrop /\ u.displayed \in BOOLEAN
  BY <1>0 DEF ModalStates, IsModalRecord
<1>2. u \in ModalStates
  <2>1. ModalTyped(m, Backdrops(m))
    BY ModalStateFacts
  <2> QED BY <1>1, <2>1, ModalChangeFacts DEF ModalTyped
<1>3. HideModal(m) = Backdrop(u, "clear")
  BY <1>0 DEF HideModal
<1>4. Callback(u, HideModal(m))
  BY <1>2, <1>3, BackdropKeeps
<1> QED BY <1>1, <1>4 DEF Callback

\* A dialog that has left the screen.
LEMMA HideModalFacts ==
    ASSUME NEW m \in ModalStates, ~m.isShown, ~m.in, m.traps = 0, ModalQuiet(m), ItsBackdrop(m),
           withBackdrop \in BOOLEAN
    PROVE  OnItsWay(HideModal(m))
<1> DEFINE v == HideModal(m)
<1>0. PICK u : u = [m EXCEPT !.displayed = FALSE]
  OBVIOUS
<1>1. /\ IsModalRecord(u) /\ u.isShown = m.isShown /\ u.in = m.in /\ ~u.displayed /\ u.keys = m.keys
      /\ u.traps = m.traps /\ u.onElement = m.onElement /\ u.timers = m.timers
      /\ u.backdrop = m.backdrop /\ u.onBackdrop = m.onBackdrop /\ u.displayed \in BOOLEAN
  BY <1>0 DEF ModalStates, IsModalRecord
<1>2. v = Backdrop(u, "clear")
  BY <1>0 DEF HideModal
<1> HIDE DEF v
<1>3. u \in ModalStates /\ Backdrops(u) = Backdrops(m)
  <2>1. ModalTyped(m, Backdrops(m))
    BY ModalStateFacts
  <2> QED BY <1>1, <2>1, ModalChangeFacts DEF ModalTyped
<1>4. Untimed("clear") \in ModalHandler /\ Untimed("clear").do = "clear"
  BY UntimedFacts
<1>5. CASE withBackdrop /\ fades
  <2>1. OneBackdrop(m, <<>>)
    BY <1>5 DEF ItsBackdrop
  <2>2. v = [u EXCEPT !.onBackdrop[u.backdrop] = Append(@, Untimed("clear"))] /\ u.backdrop # 0
    BY <1>1, <1>2, <1>3, <1>5, <2>1, BackdropCases DEF OneBackdrop
  <2>3. /\ SameBeside(u, v) /\ v.backdrop = u.backdrop /\ Backdrops(v) = Backdrops(u)
        /\ v.onBackdrop[u.backdrop] = Append(u.onBackdrop[u.backdrop], Untimed("clear"))
    BY <1>3, <1>4, <2>2, WaitFacts
  <2>4. u.onBackdrop[u.backdrop] = <<>> /\ Append(<<>>, Untimed("clear")) = <<Untimed("clear")>>
    BY <1>1, <2>1 DEF OneBackdrop
  <2>5. OneBackdrop(v, <<Untimed("clear")>>)
    BY <1>1, <1>3, <2>1, <2>2, <2>3, <2>4 DEF OneBackdrop
  <2>6. BackdropGoes(v)
    BY <1>1, <2>3, <2>5 DEF SameBeside, BackdropGoes, ModalQuiet
  <2> QED BY <2>6 DEF OnItsWay, v
<1>6. CASE ~(withBackdrop /\ fades)
  <2>1. v = Run(u, Untimed("clear"))
    BY <1>1, <1>2, <1>3, <1>6, BackdropCases DEF ItsBackdrop
  <2>2. SameBeside(u, v) /\ v.backdrop = 0 /\ Backdrops(v) = Backdrops(u) \ {u.backdrop}
    BY <1>3, <1>4, <2>1, ClearFacts
  <2>3. Backdrops(m) \subseteq {m.backdrop}
    BY DEF ItsBackdrop, OneBackdrop
  <2>4. Backdrops(v) = {}
    BY <1>1, <1>3, <2>2, <2>3
  <2>5. IsHidden(v)
    BY <1>1, <2>2, <2>4 DEF SameBeside, IsHidden, ModalQuiet
  <2> QED BY <2>5 DEF OnItsWay, v
<1> QED BY <1>5, <1>6

LEMMA RunHandlerKeeps ==
    ASSUME NEW m \in ModalStates, NEW h \in ModalHandler
    PROVE  Callback(m, RunHandler(m, h))
<1>1. CASE h.do = "hide"
  <2>0. PICK u : u = [m EXCEPT !.timers = m.timers \ {h.timer}]
    OBVIOUS
  <2>1. /\ IsModalRecord(u) /\ u.isShown = m.isShown /\ u.in = m.in /\ u.displayed = m.displayed
        /\ u.keys = m.keys /\ u.traps = m.traps /\ u.onElement = m.onElement
        /\ u.timers = m.timers \ {h.timer} /\ u.backdrop = m.backdrop /\ u.onBackdrop = m.onBackdrop
    BY <2>0 DEF ModalStates, IsModalRecord
  <2>2. RunHandler(m, h) = HideModal(u)
    BY <1>1, <2>0 DEF RunHandler
  <2>3. u \in ModalStates
    <3>1. ModalTyped(m, Backdrops(m))
      BY ModalStateFacts
    <3>2. u.timers \in SUBSET Nat
      BY <2>1, <3>1 DEF ModalTyped
    <3> QED BY <2>1, <3>1, <3>2, ModalChangeFacts DEF ModalTyped
  <2>4. Callback(u, HideModal(u))
    BY <2>3, HideModalKeeps
  <2> QED BY <2>1, <2>2, <2>4 DEF Callback
<1>2. CASE h.do # "hide"
  BY <1>2, RunFacts DEF RunHandler
<1> QED BY <1>1, <1>2

LEMMA RunAllFacts ==
    ASSUME NEW m \in ModalStates, NEW handlers \in Seq(ModalHandler)
    PROVE  /\ Callback(m, RunAll(m, handlers))
           /\ \A h : handlers = <<h>> => RunAll(m, handlers) = RunHandler(m, h)
<1>1. PICK n \in Nat : n = Len(handlers)
  BY LenProperties
<1> DEFINE within == [i \in 0..n |-> {x \in ModalStates : Callback(m, x)}]
           e(g, i) == IF i = 0 THEN m ELSE RunHandler(g[i - 1], handlers[i])
           step == [i \in 1..n |-> [x \in ModalStates |-> RunHandler(x, handlers[i])]]
           after == CHOOSE g : g = [i \in 0..n |-> e(g, i)]
<1>2. RunAll(m, handlers) = after[n]
  BY <1>1 DEF RunAll
<1>3. \A i \in 1..n : \A x \in ModalStates : step[i][x] = RunHandler(x, handlers[i])
  OBVIOUS
<1>4. \A i \in 0..n : \A x : x \in within[i] <=> x \in ModalStates /\ Callback(m, x)
  OBVIOUS
<1>5. \A i \in 1..n : i - 1 \in 0..n /\ i \in 0..n
  OBVIOUS
<1>6. 0 \in 0..n /\ n \in 0..n
  OBVIOUS
<1>7. \A i \in 1..n : handlers[i] \in ModalHandler
  BY <1>1, ElementOfSeq
<1> HIDE DEF step, within
<1>8. m \in within[0]
  BY <1>4, <1>6 DEF Callback
<1>9. \A i \in 1..n : \A x \in within[i - 1] :
          step[i][x] = RunHandler(x, handlers[i]) /\ step[i][x] \in within[i]
  <2> TAKE i \in 1..n
  <2> TAKE x \in within[i - 1]
  <2>1. x \in ModalStates /\ Callback(m, x)
    BY <1>4, <1>5
  <2>2. step[i][x] = RunHandler(x, handlers[i])
    BY <1>3, <2>1
  <2>3. Callback(x, step[i][x])
    BY <1>7, <2>1, <2>2, RunHandlerKeeps
  <2>4. step[i][x] \in ModalStates /\ Callback(m, step[i][x])
    BY <2>1, <2>3 DEF Callback
  <2> QED BY <1>4, <1>5, <2>2, <2>4
<1>10. PICK f : IsRun(f, n, m, step) /\ \A i \in 0..n : f[i] \in within[i]
  BY <1>8, <1>9, RunExists
<1>11. f = [i \in 0..n |-> e(f, i)]
  <2>1. \A i \in 0..n : (IF i = 0 THEN m ELSE step[i][f[i - 1]]) = e(f, i)
    <3> TAKE i \in 0..n
    <3>1. CASE i = 0
      BY <3>1
    <3>2. CASE i # 0
      <4>1. i \in 1..n /\ i - 1 \in 0..n
        BY <3>2
      <4> QED BY <1>9, <1>10, <3>2, <4>1
    <3> QED BY <3>1, <3>2
  <2> QED BY <1>10, <2>1 DEF IsRun
<1>12. after = [i \in 0..n |-> e(after, i)]
  BY <1>11
<1> HIDE DEF after
<1>13. \A i \in 0..n : after[i] = e(after, i)
  BY <1>12
<1>14. after[0] = m /\ \A i \in 1..n : after[i] = RunHandler(after[i - 1], handlers[i])
  <2>1. after[0] = m
    BY <1>6, <1>13
  <2>2. ASSUME NEW i \in 1..n PROVE after[i] = RunHandler(after[i - 1], handlers[i])
    <3>1. i \in 0..n /\ i # 0
      OBVIOUS
    <3>2. after[i] = e(after, i)
      BY <1>13, <3>1
    <3> QED BY <3>1, <3>2
  <2> QED BY <2>1, <2>2
<1>15. \A i \in 0..n : after[i] \in within[i]
  <2>1. after[0] \in within[0]
    BY <1>8, <1>14
  <2>2. \A i \in 1..n : after[i - 1] \in within[i - 1] => after[i] \in within[i]
    <3> TAKE i \in 1..n
    <3> HAVE after[i - 1] \in within[i - 1]
    <3> QED BY <1>9, <1>14
  <2> QED BY <2>1, <2>2, RunStays
<1>16. after[n] \in ModalStates /\ Callback(m, after[n])
  BY <1>4, <1>6, <1>15
<1>17. ASSUME NEW h, handlers = <<h>> PROVE after[n] = RunHandler(m, h)
  <2>1. n = 1 /\ handlers[1] = h
    BY <1>1, <1>17
  <2>2. 1 \in 1..n /\ 1 - 1 = 0
    BY <2>1
  <2>3. after[1] = RunHandler(after[1 - 1], handlers[1])
    BY <1>14, <2>2
  <2> QED BY <1>14, <2>1, <2>2, <2>3
<1> QED BY <1>2, <1>16, <1>17

-----------------------------------------------------------------------------
LEMMA WaitingFacts ==
    /\ \A m : \A x : OneBackdrop(m, <<x>>) => \E b \in Backdrops(m) : m.onBackdrop[b] # <<>>
    /\ \A m : FadesAway(m) => m.timers # {}
<1>1. ASSUME NEW m, NEW x, OneBackdrop(m, <<x>>) PROVE m.onBackdrop[m.backdrop] # <<>>
  <2>1. <<x>> # <<>>
    OBVIOUS
  <2> QED BY <1>1, <2>1, Zenon DEF OneBackdrop
<1>2. \A m : FadesAway(m) => m.timers # {}
  BY DEF FadesAway
<1>3. \A m, x : OneBackdrop(m, <<x>>) => m.backdrop \in Backdrops(m)
  BY DEF OneBackdrop
<1> QED BY <1>1, <1>2, <1>3

LEMMA ShowInv == ModalInv /\ Show => ModalInv'
<1> SUFFICES ASSUME ModalInv, Show PROVE ModalInv'
  OBVIOUS
<1>0. PICK m \in ModalStates : m = modal
  BY DEF ModalInv
<1>1. PICK yes \in BOOLEAN : yes
  OBVIOUS
<1>10. PICK u : u = [m EXCEPT !.isShown = yes, !.keys = m.keys + 1]
  OBVIOUS
<1>2. PICK v : v = modal' /\ v = Backdrop(u, "present")
  BY <1>0, <1>1, <1>10 DEF Show
<1>3. ModalTyped(m, Backdrops(m)) /\ ~m.isShown /\ m.keys = 0
  BY <1>0, ModalStateFacts DEF ModalInv, KeyListening, Show
<1>4. /\ IsModalRecord(u) /\ u.isShown = yes /\ u.isShown /\ u.in = m.in /\ u.displayed = m.displayed
      /\ u.keys = 1 /\ u.traps = m.traps /\ u.onElement = m.onElement /\ u.timers = m.timers
      /\ u.backdrop = m.backdrop /\ u.onBackdrop = m.onBackdrop
  <2>1. u.keys = m.keys + 1 /\ m.keys + 1 = 1
    BY <1>3, <1>10 DEF ModalStates
  <2> QED BY <1>1, <1>10, <2>1 DEF ModalStates, IsModalRecord
<1>5. u \in ModalStates /\ Backdrops(u) = Backdrops(m)
  <2>1. u.isShown \in BOOLEAN /\ u.keys \in Nat
    BY <1>4
  <2> QED BY <1>3, <1>4, <2>1, ModalChangeFacts DEF ModalTyped
<1>6. v \in ModalStates /\ KeyListening(v)
  <2>1. Callback(u, v)
    BY <1>2, <1>5, BackdropKeeps
  <2> QED BY <1>4, <2>1 DEF Callback, KeyListening
<1>7. calls' \in Nat /\ calm' \in BOOLEAN /\ fades' = fades /\ withBackdrop' = withBackdrop
  BY DEF Show, ModalInv
<1>8. ASSUME calm' PROVE BackdropComes(v) \/ IsPresent(v)
  <2>1. calm /\ Through /\ OnItsWay(m)
    BY <1>0, <1>8 DEF Show, ModalInv
  <2>2. \A b \in Backdrops(m) : m.onBackdrop[b] = <<>>
    BY <1>0, <2>1 DEF Through
  <2>3. ~BackdropGoes(m) /\ ~FadesAway(m)
    BY <1>0, <2>1, <2>2, WaitingFacts DEF BackdropGoes, Through
  <2>4. IsHidden(m)
    BY <1>3, <2>1, <2>3 DEF OnItsWay, BackdropComes, IsPresent
  <2>5. /\ u.isShown /\ ~u.in /\ ~u.displayed /\ u.traps = 0 /\ ModalQuiet(u) /\ u.backdrop = 0
        /\ Backdrops(u) = {}
    BY <1>4, <1>5, <2>4 DEF IsHidden, ModalQuiet
  <2>6. Untimed("present") \in ModalHandler /\ Untimed("present").do = "present"
    BY UntimedFacts
  <2>7. Append(<<>>, Untimed("shown")) = <<Untimed("shown")>> /\ Append(<<>>, Untimed("present")) = <<Untimed("present")>>
    OBVIOUS
  <2>8. CASE withBackdrop
    <3>1. PICK n : n = MadeModal(u)
      OBVIOUS
    <3>2. /\ Callback(u, n) /\ SameBeside(u, n) /\ n.backdrop # 0
          /\ Backdrops(n) = Backdrops(u) \cup {n.backdrop} /\ n.onBackdrop[n.backdrop] = <<>>
      BY <1>5, <3>1, MadeModalFacts
    <3>3. v = IF fades THEN [n EXCEPT !.onBackdrop[n.backdrop] = Append(@, Untimed("present"))]
              ELSE Run(n, Untimed("present"))
      BY <1>2, <1>5, <2>5, <2>8, <3>1, BackdropCases
    <3>4. n \in ModalStates /\ OneBackdrop(n, <<>>)
      BY <2>5, <3>2 DEF Callback, OneBackdrop
    <3>5. CASE fades
      <4>1. v = [n EXCEPT !.onBackdrop[n.backdrop] = Append(@, Untimed("present"))]
        BY <3>3, <3>5
      <4>2. /\ SameBeside(n, v) /\ v.backdrop = n.backdrop /\ Backdrops(v) = Backdrops(n)
            /\ v.onBackdrop[n.backdrop] = Append(n.onBackdrop[n.backdrop], Untimed("present"))
        BY <2>6, <3>2, <3>4, <4>1, WaitFacts
      <4>3. OneBackdrop(v, <<Untimed("present")>>)
        BY <2>7, <3>4, <4>2 DEF OneBackdrop
      <4> QED BY <2>5, <2>8, <3>2, <4>2, <4>3 DEF BackdropComes, SameBeside, ModalQuiet
    <3>6. CASE ~fades
      <4>1. v = Run(n, Untimed("present"))
        BY <3>3, <3>6
      <4>2. /\ Callback(n, v) /\ v.displayed /\ v.in /\ v.traps = n.traps + 1
            /\ v.onElement = n.onElement /\ v.timers = n.timers
            /\ v.backdrop = n.backdrop /\ v.onBackdrop = n.onBackdrop
        BY <2>6, <3>4, <3>6, <4>1, PresentFacts
      <4>3. OneBackdrop(v, <<>>)
        BY <3>4, <4>2 DEF OneBackdrop, Backdrops
      <4> QED BY <2>5, <2>8, <3>2, <4>2, <4>3 DEF IsPresent, ItsBackdrop, SameBeside, Callback, ModalQuiet
    <3> QED BY <3>5, <3>6
  <2>9. CASE ~withBackdrop
    <3>1. v = Run(u, Untimed("present"))
      BY <1>2, <1>5, <2>5, <2>9, BackdropCases
    <3>2. /\ Callback(u, v) /\ v.displayed /\ v.in /\ v.traps = u.traps + 1
          /\ v.onElement = (IF fades THEN Append(u.onElement, Untimed("shown")) ELSE u.onElement)
          /\ v.timers = u.timers /\ v.backdrop = u.backdrop /\ v.onBackdrop = u.onBackdrop
      BY <1>5, <2>6, <3>1, PresentFacts
    <3>3. v.onElement \in {<<>>, <<Untimed("shown")>>}
      BY <2>5, <2>7, <3>2 DEF ModalQuiet
    <3>4. v.backdrop = 0 /\ Backdrops(v) = {}
      BY <2>5, <3>2 DEF Backdrops
    <3> QED BY <2>5, <2>9, <3>2, <3>3, <3>4 DEF IsPresent, ItsBackdrop, Callback, ModalQuiet
  <2> QED BY <2>8, <2>9
<1>9. calm' => OnItsWay(v)'
  <2>1. (BackdropComes(v) <=> BackdropComes(v)') /\ (IsPresent(v) <=> IsPresent(v)')
    BY <1>7 DEF BackdropComes, IsPresent, ItsBackdrop
  <2> QED BY <1>8, <2>1 DEF OnItsWay
<1> QED BY <1>2, <1>6, <1>7, <1>9 DEF ModalInv

LEMMA HideInv == ModalInv /\ Hide => ModalInv'
<1> SUFFICES ASSUME ModalInv, Hide PROVE ModalInv'
  OBVIOUS
<1>0. PICK m \in ModalStates : m = modal
  BY DEF ModalInv
<1>10. PICK no \in BOOLEAN : ~no
  OBVIOUS
<1>1. PICK u : u = Hidden(m)
  OBVIOUS
<1>2. PICK v : v = modal' /\ v = IF fades THEN HideWithTransition(u) ELSE HideModal(u)
  BY <1>0, <1>1 DEF Hide
<1>3. ModalTyped(m, Backdrops(m)) /\ m.isShown
  BY <1>0, ModalStateFacts DEF Hide
<1>4. /\ IsModalRecord(u) /\ u.isShown = no /\ u.in = no /\ u.displayed = m.displayed /\ u.keys = 0
      /\ u.traps = 0 /\ u.onElement = m.onElement /\ u.timers = m.timers
      /\ u.backdrop = m.backdrop /\ u.onBackdrop = m.onBackdrop
  <2>1. u = [m EXCEPT !.isShown = no, !.in = no, !.keys = 0, !.traps = 0]
    BY <1>1, <1>10 DEF Hidden
  <2> QED BY <2>1 DEF ModalStates, IsModalRecord
<1>5. u \in ModalStates /\ Backdrops(u) = Backdrops(m)
  <2>1. u.keys \in Nat /\ u.traps \in Nat
    BY <1>4
  <2> QED BY <1>3, <1>4, <2>1, ModalChangeFacts DEF ModalTyped
<1>6. calls \in Nat /\ calls' = calls /\ calm' \in BOOLEAN /\ fades' = fades /\ withBackdrop' = withBackdrop
  BY DEF Hide, ModalInv
<1>7. ASSUME calm' PROVE ItsBackdrop(u) /\ ModalQuiet(u) /\ u.displayed
  <2>1. calm /\ Through /\ OnItsWay(m)
    BY <1>0, <1>7 DEF Hide, ModalInv
  <2>2. \A b \in Backdrops(m) : m.onBackdrop[b] = <<>>
    BY <1>0, <2>1 DEF Through
  <2>3. ~BackdropComes(m)
    BY <2>2, WaitingFacts DEF BackdropComes
  <2>4. IsPresent(m)
    BY <1>3, <2>1, <2>3 DEF OnItsWay, IsHidden, FadesAway, BackdropGoes
  <2>5. ItsBackdrop(u)
    BY <1>4, <1>5, <2>4 DEF IsPresent, ItsBackdrop, OneBackdrop
  <2> QED BY <1>0, <1>4, <2>1, <2>4, <2>5 DEF IsPresent, ModalQuiet, Through
<1>8. CASE fades
  <2> DEFINE h == [do |-> "hide", timer |-> calls]
             onElement == Append(u.onElement, h)
  <2>1. h \in ModalHandler
    BY <1>6 DEF ModalHandler
  <2>2. ModalTyped(u, Backdrops(u))
    BY <1>5, ModalStateFacts
  <2>3. onElement \in Seq(ModalHandler) /\ u.timers \cup {calls} \in SUBSET Nat
    <3>1. u.onElement \in Seq(ModalHandler) /\ u.timers \in SUBSET Nat
      BY <2>2 DEF ModalTyped
    <3> HIDE DEF h
    <3> QED BY <1>6, <2>1, <3>1, AppendProperties
  <2>4. v = [u EXCEPT !.onElement = onElement, !.timers = u.timers \cup {calls}]
    BY <1>2, <1>8 DEF HideWithTransition
  <2> HIDE DEF onElement
  <2>5. /\ IsModalRecord(v) /\ v.isShown = no /\ v.in = no /\ v.displayed = u.displayed /\ v.keys = 0
        /\ v.traps = 0 /\ v.onElement = onElement /\ v.timers = u.timers \cup {calls}
        /\ v.backdrop = u.backdrop /\ v.onBackdrop = u.onBackdrop
    BY <1>4, <1>5, <2>4 DEF ModalStates, IsModalRecord
  <2>6. v \in ModalStates /\ Backdrops(v) = Backdrops(u)
    <3>1. v.keys \in Nat /\ v.traps \in Nat
      BY <2>5
    <3> QED BY <1>5, <2>2, <2>3, <2>5, <3>1, ModalChangeFacts DEF ModalTyped
  <2>7. ASSUME calm' PROVE FadesAway(v)
    <3>1. ItsBackdrop(u) /\ ModalQuiet(u) /\ u.displayed
      BY <1>7, <2>7
    <3>2. onElement = <<h>> /\ v.timers = {calls}
      BY <2>5, <3>1 DEF ModalQuiet, onElement
    <3>3. ItsBackdrop(v)
      BY <2>5, <2>6, <3>1 DEF ItsBackdrop, OneBackdrop
    <3> QED BY <1>6, <1>10, <2>5, <3>1, <3>2, <3>3 DEF FadesAway
  <2>8. FadesAway(v) <=> FadesAway(v)'
    BY <1>6 DEF FadesAway, ItsBackdrop
  <2> QED BY <1>2, <1>6, <1>10, <2>5, <2>6, <2>7, <2>8 DEF ModalInv, OnItsWay, KeyListening
<1>9. CASE ~fades
  <2>1. v = HideModal(u)
    BY <1>2, <1>9
  <2>2. v \in ModalStates /\ KeyListening(v)
    BY <1>4, <1>5, <1>10, <2>1, HideModalKeeps DEF Callback, KeyListening
  <2>3. calm' => OnItsWay(v)
    BY <1>4, <1>5, <1>7, <1>10, <2>1, HideModalFacts DEF ModalInv
  <2>4. OnItsWay(v) <=> OnItsWay(v)'
    BY <1>6 DEF OnItsWay, BackdropComes, IsPresent, FadesAway, ItsBackdrop
  <2> QED BY <1>2, <1>6, <2>2, <2>3, <2>4 DEF ModalInv
<1> QED BY <1>8, <1>9

\* Transitions that end, and the timer.
LEMMA ModalEnds ==
    ModalInv /\ (ElementTransitionEnd \/ BackdropTransitionEnd \/ HideTimer) => ModalInv'
<1> SUFFICES ASSUME ModalInv, ElementTransitionEnd \/ BackdropTransitionEnd \/ HideTimer
             PROVE  ModalInv'
  OBVIOUS
<1>0. PICK m \in ModalStates : m = modal
  BY DEF ModalInv
<1>1. UNCHANGED <<fades, withBackdrop, calls, calm>> /\ withBackdrop \in BOOLEAN
  BY DEF ElementTransitionEnd, BackdropTransitionEnd, HideTimer, ModalInv
<1>2. PICK v : v = modal'
  OBVIOUS
<1>3. ModalTyped(m, Backdrops(m)) /\ KeyListening(m) /\ (calm => OnItsWay(m))
  BY <1>0, ModalStateFacts DEF ModalInv
<1>4. SUFFICES v \in ModalStates /\ KeyListening(v) /\ (calm => OnItsWay(v))
  <2>1. OnItsWay(v) <=> OnItsWay(v)'
    BY <1>1 DEF OnItsWay, BackdropComes, IsPresent, FadesAway, ItsBackdrop
  <2> QED BY <1>1, <1>2, <2>1 DEF ModalInv
<1>5. CASE ElementTransitionEnd
  <2>1. PICK u : u = [m EXCEPT !.onElement = <<>>]
    OBVIOUS
  <2>2. v = RunAll(u, m.onElement) /\ m.onElement # <<>> /\ m.displayed
    BY <1>0, <1>2, <1>5, <2>1 DEF ElementTransitionEnd
  <2>3. /\ IsModalRecord(u) /\ u.isShown = m.isShown /\ u.in = m.in /\ u.displayed = m.displayed
        /\ u.keys = m.keys /\ u.traps = m.traps /\ u.onElement = <<>> /\ u.timers = m.timers
        /\ u.backdrop = m.backdrop /\ u.onBackdrop = m.onBackdrop
    BY <2>1 DEF ModalStates, IsModalRecord
  <2>4. u \in ModalStates /\ Backdrops(u) = Backdrops(m)
    <3>1. u.onElement \in Seq(ModalHandler)
      BY <2>3
    <3> QED BY <1>3, <2>3, <3>1, ModalChangeFacts DEF ModalTyped
  <2>5. m.onElement \in Seq(ModalHandler)
    BY <1>3 DEF ModalTyped
  <2>6. v \in ModalStates /\ KeyListening(v)
    <3>1. Callback(u, v)
      BY <2>2, <2>4, <2>5, RunAllFacts
    <3> QED BY <1>3, <2>3, <3>1 DEF Callback, KeyListening
  <2>7. ItsBackdrop(m) => ItsBackdrop(u)
    BY <2>3, <2>4 DEF ItsBackdrop, OneBackdrop
  <2>8. CASE IsPresent(m)
    <3>1. PICK h : h = Untimed("shown") /\ m.onElement = <<h>>
      BY <2>2, <2>8 DEF IsPresent
    <3>2. v = RunHandler(u, h)
      BY <2>2, <2>4, <2>5, <3>1, RunAllFacts
    <3>3. v = u
      BY <3>1, <3>2 DEF RunHandler, Run, Untimed
    <3> QED BY <2>3, <2>6, <2>7, <2>8, <3>3 DEF IsPresent, OnItsWay
  <2>9. CASE FadesAway(m)
    <3>0. PICK t \in Nat : m.timers = {t} /\ m.onElement = <<[do |-> "hide", timer |-> t]>>
      BY <2>9 DEF FadesAway
    <3>1. PICK h : h = [do |-> "hide", timer |-> t] /\ m.onElement = <<h>> /\ m.timers = {t}
      BY <3>0
    <3>2. v = RunHandler(u, h)
      BY <2>2, <2>4, <2>5, <3>1, RunAllFacts
    <3>3. PICK w : w = [u EXCEPT !.timers = u.timers \ {t}]
      OBVIOUS
    <3>4. v = HideModal(w)
      BY <3>1, <3>2, <3>3 DEF RunHandler
    <3>5. /\ IsModalRecord(w) /\ w.isShown = m.isShown /\ w.in = m.in /\ w.displayed = m.displayed
          /\ w.keys = m.keys /\ w.traps = m.traps /\ w.onElement = <<>> /\ w.timers = {}
          /\ w.backdrop = m.backdrop /\ w.onBackdrop = m.onBackdrop
      BY <2>3, <2>4, <3>1, <3>3 DEF ModalStates, IsModalRecord
    <3>6. w \in ModalStates /\ Backdrops(w) = Backdrops(m)
      <4>1. w.onElement \in Seq(ModalHandler) /\ w.timers \in SUBSET Nat
        BY <3>5
      <4> QED BY <1>3, <3>5, <4>1, ModalChangeFacts DEF ModalTyped
    <3>7. ItsBackdrop(w)
      BY <2>9, <3>5, <3>6 DEF FadesAway, ItsBackdrop, OneBackdrop
    <3>8. OnItsWay(v)
      BY <1>1, <2>9, <3>4, <3>5, <3>6, <3>7, HideModalFacts DEF FadesAway, ModalQuiet
    <3> QED BY <2>6, <3>8
  <2>10. calm => IsPresent(m) \/ FadesAway(m)
    BY <1>3, <2>2 DEF OnItsWay, IsHidden, BackdropComes, BackdropGoes, ModalQuiet
  <2> QED BY <2>6, <2>8, <2>9, <2>10
<1>6. CASE BackdropTransitionEnd
  <2>0. PICK b \in Backdrops(m) :
            m.onBackdrop[b] # <<>> /\ v = RunAll([m EXCEPT !.onBackdrop[b] = <<>>], m.onBackdrop[b])
    BY <1>0, <1>2, <1>6 DEF BackdropTransitionEnd
  <2>1. PICK onBackdrop \in [Backdrops(m) -> Seq(ModalHandler)] :
            onBackdrop = [m.onBackdrop EXCEPT ![b] = <<>>] /\ onBackdrop[b] = <<>>
    <3> DEFINE changed == [m.onBackdrop EXCEPT ![b] = <<>>]
    <3>1. m.onBackdrop \in [Backdrops(m) -> Seq(ModalHandler)] /\ <<>> \in Seq(ModalHandler)
      BY <1>3 DEF ModalTyped
    <3>2. changed \in [Backdrops(m) -> Seq(ModalHandler)] /\ changed[b] = <<>>
      BY <3>1
    <3> QED BY <3>2, Zenon
  <2>2. PICK u : u = [m EXCEPT !.onBackdrop = onBackdrop]
    OBVIOUS
  <2>3. v = RunAll(u, m.onBackdrop[b])
    BY <2>0, <2>1, <2>2
  <2>4. SameBeside(m, u) /\ u.backdrop = m.backdrop /\ u.onBackdrop = onBackdrop /\ IsModalRecord(u)
    BY <2>2 DEF ModalStates, SameBeside, IsModalRecord
  <2>5. u \in ModalStates /\ Backdrops(u) = Backdrops(m)
    <3>1. ModalTyped(u, Backdrops(m))
      BY <1>3, <2>4 DEF ModalTyped, SameBeside
    <3> QED BY <3>1, MakesModalState
  <2>6. m.onBackdrop[b] \in Seq(ModalHandler)
    BY <1>3 DEF ModalTyped
  <2>7. v \in ModalStates /\ KeyListening(v)
    <3>1. Callback(u, v)
      BY <2>3, <2>5, <2>6, RunAllFacts
    <3> QED BY <1>3, <2>4, <3>1 DEF Callback, KeyListening, SameBeside
  <2>8. CASE BackdropComes(m)
    <3>1. PICK h \in ModalHandler : h = Untimed("present") /\ h.do = "present"
      BY UntimedFacts
    <3>2. b = m.backdrop /\ m.onBackdrop[b] = <<h>>
      BY <2>8, <3>1 DEF BackdropComes, OneBackdrop
    <3>3. v = RunHandler(u, h)
      BY <2>3, <2>5, <2>6, <3>2, RunAllFacts
    <3>4. v = Run(u, h)
      BY <3>1, <3>3 DEF RunHandler
    <3>5. /\ Callback(u, v) /\ v.displayed /\ v.in /\ v.traps = u.traps + 1
          /\ v.onElement = (IF fades THEN Append(u.onElement, Untimed("shown")) ELSE u.onElement)
          /\ v.timers = u.timers /\ v.backdrop = u.backdrop /\ v.onBackdrop = u.onBackdrop
      BY <2>5, <3>1, <3>4, PresentFacts
    <3>6. Append(<<>>, Untimed("shown")) = <<Untimed("shown")>>
      OBVIOUS
    <3>7. v.onElement \in {<<>>, <<Untimed("shown")>>}
      BY <2>4, <2>8, <3>5, <3>6 DEF SameBeside, BackdropComes, ModalQuiet
    <3>8. OneBackdrop(v, <<>>) /\ withBackdrop
      BY <2>1, <2>4, <2>5, <2>8, <3>2, <3>5 DEF BackdropComes, OneBackdrop, Backdrops
    <3>9. IsPresent(v)
      BY <2>4, <2>8, <3>5, <3>7, <3>8 DEF IsPresent, ItsBackdrop, Callback, SameBeside, BackdropComes, ModalQuiet
    <3> QED BY <2>7, <3>9 DEF OnItsWay
  <2>9. CASE BackdropGoes(m)
    <3>1. PICK h \in ModalHandler : h = Untimed("clear") /\ h.do = "clear"
      BY UntimedFacts
    <3>2. b = m.backdrop /\ m.onBackdrop[b] = <<h>>
      BY <2>9, <3>1 DEF BackdropGoes, OneBackdrop
    <3>3. v = RunHandler(u, h)
      BY <2>3, <2>5, <2>6, <3>2, RunAllFacts
    <3>4. v = Run(u, h)
      BY <3>1, <3>3 DEF RunHandler
    <3>5. SameBeside(u, v) /\ v.backdrop = 0 /\ Backdrops(v) = Backdrops(u) \ {u.backdrop}
      BY <2>5, <3>1, <3>4, ClearFacts
    <3>6. Backdrops(v) = {}
      BY <2>4, <2>5, <2>9, <3>5 DEF BackdropGoes, OneBackdrop
    <3>7. IsHidden(v)
      BY <2>4, <2>9, <3>5, <3>6 DEF IsHidden, SameBeside, BackdropGoes, ModalQuiet
    <3> QED BY <2>7, <3>7 DEF OnItsWay
  <2>10. calm => BackdropComes(m) \/ BackdropGoes(m)
    BY <1>3, <2>0 DEF OnItsWay, IsHidden, IsPresent, FadesAway, ItsBackdrop, OneBackdrop
  <2> QED BY <2>7, <2>8, <2>9, <2>10
<1>7. CASE HideTimer
  <2>0. PICK t \in m.timers : v = HideModal([m EXCEPT !.timers = @ \ {t}, !.onElement = <<>>])
    BY <1>0, <1>2, <1>7 DEF HideTimer
  <2>1. PICK w : w = [m EXCEPT !.timers = m.timers \ {t}, !.onElement = <<>>]
    OBVIOUS
  <2>2. v = HideModal(w)
    BY <2>0, <2>1
  <2>3. /\ IsModalRecord(w) /\ w.isShown = m.isShown /\ w.in = m.in /\ w.displayed = m.displayed
        /\ w.keys = m.keys /\ w.traps = m.traps /\ w.onElement = <<>> /\ w.timers = m.timers \ {t}
        /\ w.backdrop = m.backdrop /\ w.onBackdrop = m.onBackdrop
    BY <2>1 DEF ModalStates, IsModalRecord
  <2>4. w \in ModalStates /\ Backdrops(w) = Backdrops(m)
    <3>1. w.onElement \in Seq(ModalHandler)
      BY <2>3
    <3>2. w.timers \in SUBSET Nat
      BY <1>3, <2>3 DEF ModalTyped
    <3> QED BY <1>3, <2>3, <3>1, <3>2, ModalChangeFacts DEF ModalTyped
  <2>5. v \in ModalStates /\ KeyListening(v)
    BY <1>3, <2>2, <2>3, <2>4, HideModalKeeps DEF Callback, KeyListening
  <2>6. ASSUME calm PROVE OnItsWay(v)
    <3>1. FadesAway(m)
      BY <1>3, <2>6 DEF OnItsWay, IsHidden, BackdropComes, IsPresent, BackdropGoes, ModalQuiet
    <3>2. w.timers = {}
      BY <2>3, <3>1 DEF FadesAway
    <3>3. ItsBackdrop(w)
      BY <2>3, <2>4, <3>1 DEF FadesAway, ItsBackdrop, OneBackdrop
    <3> QED BY <1>1, <2>2, <2>3, <2>4, <3>1, <3>2, <3>3, HideModalFacts DEF FadesAway, ModalQuiet
  <2> QED BY <2>5, <2>6
<1> QED BY <1>5, <1>6, <1>7

\* ModalAgrees, whatever the number of calls.
THEOREM ModalIsWhatItSays == ModalSpec => []ModalAgrees
<1>1. ModalInit => ModalInv
  <2> SUFFICES ASSUME ModalInit PROVE ModalInv
    OBVIOUS
  <2>1. /\ IsModalRecord(modal) /\ modal.isShown = FALSE /\ modal.in = FALSE /\ modal.displayed = FALSE
        /\ modal.keys = 0 /\ modal.traps = 0 /\ modal.backdrop = 0 /\ modal.onBackdrop = <<>>
        /\ modal.onElement = <<>> /\ modal.timers = {}
    BY DEF ModalInit, IsModalRecord
  <2>2. ModalTyped(modal, {})
    <3>1. <<>> \in [{} -> Seq(ModalHandler)] /\ <<>> \in Seq(ModalHandler) /\ FALSE \in BOOLEAN
      OBVIOUS
    <3>2. modal.onBackdrop \in [{} -> Seq(ModalHandler)] /\ modal.onElement \in Seq(ModalHandler)
      BY <2>1, <3>1, Zenon
    <3>3. modal.isShown \in BOOLEAN /\ modal.in \in BOOLEAN /\ modal.displayed \in BOOLEAN
      BY <2>1, <3>1, Zenon
    <3>4. modal.keys \in Nat /\ modal.traps \in Nat /\ modal.backdrop \in {} \cup {0}
          /\ modal.timers \in SUBSET Nat
      BY <2>1
    <3>5. IsFiniteSet({}) /\ {} \in SUBSET Nat /\ 0 \notin {}
      BY FS_EmptySet
    <3> QED BY <2>1, <3>2, <3>3, <3>4, <3>5, Zenon DEF ModalTyped
  <2>3. modal \in ModalStates /\ Backdrops(modal) = {}
    BY <2>2, MakesModalState
  <2>4. IsHidden(modal)
    BY <2>1, <2>3 DEF IsHidden, ModalQuiet
  <2> QED BY <2>1, <2>3, <2>4 DEF ModalInit, ModalInv, OnItsWay, KeyListening
<1>2. ModalInv /\ [ModalNext]_modalVars => ModalInv'
  <2>1. ModalInv /\ UNCHANGED modalVars => ModalInv'
    BY DEF ModalInv, modalVars, OnItsWay, BackdropComes, IsPresent, FadesAway, ItsBackdrop
  <2> QED BY <2>1, ShowInv, HideInv, ModalEnds DEF ModalNext
<1>3. ModalInv => ModalAgrees
  <2> SUFFICES ASSUME ModalInv PROVE ModalAgrees
    OBVIOUS
  <2>1. PICK m \in ModalStates : m = modal
    BY DEF ModalInv
  <2>2. m.keys = IF m.isShown THEN 1 ELSE 0
    BY <2>1 DEF ModalInv, KeyListening
  <2>3. ASSUME calm PROVE Backdrops(m) \subseteq {m.backdrop}
    BY <2>1, <2>3 DEF ModalInv, OnItsWay, IsHidden, BackdropComes, IsPresent, FadesAway,
        BackdropGoes, ItsBackdrop, OneBackdrop
  <2>4. ASSUME calm, Through
        PROVE  /\ m.displayed = m.isShown /\ m.in = m.isShown
               /\ Backdrops(m) # {} <=> m.isShown /\ withBackdrop
               /\ m.traps = IF m.isShown THEN 1 ELSE 0
    <3>1. OnItsWay(m) /\ m.timers = {} /\ \A b \in Backdrops(m) : m.onBackdrop[b] = <<>>
      BY <2>1, <2>4 DEF ModalInv, Through
    <3>2. ~BackdropComes(m) /\ ~BackdropGoes(m) /\ ~FadesAway(m)
      BY <3>1, WaitingFacts DEF BackdropComes, BackdropGoes
    <3>3. m.displayed \in BOOLEAN /\ m.in \in BOOLEAN /\ m.isShown \in BOOLEAN
      BY ModalStateFacts DEF ModalTyped
    <3> QED BY <3>1, <3>2, <3>3 DEF OnItsWay, IsHidden, IsPresent, ItsBackdrop, OneBackdrop
  <2> QED BY <2>1, <2>2, <2>3, <2>4 DEF ModalAgrees
<1>4. ModalSpec => ModalInit /\ [][ModalNext]_modalVars
  BY DEF ModalSpec
<1> QED BY <1>1, <1>2, <1>3, <1>4, PTL

-----------------------------------------------------------------------------
(***************************************************************************)
(* Typeahead: what a shown menu is good for.                               *)
(***************************************************************************)
KnownItems == ToSet(Known)
InputTexts == Text \cup {Empty} \cup KnownItems

TypeaheadStates ==
    [val : InputTexts, query : InputTexts, menu : Seq(KnownItems), lit : SUBSET Nat,
     shown : BOOLEAN, focused : BOOLEAN, mousedover : BOOLEAN]

\* One item of a shown menu is lit.
OneLit(t) == t.shown => \E i \in DOMAIN t.menu : t.lit = {i}

\* What a list without delay shows belongs to the text that the input has.
UpToDate(t) == t.shown => t.query = t.val /\ t.menu = Suggested(t.val, Known)

\* Who looks at the menu; without the focus or the pointer, nobody.
Looked(t) == t.shown => focus \/ t.mousedover

TypeaheadInv ==
    /\ typeahead \in TypeaheadStates
    /\ source \in {"array", "function"}
    /\ asked \subseteq Text \cup KnownItems
    /\ focus \in BOOLEAN /\ unheard \in BOOLEAN
    /\ OneLit(typeahead)
    /\ IF unheard THEN focus /\ ~typeahead.focused ELSE typeahead.focused = focus
    /\ source = "array" => UpToDate(typeahead) /\ Looked(typeahead) /\ asked = {}

LEMMA MatchingType ==
    ASSUME NEW query, NEW items \in Seq(KnownItems), NEW ways
    PROVE  Matching(query, items, ways) \in Seq(KnownItems)
<1>1. PICK n \in Nat : n = Len(items)
  BY LenProperties
<1> DEFINE e(g, i) == IF i = 0 THEN <<>>
                      ELSE IF MatchOf(query, items[i]) \in ways THEN Append(g[i - 1], items[i])
                      ELSE g[i - 1]
           kept == CHOOSE g : g = [i \in 0..n |-> e(g, i)]
           step == [i \in 1..n |-> [x \in Seq(KnownItems) |->
                      IF MatchOf(query, items[i]) \in ways THEN Append(x, items[i]) ELSE x]]
           within == [i \in 0..n |-> Seq(KnownItems)]
<1>2. Matching(query, items, ways) = kept[n]
  BY <1>1 DEF Matching
<1>3. <<>> \in Seq(KnownItems)
  OBVIOUS
<1>4. \A i \in 1..n : items[i] \in KnownItems
  BY <1>1, ElementOfSeq
<1>5. \A i \in 1..n : \A x \in Seq(KnownItems) :
          /\ step[i][x] = (IF MatchOf(query, items[i]) \in ways THEN Append(x, items[i]) ELSE x)
          /\ step[i][x] \in Seq(KnownItems)
  <2> TAKE i \in 1..n
  <2> TAKE x \in Seq(KnownItems)
  <2>1. Append(x, items[i]) \in Seq(KnownItems)
    BY <1>4, AppendProperties
  <2> QED BY <2>1
<1>6. \A i \in 0..n : within[i] = Seq(KnownItems)
  OBVIOUS
<1>7. \A i \in 1..n : i - 1 \in 0..n /\ i \in 0..n
  OBVIOUS
<1>8. 0 \in 0..n /\ n \in 0..n
  OBVIOUS
<1> HIDE DEF step, within
<1>9. PICK none : none = <<>>
  OBVIOUS
<1>10. none \in within[0]
  BY <1>3, <1>6, <1>8, <1>9
<1>11. \A i \in 1..n : \A x \in within[i - 1] : step[i][x] \in within[i]
  BY <1>5, <1>6, <1>7
<1>12. PICK g : IsRun(g, n, none, step) /\ \A i \in 0..n : g[i] \in within[i]
  BY <1>10, <1>11, RunExists
<1>13. g = [i \in 0..n |-> e(g, i)]
  <2>1. \A i \in 0..n : (IF i = 0 THEN none ELSE step[i][g[i - 1]]) = e(g, i)
    <3> TAKE i \in 0..n
    <3>1. CASE i = 0
      BY <1>9, <3>1
    <3>2. CASE i # 0
      <4>1. i \in 1..n /\ i - 1 \in 0..n
        BY <3>2
      <4>2. g[i - 1] \in Seq(KnownItems)
        BY <1>6, <1>12, <4>1
      <4> QED BY <1>5, <3>2, <4>1, <4>2
    <3> QED BY <3>1, <3>2
  <2> QED BY <1>12, <2>1 DEF IsRun
<1>14. kept = [i \in 0..n |-> e(kept, i)]
  BY <1>13
<1> HIDE DEF kept
<1>15. \A i \in 0..n : kept[i] = e(kept, i)
  BY <1>14
<1>16. \A i \in 0..n : kept[i] \in within[i]
  <2>1. kept[0] \in within[0]
    BY <1>8, <1>10, <1>9, <1>15
  <2>2. \A i \in 1..n : kept[i - 1] \in within[i - 1] => kept[i] \in within[i]
    <3> TAKE i \in 1..n
    <3> HAVE kept[i - 1] \in within[i - 1]
    <3>1. kept[i - 1] \in Seq(KnownItems)
      BY <1>6, <1>7
    <3>2. i \in 0..n /\ i # 0
      OBVIOUS
    <3>3. kept[i] = e(kept, i)
      BY <1>15, <3>2
    <3>4. kept[i] = (IF MatchOf(query, items[i]) \in ways THEN Append(kept[i - 1], items[i])
                     ELSE kept[i - 1])
      BY <3>2, <3>3
    <3>5. kept[i] = step[i][kept[i - 1]]
      BY <1>5, <3>1, <3>4
    <3> QED BY <1>11, <3>5
  <2> QED BY <2>1, <2>2, RunStays
<1> QED BY <1>2, <1>6, <1>8, <1>16

LEMMA SuggestedType ==
    ASSUME NEW query, NEW items \in Seq(KnownItems)
    PROVE  Suggested(query, items) \in Seq(KnownItems)
<1>1. PICK a \in Seq(KnownItems), b \in Seq(KnownItems), c \in Seq(KnownItems) :
          /\ a = Matching(query, items, {1})
          /\ b = Matching(query, items, {2})
          /\ c = Matching(query, items, {3})
  BY MatchingType
<1>2. PICK s \in Seq(KnownItems) : s = a \o b \o c
  BY ConcatProperties
<1>3. PICK n \in Nat : n = Len(s) /\ s \in [1..n -> KnownItems]
  BY LenProperties
<1>4. PICK k \in Nat : k = MenuLength
  BY TypeaheadAssumption
<1>5. Suggested(query, items) = SubSeq(s, 1, IF n < k THEN n ELSE k)
  BY <1>1, <1>2, <1>3, <1>4 DEF Suggested
<1>6. PICK m \in 0..n : m = (IF n < k THEN n ELSE k)
  OBVIOUS
<1>7. SubSeq(s, 1, m) = [i \in 1..m |-> s[i]]
  BY <1>2, <1>3, <1>6
<1>8. \A i \in 1..m : s[i] \in KnownItems
  <2>1. \A i \in 1..m : i \in 1..n
    OBVIOUS
  <2>2. \A i \in 1..n : s[i] \in KnownItems
    BY <1>3
  <2> QED BY <2>1, <2>2
<1>9. [i \in 1..m |-> s[i]] \in Seq(KnownItems)
  BY <1>6, <1>8
<1> QED BY <1>5, <1>6, <1>7, <1>9

LEMMA ProcessFacts ==
    ASSUME NEW t \in TypeaheadStates, NEW items \in Seq(KnownItems), NEW u, u = Process(t, items)
    PROVE  /\ u \in TypeaheadStates /\ OneLit(u)
           /\ u.val = t.val /\ u.query = t.query
           /\ u.focused = t.focused /\ u.mousedover = t.mousedover
           /\ u.shown => u.menu = Suggested(t.query, items)
<1>1. PICK m \in Seq(KnownItems) : m = Suggested(t.query, items)
  BY SuggestedType
<1>2. CASE m = <<>>
  <2>1. u = [t EXCEPT !.shown = FALSE]
    BY <1>1, <1>2 DEF Process, HideMenu
  <2> QED BY <2>1 DEF TypeaheadStates, OneLit
<1>3. CASE m # <<>>
  <2>1. 1 \in DOMAIN m
    BY <1>3, EmptySeq, LenProperties
  <2>2. PICK l \in SUBSET Nat : l = {1}
    <3>1. {1} \subseteq Nat
      OBVIOUS
    <3> QED BY <3>1, Zenon
  <2>3. u = [t EXCEPT !.menu = m, !.lit = l, !.shown = TRUE]
    BY <1>1, <1>3, <2>2 DEF Process
  <2>4. u \in TypeaheadStates /\ u.val = t.val /\ u.query = t.query
        /\ u.focused = t.focused /\ u.mousedover = t.mousedover /\ u.menu = m /\ u.lit = l
    BY <2>3 DEF TypeaheadStates
  <2> QED BY <1>1, <2>1, <2>2, <2>4 DEF OneLit
<1> QED BY <1>2, <1>3

LEMMA SelectFacts ==
    ASSUME NEW t \in TypeaheadStates, OneLit(t), t.shown, NEW u, u = Select(t)
    PROVE  /\ u \in TypeaheadStates /\ ~u.shown
           /\ u.focused = t.focused /\ u.mousedover = t.mousedover
<1>1. PICK i \in DOMAIN t.menu : t.lit = {i}
  BY DEF OneLit
<1>2. (CHOOSE j \in t.lit : TRUE) = i
  BY <1>1
<1>3. PICK v \in InputTexts : v = t.menu[i]
  <2>1. t.menu \in Seq(KnownItems)
    BY DEF TypeaheadStates
  <2>2. t.menu[i] \in KnownItems
    BY <2>1, ElementOfSeq, LenProperties
  <2> QED BY <2>2 DEF InputTexts
<1>4. u = [[t EXCEPT !.val = v] EXCEPT !.shown = FALSE]
  BY <1>2, <1>3 DEF Select, HideMenu
<1> QED BY <1>4 DEF TypeaheadStates

\* What Becomes may make of the object.
LEMMA BecomesFacts ==
    ASSUME NEW t \in TypeaheadStates, NEW rendered, Becomes(t, rendered)
    PROVE  /\ typeahead' \in TypeaheadStates
           /\ typeahead'.val = t.val /\ typeahead'.query = t.query
           /\ typeahead'.menu = t.menu /\ typeahead'.lit = t.lit
           /\ typeahead'.focused = t.focused
           /\ typeahead'.shown => t.shown /\ (t.focused \/ typeahead'.mousedover = t.mousedover)
<1>1. typeahead' = t \/ typeahead' = Leave(t)
  BY DEF Becomes
<1>2. CASE typeahead' = t
  BY <1>2
<1>3. CASE typeahead' = Leave(t)
  <2>1. PICK s \in BOOLEAN : s <=> t.shown /\ t.focused
    OBVIOUS
  <2>2. s = (t.shown /\ t.focused)
    BY <2>1 DEF TypeaheadStates
  <2>3. PICK u : u = Leave(t)
    OBVIOUS
  <2>4. u = [t EXCEPT !.mousedover = FALSE, !.shown = s]
    BY <2>2, <2>3 DEF Leave
  <2>5. u \in TypeaheadStates /\ u.val = t.val /\ u.query = t.query
        /\ u.menu = t.menu /\ u.lit = t.lit /\ u.focused = t.focused /\ (u.shown <=> s)
    BY <2>4 DEF TypeaheadStates
  <2> QED BY <1>3, <2>1, <2>3, <2>5
<1> QED BY <1>1, <1>2, <1>3

LEMMA TypeaheadInitInv == TypeaheadInit => TypeaheadInv
<1> SUFFICES ASSUME TypeaheadInit PROVE TypeaheadInv
  OBVIOUS
<1>1. PICK none : none = <<>>
  OBVIOUS
<1>2. none \in Seq(KnownItems)
  BY <1>1
<1>3. PICK l \in SUBSET Nat : l = {}
  OBVIOUS
<1>4. typeahead = [val |-> Empty, query |-> Empty, menu |-> none, lit |-> l,
                   shown |-> FALSE, focused |-> FALSE, mousedover |-> FALSE]
  BY <1>1, <1>3 DEF TypeaheadInit
<1>5. Empty \in InputTexts
  BY DEF InputTexts
<1>6. typeahead \in TypeaheadStates /\ ~typeahead.shown /\ typeahead.focused = FALSE
  BY <1>2, <1>4, <1>5 DEF TypeaheadStates
<1> QED BY <1>6 DEF TypeaheadInit, TypeaheadInv, OneLit, UpToDate, Looked

LEMMA MovedLit ==
    ASSUME NEW t \in TypeaheadStates, OneLit(t), t.shown, NEW step \in {1, -1},
           NEW u, u = Move(t, step)
    PROVE  /\ u \in TypeaheadStates /\ OneLit(u) /\ u.shown
           /\ u.val = t.val /\ u.query = t.query /\ u.menu = t.menu
           /\ u.focused = t.focused /\ u.mousedover = t.mousedover
<1>1. PICK i \in DOMAIN t.menu : t.lit = {i}
  BY DEF OneLit
<1>2. t.menu \in Seq(KnownItems)
  BY DEF TypeaheadStates
<1>3. PICK n \in Nat : n = Len(t.menu) /\ DOMAIN t.menu = 1..n
  BY <1>2, LenProperties
<1>4. PICK k \in 1..n : k = (IF i + step \in DOMAIN t.menu THEN i + step
                             ELSE IF step = 1 THEN 1 ELSE Len(t.menu))
  BY <1>1, <1>3
<1>5. PICK l \in SUBSET Nat : l = {k}
  <2>1. {k} \subseteq Nat
    OBVIOUS
  <2> QED BY <2>1, Zenon
<1>6. l = {IF j + step \in DOMAIN t.menu THEN j + step
           ELSE IF step = 1 THEN 1 ELSE Len(t.menu) : j \in t.lit}
  BY <1>1, <1>4, <1>5
<1>7. u = [t EXCEPT !.lit = l]
  BY <1>6 DEF Move
<1>8. /\ u \in TypeaheadStates /\ (u.shown <=> t.shown) /\ u.lit = l
      /\ u.val = t.val /\ u.query = t.query /\ u.menu = t.menu
      /\ u.focused = t.focused /\ u.mousedover = t.mousedover
  BY <1>7 DEF TypeaheadStates
<1> QED BY <1>3, <1>4, <1>5, <1>8 DEF OneLit

LEMMA TypeaheadNextInv == TypeaheadInv /\ [TypeaheadNext]_typeaheadVars => TypeaheadInv'
<1> SUFFICES ASSUME TypeaheadInv, [TypeaheadNext]_typeaheadVars PROVE TypeaheadInv'
  OBVIOUS
<1> PICK t : t = typeahead
  OBVIOUS
<1>0. /\ t \in TypeaheadStates /\ OneLit(t)
      /\ source \in {"array", "function"} /\ asked \subseteq Text \cup KnownItems
      /\ focus \in BOOLEAN /\ unheard \in BOOLEAN
      /\ IF unheard THEN focus /\ ~t.focused ELSE t.focused = focus
      /\ source = "array" => UpToDate(t) /\ Looked(t) /\ asked = {}
  BY DEF TypeaheadInv
<1>a. t.shown \in BOOLEAN /\ t.focused \in BOOLEAN /\ t.mousedover \in BOOLEAN
  BY <1>0 DEF TypeaheadStates
<1>b. t.focused => focus
  BY <1>0
<1>c. Known \in Seq(KnownItems)
  BY TypeaheadAssumption DEF KnownItems
<1> DEFINE HideIt(x) == x \in TypeaheadStates /\ ~x.shown
<1>1. CASE Focus
  <2>1. PICK u : u = [t EXCEPT !.focused = TRUE]
    OBVIOUS
  <2>2. typeahead' = u /\ focus' = TRUE /\ unheard' = FALSE /\ UNCHANGED <<source, asked>>
    BY <1>1, <2>1 DEF Focus
  <2>3. /\ u \in TypeaheadStates /\ u.focused = TRUE /\ u.shown = t.shown /\ u.menu = t.menu
        /\ u.lit = t.lit /\ u.val = t.val /\ u.query = t.query
    BY <1>0, <2>1 DEF TypeaheadStates
  <2> QED BY <1>0, <2>2, <2>3 DEF TypeaheadInv, OneLit, UpToDate, Looked
<1>2. CASE Blur
  <2>1. PICK f : f = [t EXCEPT !.focused = FALSE]
    OBVIOUS
  <2>2. PICK h : h = [f EXCEPT !.shown = FALSE]
    OBVIOUS
  <2>3. /\ f \in TypeaheadStates /\ f.focused = FALSE /\ f.shown = t.shown /\ f.menu = t.menu
        /\ f.lit = t.lit /\ f.val = t.val /\ f.query = t.query /\ f.mousedover = t.mousedover
    BY <1>0, <2>1 DEF TypeaheadStates
  <2>4. h \in TypeaheadStates /\ h.focused = FALSE /\ h.shown = FALSE
    BY <2>2, <2>3 DEF TypeaheadStates
  <2>5. PICK u \in TypeaheadStates : u = (IF f.mousedover THEN f ELSE h)
    BY <2>3, <2>4
  <2>6. Becomes(u, FALSE) /\ focus' = FALSE /\ unheard' = FALSE /\ UNCHANGED <<source, asked>>
    BY <1>2, <2>1, <2>2, <2>5 DEF Blur, HideMenu
  <2>7. /\ typeahead' \in TypeaheadStates
        /\ typeahead'.val = u.val /\ typeahead'.query = u.query
        /\ typeahead'.menu = u.menu /\ typeahead'.lit = u.lit
        /\ typeahead'.focused = u.focused
        /\ typeahead'.shown => u.shown /\ (u.focused \/ typeahead'.mousedover = u.mousedover)
    BY <2>6, BecomesFacts
  <2>8. u.focused = FALSE
    BY <2>3, <2>4, <2>5
  <2>9. CASE u = f /\ f.mousedover
    BY <1>0, <2>3, <2>6, <2>7, <2>8, <2>9 DEF TypeaheadInv, OneLit, UpToDate, Looked
  <2>10. CASE u = h
    BY <1>0, <2>4, <2>6, <2>7, <2>8, <2>10 DEF TypeaheadInv, OneLit, UpToDate, Looked
  <2> QED BY <2>5, <2>9, <2>10
<1>3. CASE TypeText
  <2>1. PICK text : /\ text \in Text \cup {Empty, t.val}
                    /\ LET c == [t EXCEPT !.val = text, !.query = text]
                       IN  \/ Becomes(HideMenu(c), FALSE) /\ UNCHANGED asked
                           \/ source = "array" /\ Becomes(Process(c, Known), TRUE) /\ UNCHANGED asked
                           \/ /\ text # Empty /\ source = "function"
                              /\ Becomes(c, FALSE) /\ asked' = asked \cup {text}
    <3>1. PICK text \in Text \cup {Empty, typeahead.val} :
              LET c == [typeahead EXCEPT !.val = text, !.query = text]
              IN  CASE text = Empty -> Becomes(HideMenu(c), FALSE) /\ UNCHANGED asked
                    [] text # Empty /\ source = "array" ->
                          Becomes(Process(c, Known), TRUE) /\ UNCHANGED asked
                    [] text # Empty /\ source = "function" ->
                          Becomes(c, FALSE) /\ asked' = asked \cup {text}
      BY <1>3 DEF TypeText
    <3>2. text = Empty \/ (text # Empty /\ source = "array") \/ (text # Empty /\ source = "function")
      BY <1>0
    <3> HIDE DEF HideIt
    <3>3. CASE text = Empty
      BY <3>1, <3>3
    <3>4. CASE text # Empty /\ source = "array"
      BY <3>1, <3>4
    <3>5. CASE text # Empty /\ source = "function"
      BY <3>1, <3>5
    <3> QED BY <3>2, <3>3, <3>4, <3>5
  <2>2. focus = TRUE /\ UNCHANGED <<source, focus, unheard>>
    BY <1>0, <1>3 DEF TypeText
  <2>3. text \in InputTexts
    BY <1>0, <2>1 DEF TypeaheadStates, InputTexts
  <2>4. PICK c : c = [t EXCEPT !.val = text, !.query = text]
    OBVIOUS
  <2>5. /\ c \in TypeaheadStates /\ c.val = text /\ c.query = text /\ c.menu = t.menu
        /\ c.lit = t.lit /\ c.shown = t.shown /\ c.focused = t.focused
    BY <1>0, <2>3, <2>4 DEF TypeaheadStates
  <2>6. CASE Becomes(HideMenu(c), FALSE) /\ UNCHANGED asked
    <3>1. PICK h : h = HideMenu(c)
      OBVIOUS
    <3>2. h \in TypeaheadStates /\ ~h.shown /\ h.focused = c.focused
      BY <2>5, <3>1 DEF TypeaheadStates, HideMenu
    <3>3. Becomes(h, FALSE)
      BY <2>6, <3>1
    <3>4. typeahead' \in TypeaheadStates /\ typeahead'.focused = h.focused /\ ~typeahead'.shown
      BY <3>2, <3>3, BecomesFacts
    <3> QED BY <1>0, <2>2, <2>5, <2>6, <3>2, <3>4 DEF TypeaheadInv, OneLit, UpToDate, Looked
  <2>7. CASE source = "array" /\ Becomes(Process(c, Known), TRUE) /\ UNCHANGED asked
    <3>1. PICK p : p = Process(c, Known)
      OBVIOUS
    <3>2. /\ p \in TypeaheadStates /\ OneLit(p) /\ p.val = text /\ p.query = text
          /\ p.focused = t.focused
          /\ p.shown => p.menu = Suggested(text, Known)
      BY <1>c, <2>5, <3>1, ProcessFacts
    <3>3. Becomes(p, TRUE)
      BY <2>7, <3>1
    <3>4. /\ typeahead' \in TypeaheadStates
          /\ typeahead'.val = p.val /\ typeahead'.query = p.query
          /\ typeahead'.menu = p.menu /\ typeahead'.lit = p.lit
          /\ typeahead'.focused = p.focused
          /\ typeahead'.shown => p.shown
      BY <3>2, <3>3, BecomesFacts
    <3> QED BY <1>0, <2>2, <2>7, <3>2, <3>4 DEF TypeaheadInv, OneLit, UpToDate, Looked
  <2>8. CASE text # Empty /\ source = "function" /\ Becomes(c, FALSE) /\ asked' = asked \cup {text}
    <3>1. /\ typeahead' \in TypeaheadStates
          /\ typeahead'.menu = c.menu /\ typeahead'.lit = c.lit
          /\ typeahead'.focused = c.focused
          /\ typeahead'.shown => c.shown
      BY <2>5, <2>8, BecomesFacts
    <3>2. asked' \subseteq Text \cup KnownItems
      BY <1>0, <2>3, <2>8 DEF InputTexts
    <3>3. source # "array"
      BY <2>8
    <3> QED BY <1>0, <2>2, <2>5, <3>1, <3>2, <3>3 DEF TypeaheadInv, OneLit
  <2> QED BY <2>1, <2>4, <2>6, <2>7, <2>8
<1>4. CASE SourceAnswers
  <2>1. PICK text \in asked :
            /\ asked' = asked \ {text}
            /\ Becomes(Process(t, Matching(text, Known, 1..3)), TRUE)
            /\ UNCHANGED <<source, focus, unheard>>
    BY <1>4 DEF SourceAnswers
  <2>2. PICK m \in Seq(KnownItems) : m = Matching(text, Known, 1..3)
    BY <1>c, MatchingType
  <2>3. PICK p : p = Process(t, m)
    OBVIOUS
  <2>4. p \in TypeaheadStates /\ OneLit(p) /\ p.focused = t.focused
    BY <1>0, <2>3, ProcessFacts
  <2>5. Becomes(p, TRUE)
    BY <2>1, <2>2, <2>3
  <2>6. /\ typeahead' \in TypeaheadStates
        /\ typeahead'.menu = p.menu /\ typeahead'.lit = p.lit
        /\ typeahead'.focused = p.focused
        /\ typeahead'.shown => p.shown
    BY <2>4, <2>5, BecomesFacts
  <2>7. source # "array"
    BY <1>0, <2>1
  <2> QED BY <1>0, <2>1, <2>4, <2>6, <2>7 DEF TypeaheadInv, OneLit
<1>5. CASE Arrow
  <2>1. PICK step \in {1, -1} : typeahead' = Move(t, step)
    BY <1>5 DEF Arrow
  <2>2. t.shown /\ UNCHANGED <<source, asked, focus, unheard>>
    BY <1>5 DEF Arrow
  <2>3. PICK u : u = Move(t, step)
    OBVIOUS
  <2>4. /\ u \in TypeaheadStates /\ OneLit(u) /\ u.shown
        /\ u.val = t.val /\ u.query = t.query /\ u.menu = t.menu
        /\ u.focused = t.focused /\ u.mousedover = t.mousedover
    BY <1>0, <2>2, <2>3, MovedLit
  <2> QED BY <1>0, <2>1, <2>2, <2>3, <2>4 DEF TypeaheadInv, OneLit, UpToDate, Looked
<1>6. CASE EnterOrTab
  <2>1. PICK u : u = Select(t)
    OBVIOUS
  <2>2. t.shown /\ Becomes(u, FALSE) /\ UNCHANGED <<source, asked, focus, unheard>>
    BY <1>6, <2>1 DEF EnterOrTab
  <2>3. u \in TypeaheadStates /\ ~u.shown /\ u.focused = t.focused
    BY <1>0, <2>1, <2>2, SelectFacts
  <2>4. typeahead' \in TypeaheadStates /\ typeahead'.focused = u.focused /\ ~typeahead'.shown
    BY <2>2, <2>3, BecomesFacts
  <2> QED BY <1>0, <2>2, <2>3, <2>4 DEF TypeaheadInv, OneLit, UpToDate, Looked
<1>7. CASE Escape
  <2>1. PICK u : u = HideMenu(t)
    OBVIOUS
  <2>2. Becomes(u, FALSE) /\ UNCHANGED <<source, asked, focus, unheard>>
    BY <1>7, <2>1 DEF Escape
  <2>3. u \in TypeaheadStates /\ ~u.shown /\ u.focused = t.focused
    BY <1>0, <2>1 DEF TypeaheadStates, HideMenu
  <2>4. typeahead' \in TypeaheadStates /\ typeahead'.focused = u.focused /\ ~typeahead'.shown
    BY <2>2, <2>3, BecomesFacts
  <2> QED BY <1>0, <2>2, <2>3, <2>4 DEF TypeaheadInv, OneLit, UpToDate, Looked
<1>8. CASE PointerOnItem
  <2>1. PICK i \in DOMAIN t.menu : typeahead' = [t EXCEPT !.mousedover = TRUE, !.lit = {i}]
    BY <1>8 DEF PointerOnItem
  <2>2. UNCHANGED <<source, asked, focus, unheard>>
    BY <1>8 DEF PointerOnItem
  <2>3. i \in Nat
    <3>1. t.menu \in Seq(KnownItems)
      BY <1>0 DEF TypeaheadStates
    <3>2. PICK n \in Nat : DOMAIN t.menu = 1..n
      BY <3>1, LenProperties
    <3> QED BY <3>2
  <2>4. PICK l \in SUBSET Nat : l = {i}
    BY <2>3
  <2>5. PICK u : u = [t EXCEPT !.mousedover = TRUE, !.lit = l]
    OBVIOUS
  <2>6. /\ u \in TypeaheadStates /\ u.lit = l /\ u.mousedover = TRUE /\ u.shown = t.shown
        /\ u.val = t.val /\ u.query = t.query /\ u.menu = t.menu /\ u.focused = t.focused
    BY <1>0, <2>5 DEF TypeaheadStates
  <2>7. typeahead' = u
    BY <2>1, <2>4, <2>5
  <2> QED BY <1>0, <2>2, <2>4, <2>6, <2>7 DEF TypeaheadInv, OneLit, UpToDate, Looked
<1>9. CASE PointerOffItem
  <2>1. PICK s \in BOOLEAN : s <=> t.shown /\ t.focused
    OBVIOUS
  <2>2. s = (t.shown /\ t.focused)
    BY <1>a, <2>1
  <2>3. PICK u : u = [t EXCEPT !.mousedover = FALSE, !.shown = s]
    OBVIOUS
  <2>4. typeahead' = u /\ UNCHANGED <<source, asked, focus, unheard>>
    BY <1>9, <2>2, <2>3 DEF PointerOffItem, Leave
  <2>5. /\ u \in TypeaheadStates /\ u.lit = t.lit /\ u.shown = s
        /\ u.val = t.val /\ u.query = t.query /\ u.menu = t.menu /\ u.focused = t.focused
    BY <1>0, <2>3 DEF TypeaheadStates
  <2> QED BY <1>0, <1>b, <2>1, <2>4, <2>5 DEF TypeaheadInv, OneLit, UpToDate, Looked
<1>10. CASE ClickItem
  <2>1. PICK s : s = Select(t)
    OBVIOUS
  <2>2. PICK u : u = [s EXCEPT !.focused = TRUE]
    OBVIOUS
  <2>3. t.shown /\ Becomes(u, FALSE) /\ focus' = TRUE /\ unheard' = FALSE /\ UNCHANGED <<source, asked>>
    BY <1>10, <2>1, <2>2 DEF ClickItem
  <2>4. s \in TypeaheadStates /\ ~s.shown
    BY <1>0, <2>1, <2>3, SelectFacts
  <2>5. u \in TypeaheadStates /\ ~u.shown /\ u.focused = TRUE
    BY <2>2, <2>4 DEF TypeaheadStates
  <2>6. typeahead' \in TypeaheadStates /\ typeahead'.focused = u.focused /\ ~typeahead'.shown
    BY <2>3, <2>5, BecomesFacts
  <2> QED BY <1>0, <2>3, <2>5, <2>6 DEF TypeaheadInv, OneLit, UpToDate, Looked
<1>11. CASE UNCHANGED typeaheadVars
  BY <1>0, <1>11 DEF typeaheadVars, TypeaheadInv, OneLit, UpToDate, Looked
<1> QED
  BY <1>1, <1>2, <1>3, <1>4, <1>5, <1>6, <1>7, <1>8, <1>9, <1>10, <1>11 DEF TypeaheadNext

\* Whatever keys, pointer, focus and late answers do in turn, a menu that is
\* shown has one of its items lit, the object knows whether the input has the
\* focus, and an array's suggestions are those for the text of the input and are
\* shown only while somebody can choose from them.
THEOREM SuggestionsFit == TypeaheadSpec => []TypeaheadAgrees
<1>1. TypeaheadInv => TypeaheadAgrees
  <2> SUFFICES ASSUME TypeaheadInv PROVE TypeaheadAgrees
    OBVIOUS
  <2>1. typeahead.shown => Cardinality(typeahead.lit) = 1 /\ typeahead.lit \subseteq DOMAIN typeahead.menu
    <3> HAVE typeahead.shown
    <3>1. PICK i \in DOMAIN typeahead.menu : typeahead.lit = {i}
      BY DEF TypeaheadInv, OneLit
    <3>2. Cardinality(typeahead.lit) = 1
      BY <3>1, FS_Singleton
    <3> QED BY <3>1, <3>2
  <2> QED BY <2>1 DEF TypeaheadInv, TypeaheadAgrees, UpToDate, Looked
<1> QED BY <1>1, TypeaheadInitInv, TypeaheadNextInv, PTL DEF TypeaheadSpec

-----------------------------------------------------------------------------
(***************************************************************************)
(* Effects.  While no call of stop() comes at a bad moment, the stack is a *)
(* loop overdue timers or a stop(), if any, then calls of dequeue() that have *)
(* started an effect, and on top perhaps one that is about to be called,   *)
(* before which a function of a script may run.  Nothing runs when         *)
(* dequeue() is about to be called, except in a stop() that has emptied    *)
(* the queue.                                                              *)
(***************************************************************************)
Effect == [do : {"show", "hide", "toggle", "delay", "inprogress"}, id : 0..MaxCalls]

Calling ==
    {Completion, DequeueNext}
    \cup [do : {"dequeued"}, queue : 0..MaxCalls]
    \cup [do : {"tick"}, i : Nat]
    \cup [do : {"ticked"}, i : Nat, id : Nat]
    \cup [do : {"stop"}, toEnd : BOOLEAN]
    \cup [do : {"stopTimers", "stopped"}, toEnd : BOOLEAN, i : Nat, had : BOOLEAN]

Fades == [id : 1..MaxCalls, shows : BOOLEAN, start : 0..Full, end : 0..Full, orig : 0..Full,
          halfway : BOOLEAN, complete : BOOLEAN]

EffectTypes ==
    /\ shown \in BOOLEAN /\ opacity \in 0..Full
    /\ fxshow \in {Unset, Full} /\ toggled \in {None, "show", "hide"}
    /\ queues \in [1..MaxCalls -> Seq(Effect)]
    /\ inUse \in 0..MaxCalls /\ hooks \in 0..MaxCalls
    /\ timers \in Seq(Fades) /\ delays \subseteq 1..MaxCalls
    /\ todo \in Seq(Calling) /\ made \in 0..MaxCalls
    /\ finished \in Seq(1..MaxCalls)

-----------------------------------------------------------------------------
\* The sentinel is only the first of the queue, and ids grow.
EndsAreOrdered(q) ==
    /\ \A i \in 1..Len(q) : (q[i] = InProgress \/ q[i].id \in 1..made) /\ (q[i].do = "inprogress" => q[i] = InProgress)
    /\ \A i, j \in 1..Len(q) : i < j => q[i].id < q[j].id

Marked == FxQueue # <<>> /\ FxQueue[1] = InProgress

Later(id) == \A i \in 1..Len(FxQueue) : FxQueue[i].id = 0 \/ id < FxQueue[i].id

EndOrderInv ==
    /\ EndsAreOrdered(FxQueue)
    /\ \A i \in 1..Len(finished) : finished[i] <= made /\ Later(finished[i])
    /\ \A i \in 1..Len(timers) : timers[i].id <= made
    /\ \A i \in 1..Len(timers) : timers[i].complete =>
          /\ Later(timers[i].id)
          /\ \A j \in 1..Len(finished) : finished[j] < timers[i].id
    /\ \A i, j \in 1..Len(finished) : i < j => finished[i] < finished[j]

-----------------------------------------------------------------------------
\* What is below the calls of dequeue(): a loop overdue timers or a stop(), and
\* calls of dequeue() that have started an effect.
Base(b) ==
    /\ \A p \in 1..Len(b) : p > 1 => b[p].do = "dequeued"
    /\ b # <<>> => b[1].do \in {"dequeued", "tick", "ticked", "stop", "stopTimers", "stopped"}
    /\ \A p \in 1..Len(b) : b[p].do = "dequeued" /\ inUse # 0 => b[p].queue = inUse /\ Marked

Root(b, kinds) == b # <<>> /\ b[1].do \in kinds

NoneRuns == delays = {} /\ \A i \in 1..Len(timers) : ~timers[i].complete

\* A timer that is overdue stays for a while.
TimersFit(b) ==
    IF Root(b, {"ticked", "stopped"})
    THEN /\ Len(timers) \in {1, 2} /\ ~timers[1].complete /\ (Len(timers) = 2 => timers[2].complete)
         /\ b[1].do = "ticked" => b[1].i = 1 /\ b[1].id = timers[1].id
         /\ b[1].do = "stopped" => b[1].i = 0 /\ b[1].toEnd /\ b[1].had
    ELSE Len(timers) <= 1 /\ \A i \in 1..Len(timers) : timers[i].complete

OneRuns ==
    /\ delays \subseteq {hooks}
    /\ delays = {} \/ \A i \in 1..Len(timers) : ~timers[i].complete

\* Nobody has to call dequeue().
Calm(b) ==
    /\ todo = b /\ OneRuns
    /\ Len(b) > 1 => ~Root(b, {"tick", "stop", "stopTimers"})
    /\ \/ NoneRuns \/ Marked
       \/ inUse = 0 /\ (Root(b, {"stop"}) \/ (Root(b, {"stopTimers"}) /\ ~b[1].had))
    /\ Root(b, {"tick"}) => b[1].i >= 1
    /\ Root(b, {"stopTimers"}) =>
          \/ b[1].i = Len(timers) /\ ~b[1].had /\ delays = {}
          \/ b[1].i = 0 /\ b[1].had /\ (IF b[1].toEnd THEN NoneRuns \/ Marked ELSE NoneRuns)

\* dequeue() is about to be called.
Due(b) ==
    /\ todo = Append(b, DequeueNext)
    /\ \/ NoneRuns /\ ~Root(b, {"tick", "stop", "stopTimers"})
       \/ Root(b, {"stop"}) /\ Len(b) = 1 /\ FxQueue = <<>> /\ OneRuns /\ delays = {}

\* A function called at an end runs.
ScriptDue(b) ==
    /\ todo = Append(Append(b, DequeueNext), Completion)
    /\ NoneRuns /\ ~Root(b, {"tick", "stop", "stopTimers"})
    /\ Marked \/ (inUse = 0 /\ Root(b, {"stopped"}))

-----------------------------------------------------------------------------
\* What the opacity is, and would be after the fade that runs is overdue or stopped.
StyleInv ==
    /\ toggled # None => shown
    /\ fxshow = Full => shown
    /\ \A i \in 1..Len(timers) : timers[i].complete =>
          /\ shown /\ timers[i].orig = Full
          /\ fxshow = Unset => IF timers[i].shows THEN timers[i].end = Full ELSE timers[i].start = Full
    /\ (\A i \in 1..Len(timers) : ~timers[i].complete) /\ fxshow = Unset => opacity = Full

CallsInv == \E b \in Seq(Calling) : Base(b) /\ TimersFit(b) /\ (Calm(b) \/ Due(b) \/ ScriptDue(b))

-----------------------------------------------------------------------------
LEMMA StackFacts ==
    ASSUME NEW S, NEW b \in Seq(S), NEW x \in S
    PROVE  /\ Append(b, x) \in Seq(S) /\ Append(b, x) # <<>>
           /\ Len(Append(b, x)) = Len(b) + 1
           /\ \A i \in 1..Len(b) : Append(b, x)[i] = b[i]
           /\ Append(b, x)[Len(b) + 1] = x
           /\ Last(Append(b, x)) = x /\ Front(Append(b, x)) = b
<1>1. PICK n \in Nat : n = Len(b)
  BY LenProperties
<1>2. PICK s \in Seq(S) : s = Append(b, x)
  BY AppendProperties
<1>3. s # <<>> /\ Len(s) = n + 1 /\ (\A i \in 1..n : s[i] = b[i]) /\ s[n + 1] = x
  BY <1>1, <1>2, AppendProperties
<1>4. Last(s) = x
  BY <1>3 DEF Last
<1>5. Front(s) = SubSeq(s, 1, n)
  BY <1>3 DEF Front
<1>6. SubSeq(s, 1, n) = b
  <2>1. \A i \in 1..n : s[i] \in S
    BY <1>1, <1>3, ElementOfSeq
  <2>2. /\ SubSeq(s, 1, n) \in Seq(S) /\ Len(SubSeq(s, 1, n)) = n
        /\ \A i \in 1..n : SubSeq(s, 1, n)[i] = s[i]
    <3>1. 1 \in Int /\ n \in Int
      OBVIOUS
    <3>2. /\ SubSeq(s, 1, n) \in Seq(S)
          /\ Len(SubSeq(s, 1, n)) = IF 1 <= n THEN n - 1 + 1 ELSE 0
          /\ \A i \in 1..(n - 1 + 1) : SubSeq(s, 1, n)[i] = s[1 + i - 1]
      BY <2>1, <3>1, SubSeqProperties
    <3> QED BY <3>2
  <2> QED BY <1>1, <1>3, <2>2, SeqEqual
<1> QED BY <1>1, <1>2, <1>3, <1>4, <1>5, <1>6

LEMMA OneFrame ==
    ASSUME NEW S, NEW x \in S
    PROVE  /\ <<x>> \in Seq(S) /\ <<x>> # <<>> /\ <<x>> = Append(<<>>, x)
           /\ Len(<<x>>) = 1 /\ <<x>>[1] = x /\ Last(<<x>>) = x /\ Front(<<x>>) = <<>>
<1>1. <<>> \in Seq(S)
  OBVIOUS
<1>2. <<x>> = Append(<<>>, x) /\ <<x>> \in Seq(S) /\ Len(<<x>>) = 1 /\ <<x>>[1] = x
  OBVIOUS
<1>3. PICK none \in Seq(S) : none = <<>>
  BY <1>1
<1>4. PICK one : one = Append(none, x)
  OBVIOUS
<1>5. one # <<>> /\ Last(one) = x /\ Front(one) = none
  BY <1>4, StackFacts
<1> QED BY <1>2, <1>3, <1>4, <1>5

LEMMA PoppedFacts ==
    ASSUME NEW S, NEW s \in Seq(S), s # <<>>
    PROVE  /\ Front(s) \in Seq(S) /\ Last(s) \in S /\ s = Append(Front(s), Last(s))
           /\ Len(s) \in Nat \ {0} /\ Len(Front(s)) = Len(s) - 1 /\ Last(s) = s[Len(s)]
           /\ \A i \in 1..(Len(s) - 1) : Front(s)[i] = s[i]
<1>1. PICK b \in Seq(S), x \in S : s = Append(b, x)
  BY SequenceEmptyOrAppend
<1>2. Front(s) = b /\ Last(s) = x /\ Len(s) = Len(b) + 1 /\ Len(b) \in Nat
  BY <1>1, StackFacts, LenProperties
<1>3. (\A i \in 1..Len(b) : s[i] = b[i]) /\ s[Len(b) + 1] = x
  BY <1>1, StackFacts
<1> QED BY <1>1, <1>2, <1>3

LEMMA FirstGone ==
    ASSUME NEW S, NEW s \in Seq(S), Len(s) \in {1, 2}
    PROVE  /\ RemoveAt(s, 1) \in Seq(S) /\ Len(RemoveAt(s, 1)) = Len(s) - 1
           /\ Len(s) = 2 => RemoveAt(s, 1)[1] = s[2]
<1>1. SubSeq(s, 1, 0) = <<>>
  BY SubSeqEmpty
<1>2. PICK t : t = SubSeq(s, 2, Len(s))
  OBVIOUS
<1>3. t \in Seq(S) /\ Len(t) = Len(s) - 1 /\ (Len(s) = 2 => t[1] = s[2])
  <2>1. \A i \in 2..Len(s) : s[i] \in S
    <3>1. \A i \in 2..Len(s) : i \in 1..Len(s)
      OBVIOUS
    <3> QED BY <3>1, ElementOfSeq
  <2>2. PICK n \in Int : n = Len(s)
    OBVIOUS
  <2>3. 2 \in Int
    OBVIOUS
  <2>4. /\ SubSeq(s, 2, n) \in Seq(S)
        /\ Len(SubSeq(s, 2, n)) = IF 2 <= n THEN n - 2 + 1 ELSE 0
        /\ \A i \in 1..(n - 2 + 1) : SubSeq(s, 2, n)[i] = s[2 + i - 1]
    BY <2>1, <2>2, <2>3, SubSeqProperties
  <2> QED BY <1>2, <2>2, <2>4
<1>4. RemoveAt(s, 1) = SubSeq(s, 1, 1 - 1) \o SubSeq(s, 1 + 1, Len(s))
  BY DEF RemoveAt
<1>5. 1 - 1 = 0 /\ 1 + 1 = 2
  OBVIOUS
<1>6. RemoveAt(s, 1) = <<>> \o t
  BY <1>1, <1>2, <1>4, <1>5
<1>7. <<>> \o t = t
  BY <1>3, ConcatEmptySeq
<1> QED BY <1>3, <1>6, <1>7

LEMMA EndsPushed ==
    ASSUME NEW b \in Seq(Calling)
    PROVE  b \o EffectEnds = Append(Append(b, DequeueNext), Completion)
<1>1. DequeueNext \in Calling /\ Completion \in Calling
  BY DEF Calling
<1>2. PICK c \in Seq(Calling) : c = Append(b, DequeueNext)
  BY <1>1, StackFacts
<1>3. PICK u \in Seq(Calling) : u = <<DequeueNext>>
  BY <1>1, OneFrame
<1>4. PICK v \in Seq(Calling) : v = <<Completion>>
  BY <1>1, OneFrame
<1>5. EffectEnds = u \o v
  <2>1. EffectEnds = Append(u, Completion)
    BY <1>3 DEF EffectEnds
  <2> QED BY <1>1, <1>3, <1>4, <2>1, AppendIsConcat
<1>6. Append(c, Completion) = (b \o u) \o v
  BY <1>1, <1>2, <1>3, <1>4, AppendIsConcat
<1> QED BY <1>2, <1>3, <1>4, <1>5, <1>6, ConcatAssociative

\* Where the top of the stack comes from.
OnTop(b) ==
    /\ Base(b) /\ TimersFit(b)
    /\ \/ Calm(b) /\ todo = <<>> /\ b = <<>>
       \/ /\ Calm(b) /\ todo # <<>> /\ b # <<>>
          /\ \/ Last(todo).do = "dequeued"
             \/ /\ Len(b) = 1 /\ Last(todo) = b[1] /\ Front(todo) = <<>> /\ b = <<b[1]>>
                /\ b[1].do \in {"tick", "ticked", "stop", "stopTimers", "stopped"}
       \/ Due(b) /\ todo # <<>> /\ Last(todo).do = "dequeue" /\ Front(todo) = b
       \/ ScriptDue(b) /\ todo # <<>> /\ Last(todo).do = "script" /\ Last(todo) = Completion
            /\ Front(todo) = Append(b, DequeueNext)

LEMMA TopOf ==
    ASSUME EffectTypes, CallsInv
    PROVE  \E b \in Seq(Calling) : OnTop(b)
<1>1. PICK b \in Seq(Calling) : Base(b) /\ TimersFit(b) /\ (Calm(b) \/ Due(b) \/ ScriptDue(b))
  BY DEF CallsInv
<1>2. DequeueNext \in Calling /\ Completion \in Calling /\ DequeueNext.do = "dequeue"
      /\ Completion.do = "script"
  BY DEF Calling, DequeueNext, Completion
<1>3. CASE Calm(b) /\ b = <<>>
  BY <1>1, <1>3 DEF OnTop, Calm
<1>4. CASE Calm(b) /\ b # <<>>
  <2>1. todo = b
    BY <1>4 DEF Calm
  <2>2. PICK n \in Nat \ {0} : n = Len(b) /\ Last(b) = b[n] /\ Len(Front(b)) = n - 1
    BY <1>4, PoppedFacts
  <2>3. CASE n = 1
    <3>1. Front(b) = <<>>
      BY <1>4, <2>2, <2>3, PoppedFacts, EmptySeq
    <3>2. b = <<b[1]>>
      <4>1. b = Append(Front(b), Last(b))
        BY <1>4, PoppedFacts
      <4>2. PICK x : x = b[1]
        OBVIOUS
      <4>3. <<x>> = Append(<<>>, x)
        OBVIOUS
      <4> QED BY <2>2, <2>3, <3>1, <4>1, <4>2, <4>3
    <3>3. b[1].do \in {"dequeued", "tick", "ticked", "stop", "stopTimers", "stopped"}
      BY <1>1, <1>4 DEF Base
    <3> QED BY <1>1, <1>4, <2>1, <2>2, <2>3, <3>1, <3>2, <3>3 DEF OnTop
  <2>4. CASE n # 1
    <3>1. b[n].do = "dequeued"
      BY <1>1, <2>2, <2>4 DEF Base
    <3> QED BY <1>1, <1>4, <2>1, <2>2, <3>1 DEF OnTop
  <2> QED BY <2>3, <2>4
<1>5. CASE Due(b)
  BY <1>1, <1>2, <1>5, StackFacts DEF OnTop, Due
<1>6. CASE ScriptDue(b)
  <2>1. PICK c \in Seq(Calling) : c = Append(b, DequeueNext)
    BY <1>2, StackFacts
  <2>2. todo = Append(c, Completion)
    BY <1>6, <2>1 DEF ScriptDue
  <2>3. Last(todo) = Completion /\ Front(todo) = c /\ todo # <<>>
    BY <1>2, <2>1, <2>2, StackFacts
  <2> QED BY <1>1, <1>2, <1>6, <2>1, <2>3 DEF OnTop
<1> QED BY <1>1, <1>3, <1>4, <1>5, <1>6

-----------------------------------------------------------------------------
\* The invariant, while misused is FALSE.
EffectsSound == EffectTypes /\ EndOrderInv /\ CallsInv /\ StyleInv

\* What of the invariant a step keeps that does not touch what it speaks of.
LEMMA OrderKept ==
    EndOrderInv /\ UNCHANGED <<queues, inUse, made, finished, timers>> => EndOrderInv'
BY DEF EndOrderInv, EndsAreOrdered, Later, FxQueue

LEMMA StyleKept == StyleInv /\ UNCHANGED <<styleVars, timers>> => StyleInv'
BY DEF StyleInv, styleVars

LEMMA MarkKept == UNCHANGED <<queues, inUse>> => (Marked <=> Marked')
BY DEF Marked, FxQueue

LEMMA BaseKept == ASSUME NEW b, Base(b), UNCHANGED <<queues, inUse>> PROVE Base(b)'
BY MarkKept DEF Base

LEMMA FitKept == ASSUME NEW b, TimersFit(b), UNCHANGED timers PROVE TimersFit(b)'
BY DEF TimersFit, Root

LEMMA StackMade ==
    ASSUME NEW b \in Seq(Calling), Base(b)', TimersFit(b)', Calm(b)' \/ Due(b)' \/ ScriptDue(b)'
    PROVE  CallsInv'
BY DEF CallsInv

LEMMA UnmovedSound ==
    EffectsSound /\ UNCHANGED <<styleVars, queueVars, timers, delays, todo, made, finished>> => EffectsSound'
<1> SUFFICES ASSUME EffectsSound, UNCHANGED <<styleVars, queueVars, timers, delays, todo, made, finished>>
             PROVE  EffectsSound'
  OBVIOUS
<1>1. UNCHANGED <<queues, inUse, hooks>> /\ UNCHANGED <<shown, opacity, fxshow, toggled>>
  BY DEF queueVars, styleVars
<1>2. EffectTypes'
  BY <1>1 DEF EffectsSound, EffectTypes
<1>3. EndOrderInv' /\ StyleInv'
  BY <1>1, OrderKept, StyleKept DEF EffectsSound
<1>4. PICK b \in Seq(Calling) : Base(b) /\ TimersFit(b) /\ (Calm(b) \/ Due(b) \/ ScriptDue(b))
  BY DEF EffectsSound, CallsInv
<1>5. Base(b)' /\ TimersFit(b)' /\ (Marked <=> Marked')
  BY <1>1, <1>4, BaseKept, FitKept, MarkKept
<1>6. (NoneRuns <=> NoneRuns') /\ (OneRuns <=> OneRuns')
  BY <1>1 DEF NoneRuns, OneRuns
<1>7. Calm(b)' \/ Due(b)' \/ ScriptDue(b)'
  BY <1>1, <1>4, <1>5, <1>6 DEF Calm, Due, ScriptDue, Root, FxQueue
<1> QED BY <1>2, <1>3, <1>5, <1>7, StackMade DEF EffectsSound

LEMMA ScriptReturnsSound == EffectsSound /\ ScriptReturns => EffectsSound'
<1> SUFFICES ASSUME EffectsSound, ScriptReturns PROVE EffectsSound'
  OBVIOUS
<1>1. PICK b \in Seq(Calling) : OnTop(b)
  BY TopOf DEF EffectsSound
<1>2. todo # <<>> /\ Last(todo).do = "script" /\ todo' = Front(todo)
  BY DEF ScriptReturns, Doing, Caller
<1>3. UNCHANGED <<queues, inUse, hooks>> /\ UNCHANGED <<shown, opacity, fxshow, toggled>>
      /\ UNCHANGED <<timers, delays, made, finished>>
  BY DEF ScriptReturns, queueVars, styleVars, ghostVars
<1>4. ScriptDue(b) /\ todo' = Append(b, DequeueNext) /\ Base(b) /\ TimersFit(b)
  <2>1. ~("script" = "dequeued" \/ "script" = "dequeue")
    OBVIOUS
  <2> QED BY <1>1, <1>2 DEF OnTop
<1>5. todo' \in Seq(Calling)
  BY <1>4, StackFacts DEF Calling
<1>6. EffectTypes'
  BY <1>3, <1>5 DEF EffectsSound, EffectTypes
<1>7. EndOrderInv' /\ StyleInv'
  BY <1>3, OrderKept, StyleKept DEF EffectsSound, styleVars
<1>8. Due(b)'
  BY <1>3, <1>4 DEF ScriptDue, Due, NoneRuns, Root
<1> QED BY <1>3, <1>4, <1>6, <1>7, <1>8, BaseKept, FitKept, StackMade DEF EffectsSound

LEMMA TickSound == EffectsSound /\ Tick => EffectsSound'
<1> SUFFICES ASSUME EffectsSound, Tick PROVE EffectsSound'
  OBVIOUS
<1>1. PICK b \in Seq(Calling) : OnTop(b)
  BY TopOf DEF EffectsSound
<1>2. todo = <<>>
  BY DEF Tick
<1>3. UNCHANGED <<queues, inUse, hooks>> /\ UNCHANGED <<shown, opacity, fxshow, toggled>>
      /\ UNCHANGED <<timers, delays, made, finished>>
  BY DEF Tick, queueVars, styleVars, ghostVars
<1>4. Calm(b) /\ b = <<>> /\ TimersFit(b)
  BY <1>1, <1>2 DEF OnTop
<1>5. PICK f : f = [do |-> "tick", i |-> 1]
  OBVIOUS
<1>6. f \in Calling /\ f.do = "tick" /\ f.i = 1
  BY <1>5 DEF Calling
<1>7. PICK c : c = <<f>>
  OBVIOUS
<1>8. c \in Seq(Calling) /\ Len(c) = 1 /\ c[1] = f /\ c # <<>>
  BY <1>6, <1>7, OneFrame
<1>9. todo' = c
  BY <1>5, <1>7 DEF Tick
<1>10. EffectTypes'
  BY <1>3, <1>8, <1>9 DEF EffectsSound, EffectTypes
<1>11. EndOrderInv' /\ StyleInv'
  BY <1>3, OrderKept, StyleKept DEF EffectsSound, styleVars
<1>12. Base(c)'
  BY <1>6, <1>8 DEF Base
<1>13. TimersFit(c)'
  BY <1>3, <1>4, <1>6, <1>8 DEF TimersFit, Root
<1>14. Calm(c)'
  <2>1. OneRuns' /\ (NoneRuns' \/ Marked')
    BY <1>3, <1>4, MarkKept DEF Calm, OneRuns, NoneRuns, Root
  <2> QED BY <1>6, <1>8, <1>9, <2>1 DEF Calm, Root
<1> QED BY <1>8, <1>10, <1>11, <1>12, <1>13, <1>14, StackMade DEF EffectsSound

LEMMA DelayTimerSound == EffectsSound /\ DelayTimer => EffectsSound'
<1> SUFFICES ASSUME EffectsSound, DelayTimer PROVE EffectsSound'
  OBVIOUS
<1>1. PICK b \in Seq(Calling) : OnTop(b)
  BY TopOf DEF EffectsSound
<1>2. PICK id \in delays : todo = <<>> /\ delays' = delays \ {id} /\ todo' = <<DequeueNext>>
  BY DEF DelayTimer
<1>3. UNCHANGED <<queues, inUse, hooks>> /\ UNCHANGED <<shown, opacity, fxshow, toggled>>
      /\ UNCHANGED <<timers, made, finished>>
  BY DEF DelayTimer, queueVars, styleVars, ghostVars
<1>4. Calm(b) /\ b = <<>> /\ TimersFit(b) /\ Base(b)
  BY <1>1, <1>2 DEF OnTop
<1>5. DequeueNext \in Calling
  BY DEF Calling
<1>6. todo' = Append(b, DequeueNext) /\ todo' \in Seq(Calling)
  BY <1>2, <1>4, <1>5, OneFrame
<1>7. EffectTypes'
  BY <1>2, <1>3, <1>6 DEF EffectsSound, EffectTypes
<1>8. EndOrderInv' /\ StyleInv'
  BY <1>3, OrderKept, StyleKept DEF EffectsSound, styleVars
<1>9. NoneRuns'
  BY <1>2, <1>3, <1>4 DEF Calm, OneRuns, NoneRuns
<1>10. Due(b)'
  BY <1>4, <1>6, <1>9 DEF Due, Root
<1> QED BY <1>3, <1>4, <1>7, <1>8, <1>10, BaseKept, FitKept, StackMade DEF EffectsSound

LEMMA DequeuedSound == EffectsSound /\ Dequeued => EffectsSound'
<1> SUFFICES ASSUME EffectsSound, Dequeued PROVE EffectsSound'
  OBVIOUS
<1>1. PICK c \in Seq(Calling) : OnTop(c)
  BY TopOf DEF EffectsSound
<1>2. todo # <<>> /\ Last(todo).do = "dequeued" /\ todo' = Front(todo)
  BY DEF Dequeued, Doing, Caller
<1>3. UNCHANGED <<shown, opacity, fxshow, toggled>> /\ UNCHANGED <<queues, timers, delays, made, finished>>
  BY DEF Dequeued, styleVars, ghostVars
<1>4. Calm(c) /\ c # <<>> /\ Base(c) /\ TimersFit(c)
  BY <1>1, <1>2 DEF OnTop
<1>5. todo = c
  BY <1>4 DEF Calm
<1>6. PICK n \in Nat \ {0} : n = Len(c) /\ Last(c) = c[n]
  BY <1>4, PoppedFacts
<1>7. PICK b \in Seq(Calling) : b = Front(c) /\ Len(b) = n - 1 /\ \A i \in 1..(n - 1) : b[i] = c[i]
  BY <1>4, <1>6, PoppedFacts
<1>8. todo' = b
  BY <1>2, <1>5, <1>7
<1>9. ~Root(c, {"tick", "stop", "stopTimers"})
  <2>1. n = 1 => c[1].do = "dequeued"
    BY <1>2, <1>5, <1>6
  <2> QED BY <1>4, <1>6, <2>1 DEF Calm, Root
<1>10. NoneRuns \/ Marked
  BY <1>4, <1>9 DEF Calm, Root
<1>11. /\ inUse' = inUse \/ inUse' = 0
       /\ hooks' = hooks \/ (hooks' = 0 /\ delays = {})
       /\ inUse' # 0 => inUse' = inUse
       /\ inUse # 0 => inUse' = inUse /\ hooks' = hooks
  <2>1. CASE inUse # 0
    <3>1. c[n].queue = inUse /\ Marked
      BY <1>2, <1>4, <1>5, <1>6, <2>1 DEF Base
    <3>2. queues[Last(todo).queue] # <<>>
      BY <1>5, <1>6, <2>1, <3>1 DEF Marked, FxQueue
    <3> QED BY <2>1, <3>2 DEF Dequeued
  <2>2. CASE inUse = 0
    <3>1. ~Marked
      BY <2>2 DEF Marked, FxQueue
    <3>2. delays = {}
      BY <1>10, <3>1 DEF NoneRuns
    <3> QED BY <2>2, <3>2 DEF Dequeued, ForgetQueue
  <2> QED BY <2>1, <2>2
<1>12. EffectTypes'
  <2>1. inUse' \in 0..MaxCalls /\ hooks' \in 0..MaxCalls
    BY <1>11, EffectsAssumption DEF EffectsSound, EffectTypes
  <2> QED BY <1>3, <1>8, <2>1 DEF EffectsSound, EffectTypes
<1>13. inUse' = inUse
  BY <1>11
<1>14. EndOrderInv' /\ StyleInv'
  BY <1>3, <1>13, OrderKept, StyleKept DEF EffectsSound, styleVars
<1>15. Marked <=> Marked'
  BY <1>3, <1>13, MarkKept
<1>16. Base(b)'
  BY <1>4, <1>6, <1>7, <1>13, <1>15, EmptySeq DEF Base
<1>17. b # <<>> => Len(b) # 0 /\ b[1] = c[1] /\ n > 1
  BY <1>6, <1>7, EmptySeq
<1>18. TimersFit(b)'
  <2>1. Root(b, {"ticked", "stopped"}) <=> Root(c, {"ticked", "stopped"})
    <3>1. n = 1 => c[1].do = "dequeued" /\ b = <<>>
      BY <1>2, <1>5, <1>6, <1>7, EmptySeq
    <3>2. n # 1 => b # <<>>
      BY <1>6, <1>7, EmptySeq
    <3> QED BY <1>4, <1>17, <3>1, <3>2 DEF Root
  <2>2. Root(c, {"ticked", "stopped"}) => b # <<>>
    BY <2>1 DEF Root
  <2> QED BY <1>3, <1>4, <1>17, <2>1, <2>2 DEF TimersFit, Root
<1>19. Calm(b)'
  <2>1. OneRuns'
    BY <1>3, <1>4, <1>11 DEF Calm, OneRuns
  <2>2. NoneRuns' \/ Marked'
    BY <1>3, <1>10, <1>15 DEF NoneRuns
  <2>3. ~Root(b, {"tick", "stop", "stopTimers"})
    BY <1>4, <1>9, <1>17 DEF Root
  <2>4. ~Root(b, {"tick"}) /\ ~Root(b, {"stopTimers"})
    BY <2>3 DEF Root
  <2> QED BY <1>8, <2>1, <2>2, <2>3, <2>4 DEF Calm, Root
<1> QED BY <1>12, <1>14, <1>16, <1>18, <1>19, StackMade DEF EffectsSound

LEMMA EndsGrow ==
    ASSUME NEW s, NEW r, NEW l \in Nat, \A i \in 1..l : r[i] = s[i] /\ s[i] < r[l + 1],
           \A i, j \in 1..l : i < j => s[i] < s[j]
    PROVE  \A i, j \in 1..(l + 1) : i < j => r[i] < r[j]
<1> TAKE i, j \in 1..(l + 1)
<1> HAVE i < j
<1>1. i \in 1..l
  <2>1. 1 <= i /\ i < j /\ j <= l + 1 /\ i \in Int /\ j \in Int
    OBVIOUS
  <2> QED BY <2>1
<1>2. j \in 1..l \/ j = l + 1
  OBVIOUS
<1>3. CASE j = l + 1
  BY <1>1, <1>3
<1>4. CASE j \in 1..l
  BY <1>1, <1>4
<1> QED BY <1>2, <1>3, <1>4

\* The last step of the fade that runs.
LEMMA LastStepSound ==
    ASSUME EffectsSound, UNCHANGED <<queues, inUse, hooks, delays, made>>,
           Len(timers) = 1, timers[1].complete, delays = {},
           NEW c \in Seq(Calling), LastStep(1, c), Len(c) = 1, c # <<>>,
           \/ c[1].do = "ticked" /\ c[1].i = 1 /\ c[1].id = timers[1].id /\ Marked
           \/ c[1].do = "stopped" /\ c[1].i = 0 /\ c[1].toEnd /\ c[1].had /\ (Marked \/ inUse = 0)
    PROVE  EffectsSound'
<1>1. PICK t : t = timers[1]
  OBVIOUS
<1>2. t \in Fades /\ t.complete
  <2>1. timers \in Seq(Fades) /\ 1 \in 1..Len(timers)
    BY DEF EffectsSound, EffectTypes
  <2>2. t \in Fades
    BY <1>1, <2>1, ElementOfSeq
  <2> QED BY <1>1, <2>2
<1>3. t.id \in 1..MaxCalls /\ t.shows \in BOOLEAN /\ t.orig \in 0..Full
  BY <1>2 DEF Fades
<1>4. PICK u : u = [t EXCEPT !.complete = FALSE]
  OBVIOUS
<1>5. u \in Fades /\ ~u.complete /\ u.id = t.id
  BY <1>2, <1>4 DEF Fades
<1>6. timers' = [timers EXCEPT ![1] = u]
  BY <1>1, <1>4 DEF LastStep
<1>7. timers' \in Seq(Fades) /\ Len(timers') = 1 /\ timers'[1] = u
  <2>1. timers \in Seq(Fades)
    BY DEF EffectsSound, EffectTypes
  <2>2. PICK s \in Seq(Fades) : s = timers /\ Len(s) = 1
    BY <2>1
  <2>3. PICK r : r = [s EXCEPT ![1] = u]
    OBVIOUS
  <2>4. 1 \in 1..Len(s)
    BY <2>2
  <2>5. r \in Seq(Fades) /\ Len(r) = Len(s) /\ r[1] = u
    BY <1>5, <2>3, <2>4, ExceptSeq
  <2> QED BY <1>6, <2>2, <2>3, <2>5
<1>8. /\ opacity' = t.orig /\ shown' = (shown /\ t.shows) /\ fxshow' = Unset /\ toggled' = None
      /\ todo' = c \o EffectEnds /\ finished' = Append(finished, t.id)
  BY <1>1, <1>2 DEF LastStep
<1>9. todo' = Append(Append(c, DequeueNext), Completion)
  BY <1>8, EndsPushed
<1>10. PICK d \in Seq(Calling) : d = Append(c, DequeueNext)
  <2>1. DequeueNext \in Calling
    BY DEF Calling
  <2> QED BY <2>1, StackFacts
<1>11. todo' \in Seq(Calling)
  BY <1>9, <1>10, StackFacts DEF Calling
<1>12. PICK n \in Nat : n = Len(finished)
  BY LenProperties DEF EffectsSound, EffectTypes
<1>13. /\ finished' \in Seq(1..MaxCalls) /\ Len(finished') = n + 1 /\ finished'[n + 1] = t.id
       /\ \A i \in 1..n : finished'[i] = finished[i]
  <2>1. finished \in Seq(1..MaxCalls)
    BY DEF EffectsSound, EffectTypes
  <2> QED BY <1>3, <1>8, <1>12, <2>1, AppendProperties
<1>14. EffectTypes'
  <2>1. shown' \in BOOLEAN
    BY <1>3, <1>8 DEF EffectsSound, EffectTypes
  <2> QED BY <1>3, <1>7, <1>8, <1>11, <1>13, <2>1 DEF EffectsSound, EffectTypes, Full, Unset, None
<1>15. EndOrderInv'
  <2>1. /\ t.id <= made /\ Later(t.id) /\ \A j \in 1..n : finished[j] < t.id
    BY <1>1, <1>2, <1>12 DEF EffectsSound, EndOrderInv
  <2>2. FxQueue' = FxQueue /\ (EndsAreOrdered(FxQueue) => EndsAreOrdered(FxQueue)')
    BY DEF FxQueue, Later, EndsAreOrdered
  <2>3. \A i \in 1..n : finished'[i] <= made /\ Later(finished'[i])
    BY <1>12, <1>13 DEF EffectsSound, EndOrderInv
  <2>4. (\A i \in 1..Len(finished) : finished[i] <= made /\ Later(finished[i]))'
    <3>1. made' = made
      OBVIOUS
    <3>2. \A i \in 1..(n + 1) : finished'[i] <= made /\ Later(finished'[i])
      BY <1>13, <2>1, <2>3
    <3> QED BY <1>13, <3>1, <3>2 DEF Later, FxQueue
  <2>5. \A i, j \in 1..(n + 1) : i < j => finished'[i] < finished'[j]
    <3>1. \A i \in 1..n : finished'[i] = finished[i] /\ finished[i] < finished'[n + 1]
      BY <1>13, <2>1
    <3>2. \A i, j \in 1..n : i < j => finished[i] < finished[j]
      BY <1>12 DEF EffectsSound, EndOrderInv
    <3> QED BY <3>1, <3>2, EndsGrow
  <2>6. (\A i \in 1..Len(timers) : timers[i].id <= made)'
    BY <1>1, <1>5, <1>7, <2>1
  <2>7. (\A i \in 1..Len(timers) : ~timers[i].complete)'
    BY <1>5, <1>7
  <2> QED BY <1>13, <2>2, <2>4, <2>5, <2>6, <2>7 DEF EffectsSound, EndOrderInv
<1>16. StyleInv'
  <2>1. t.orig = Full
    BY <1>1, <1>2 DEF EffectsSound, StyleInv
  <2>2. (\A i \in 1..Len(timers) : ~timers[i].complete)'
    BY <1>5, <1>7
  <2> QED BY <1>8, <2>1, <2>2 DEF StyleInv, Full, Unset, None
<1>17. Marked <=> Marked'
  BY MarkKept
<1>18. NoneRuns'
  BY <1>5, <1>7 DEF NoneRuns
<1>19. c # <<>> /\ Root(c, {"ticked", "stopped"}) /\ ~Root(c, {"tick", "stop", "stopTimers"})
       /\ (~Marked => inUse = 0 /\ Root(c, {"stopped"}))
  <2>1. c # <<>>
    OBVIOUS
  <2>2. c[1].do \in {"ticked", "stopped"} /\ (~Marked => inUse = 0 /\ c[1].do = "stopped")
    OBVIOUS
  <2>3. PICK f : f = c[1].do
    OBVIOUS
  <2>4. f \in {"ticked", "stopped"} /\ ~(f \in {"tick", "stop", "stopTimers"})
    BY <2>2, <2>3
  <2> QED BY <2>1, <2>2, <2>3, <2>4 DEF Root
<1>20. ScriptDue(c)'
  BY <1>9, <1>17, <1>18, <1>19 DEF ScriptDue, Root
<1>21. Base(c)'
  BY <1>17, <1>19 DEF Base
<1>22. TimersFit(c)'
  <2>1. timers[1].id = timers'[1].id /\ ~timers'[1].complete
    BY <1>1, <1>5, <1>7
  <2> QED BY <1>7, <1>19, <2>1 DEF TimersFit, Root
<1> QED BY <1>14, <1>15, <1>16, <1>20, <1>21, <1>22, StackMade DEF EffectsSound

LEMMA LoopOnTop ==
    ASSUME EffectsSound, todo # <<>>,
           Last(todo).do \in {"tick", "ticked", "stop", "stopTimers", "stopped"}
    PROVE  \E b \in Seq(Calling) :
              /\ Base(b) /\ TimersFit(b) /\ Calm(b)
              /\ Len(b) = 1 /\ b # <<>> /\ b[1] = Last(todo) /\ b[1] \in Calling
              /\ Front(todo) = <<>>
<1>1. PICK b \in Seq(Calling) : OnTop(b)
  BY TopOf DEF EffectsSound
<1>2. PICK f : f = Last(todo)
  OBVIOUS
<1>3. ~(f.do \in {"dequeued", "dequeue", "script"})
  BY <1>2
<1>4. /\ Base(b) /\ TimersFit(b) /\ Calm(b) /\ b # <<>>
      /\ Len(b) = 1 /\ b[1] = Last(todo) /\ Front(todo) = <<>>
  BY <1>1, <1>2, <1>3 DEF OnTop
<1>5. b[1] \in Calling
  BY <1>4, ElementOfSeq
<1> QED BY <1>4, <1>5

\* A loop starts or goes on.
LEMMA FramePushed ==
    ASSUME NEW f, f \in Calling
    PROVE  \E c \in Seq(Calling) : c = Append(<<>>, f) /\ c = <<f>> /\ Len(c) = 1 /\ c # <<>> /\ c[1] = f
BY OneFrame

LEMMA TickTimerSound == EffectsSound /\ TickTimer => EffectsSound'
<1> SUFFICES ASSUME EffectsSound, TickTimer PROVE EffectsSound'
  OBVIOUS
<1>1. todo # <<>> /\ Last(todo).do = "tick"
  BY DEF TickTimer, Doing
<1>2. PICK b \in Seq(Calling) :
         /\ Base(b) /\ TimersFit(b) /\ Calm(b)
         /\ Len(b) = 1 /\ b # <<>> /\ b[1] = Last(todo) /\ b[1] \in Calling
         /\ Front(todo) = <<>>
  BY <1>1, LoopOnTop
<1>3. PICK i \in Nat : i = Last(todo).i /\ i >= 1
  <2>1. b[1].do = "tick" => b[1].i \in Nat
    BY <1>2 DEF Calling, Completion, DequeueNext
  <2> QED BY <1>1, <1>2, <2>1 DEF Calm, Root
<1>4. UNCHANGED <<queues, inUse, hooks>> /\ UNCHANGED <<delays, made>>
  BY DEF TickTimer, queueVars
<1>5. /\ Len(timers) <= 1 /\ \A j \in 1..Len(timers) : timers[j].complete
      /\ OneRuns /\ (NoneRuns \/ Marked)
  BY <1>1, <1>2 DEF TimersFit, Calm, Root
<1>6. timers \in Seq(Fades) /\ Len(timers) \in Nat
  BY DEF EffectsSound, EffectTypes
<1>7. CASE i > Len(timers)
  <2>1. todo' = <<>> /\ UNCHANGED <<timers, finished>> /\ UNCHANGED <<shown, opacity, fxshow, toggled>>
    BY <1>2, <1>3, <1>6, <1>7 DEF TickTimer, Caller, styleVars
  <2>2. PICK none \in Seq(Calling) : none = <<>> /\ Len(none) = 0
    BY EmptySeq
  <2>3. EffectTypes'
    BY <1>4, <2>1, <2>2 DEF EffectsSound, EffectTypes
  <2>4. EndOrderInv' /\ StyleInv'
    BY <1>4, <2>1, OrderKept, StyleKept DEF EffectsSound, styleVars
  <2>5. Base(none)' /\ TimersFit(none)'
    BY <1>5, <2>1, <2>2 DEF Base, TimersFit, Root
  <2>6. OneRuns' /\ (NoneRuns' \/ Marked')
    BY <1>4, <1>5, <2>1, MarkKept DEF OneRuns, NoneRuns
  <2>7. Calm(none)'
    BY <2>1, <2>2, <2>6 DEF Calm, Root
  <2> QED BY <2>2, <2>3, <2>4, <2>5, <2>7, StackMade DEF EffectsSound
<1>8. ASSUME i <= Len(timers)
      PROVE  i = 1 /\ Len(timers) = 1 /\ timers[1].complete /\ timers[1] \in Fades
             /\ delays = {} /\ Marked
  <2>1. PICK n \in Nat : n = Len(timers)
    BY <1>6
  <2>2. i = 1 /\ n = 1
    BY <1>3, <1>5, <1>8, <2>1
  <2>3. timers[1].complete
    BY <1>5, <2>1, <2>2
  <2>4. 1 \in 1..Len(timers)
    BY <2>1, <2>2
  <2>5. timers[1] \in Fades
    BY <1>6, <2>4, ElementOfSeq
  <2> QED BY <1>5, <2>1, <2>2, <2>3, <2>4, <2>5 DEF OneRuns, NoneRuns
<1>9. CASE i <= Len(timers) /\ ~timers[i].halfway /\ opacity' = 1
           /\ timers' = [timers EXCEPT ![i].halfway = TRUE]
           /\ todo' = Append(Caller, [do |-> "tick", i |-> i + 1])
           /\ UNCHANGED <<shown, fxshow, toggled, finished>>
  <2>1. i = 1 /\ Len(timers) = 1 /\ timers[1].complete /\ timers[1] \in Fades /\ delays = {} /\ Marked
    BY <1>8, <1>9
  <2>2. PICK u : u = [timers[1] EXCEPT !.halfway = TRUE]
    OBVIOUS
  <2>3. u \in Fades /\ u.complete /\ u.id = timers[1].id /\ u.shows = timers[1].shows
        /\ u.start = timers[1].start /\ u.end = timers[1].end /\ u.orig = timers[1].orig
    BY <2>1, <2>2 DEF Fades
  <2>4. timers' = [timers EXCEPT ![1] = u]
    BY <1>9, <2>1, <2>2
  <2>5. timers' \in Seq(Fades) /\ Len(timers') = 1 /\ timers'[1] = u
    <3>1. PICK s \in Seq(Fades) : s = timers /\ Len(s) = 1
      BY <1>6, <2>1
    <3>2. PICK r : r = [s EXCEPT ![1] = u]
      OBVIOUS
    <3>3. 1 \in 1..Len(s)
      BY <3>1
    <3>4. r \in Seq(Fades) /\ Len(r) = Len(s) /\ r[1] = u
      BY <2>3, <3>2, <3>3, ExceptSeq
    <3> QED BY <2>4, <3>1, <3>2, <3>4
  <2>6. PICK f : f = [do |-> "tick", i |-> 2]
    OBVIOUS
  <2>7. f \in Calling /\ f.do = "tick" /\ f.i = 2
    BY <2>6 DEF Calling
  <2>8. PICK c \in Seq(Calling) : c = Append(<<>>, f) /\ Len(c) = 1 /\ c # <<>> /\ c[1] = f
    BY <2>7, FramePushed
  <2>9. todo' = c
    <3>1. i + 1 = 2
      BY <2>1
    <3> QED BY <1>2, <1>9, <2>6, <2>8, <3>1 DEF Caller
  <2>10. EffectTypes'
    <3>1. opacity' \in 0..Full /\ UNCHANGED <<shown, fxshow, toggled, finished>>
      BY <1>9 DEF Full
    <3>2. timers' \in Seq(Fades) /\ todo' \in Seq(Calling)
      BY <2>5, <2>8, <2>9
    <3> QED BY <1>4, <3>1, <3>2 DEF EffectsSound, EffectTypes
  <2>11. EndOrderInv'
    <3>1. PICK k : k = timers[1].id
      OBVIOUS
    <3>2. (k <= made) /\ Later(k) /\ \A j \in 1..Len(finished) : finished[j] < k
      BY <2>1, <3>1 DEF EffectsSound, EndOrderInv
    <3>3. \A j \in 1..Len(timers') : timers'[j].id = k
      BY <2>3, <2>5, <3>1
    <3>4. EndsAreOrdered(FxQueue)' /\ Later(k)'
      BY <1>4, <3>2 DEF EffectsSound, EndOrderInv, EndsAreOrdered, Later, FxQueue
    <3>5. (/\ \A j \in 1..Len(finished) : finished[j] <= made /\ Later(finished[j])
           /\ \A j, l \in 1..Len(finished) : j < l => finished[j] < finished[l])'
      BY <1>4, <1>9 DEF EffectsSound, EndOrderInv, Later, FxQueue
    <3>6. (\A j \in 1..Len(finished) : finished[j] < k)'
      BY <1>9, <3>2
    <3>7. (\A j \in 1..Len(timers) : timers[j].id <= made /\ Later(timers[j].id)
                /\ \A l \in 1..Len(finished) : finished[l] < timers[j].id)'
      BY <1>4, <3>2, <3>3, <3>4, <3>6 DEF Later, FxQueue
    <3> QED BY <3>4, <3>5, <3>7 DEF EndOrderInv
  <2>12. StyleInv'
    <3>1. ~(\A j \in 1..Len(timers') : ~timers'[j].complete)
      BY <2>3, <2>5
    <3>2. shown /\ timers[1].orig = Full
          /\ (fxshow = Unset => IF timers[1].shows THEN timers[1].end = Full ELSE timers[1].start = Full)
      BY <2>1 DEF EffectsSound, StyleInv
    <3>3. shown /\ u.orig = Full
          /\ (fxshow = Unset => IF u.shows THEN u.end = Full ELSE u.start = Full)
      BY <2>3, <3>2
    <3>4. (toggled # None => shown) /\ (fxshow = Full => shown)
      BY DEF EffectsSound, StyleInv
    <3>5. \A j \in 1..Len(timers') : timers'[j] = u
      BY <2>5
    <3> QED BY <1>9, <3>1, <3>3, <3>4, <3>5 DEF StyleInv
  <2>13. Base(c)'
    BY <2>7, <2>8 DEF Base
  <2>14. TimersFit(c)'
    BY <2>3, <2>5, <2>7, <2>8 DEF TimersFit, Root
  <2>15. OneRuns' /\ Marked'
    BY <1>4, <2>1, MarkKept DEF OneRuns
  <2>16. Calm(c)'
    BY <2>7, <2>8, <2>9, <2>15 DEF Calm, Root
  <2> QED BY <2>8, <2>10, <2>11, <2>12, <2>13, <2>14, <2>16, StackMade DEF EffectsSound
<1>10. CASE i <= Len(timers)
           /\ LastStep(i, Append(Caller, [do |-> "ticked", i |-> i, id |-> timers[i].id]))
  <2>1. i = 1 /\ Len(timers) = 1 /\ timers[1].complete /\ timers[1] \in Fades /\ delays = {} /\ Marked
    BY <1>8, <1>10
  <2>2. PICK f : f = [do |-> "ticked", i |-> 1, id |-> timers[1].id]
    OBVIOUS
  <2>3. f \in Calling /\ f.do = "ticked" /\ f.i = 1 /\ f.id = timers[1].id
    <3>1. PICK d \in Nat : d = timers[1].id
      BY <2>1 DEF Fades
    <3>2. f = [do |-> "ticked", i |-> 1, id |-> d]
      BY <2>2, <3>1
    <3> QED BY <3>1, <3>2 DEF Calling
  <2>4. PICK c \in Seq(Calling) : c = Append(<<>>, f) /\ Len(c) = 1 /\ c # <<>> /\ c[1] = f
    BY <2>3, FramePushed
  <2>5. LastStep(1, c)
    BY <1>2, <1>10, <2>1, <2>2, <2>4 DEF Caller
  <2> QED BY <1>4, <2>1, <2>3, <2>4, <2>5, LastStepSound
<1> QED BY <1>3, <1>7, <1>9, <1>10 DEF TickTimer

\* A timer that is overdue goes.
LEMMA FirstTimerGone ==
    ASSUME EffectsSound, Len(timers) \in {1, 2}, ~timers[1].complete,
           Len(timers) = 2 => timers[2].complete, timers' = RemoveAt(timers, 1),
           UNCHANGED <<queues, inUse, hooks, delays, made, finished, shown, opacity, fxshow, toggled>>
    PROVE  /\ timers' \in Seq(Fades) /\ Len(timers') \in Nat /\ Len(timers') <= 1
           /\ \A j \in 1..Len(timers') : timers'[j].complete
           /\ EndOrderInv' /\ StyleInv' /\ (NoneRuns => NoneRuns') /\ (OneRuns => OneRuns')
<1>1. PICK s \in Seq(Fades) : s = timers
  BY DEF EffectsSound, EffectTypes
<1>2. PICK r : r = RemoveAt(s, 1)
  OBVIOUS
<1>3. r \in Seq(Fades) /\ Len(r) = Len(s) - 1 /\ (Len(s) = 2 => r[1] = s[2])
  BY <1>1, <1>2, FirstGone
<1>4. PICK n \in {1, 2} : n = Len(s)
  BY <1>1
<1>5. Len(r) = n - 1 /\ (n = 2 => r[1] = s[2]) /\ (n = 2 => s[2].complete) /\ ~s[1].complete
  BY <1>1, <1>3, <1>4
<1>6. \A j \in 1..Len(r) : n = 2 /\ j = 1 /\ r[j] = s[2] /\ s[2].complete
  BY <1>4, <1>5
<1>7. timers' = r
  BY <1>1, <1>2
<1>8. Len(r) \in Nat /\ Len(r) <= 1 /\ \A j \in 1..Len(r) : r[j].complete
  BY <1>4, <1>5, <1>6
<1>9. EndOrderInv'
  <2>1. /\ EndsAreOrdered(FxQueue)
        /\ \A i \in 1..Len(finished) : finished[i] <= made /\ Later(finished[i])
        /\ \A i, j \in 1..Len(finished) : i < j => finished[i] < finished[j]
    BY DEF EffectsSound, EndOrderInv
  <2>2. n = 2 => /\ s[2].id <= made /\ Later(s[2].id)
                 /\ \A j \in 1..Len(finished) : finished[j] < s[2].id
    BY <1>1, <1>4, <1>5 DEF EffectsSound, EndOrderInv
  <2>3. \A i \in 1..Len(r) : /\ r[i].id <= made /\ Later(r[i].id)
                             /\ \A j \in 1..Len(finished) : finished[j] < r[i].id
    BY <1>6, <2>2
  <2> QED BY <1>7, <2>1, <2>3 DEF EndOrderInv, EndsAreOrdered, Later, FxQueue
<1>10. StyleInv'
  <2>1. (toggled # None => shown) /\ (fxshow = Full => shown)
    BY DEF EffectsSound, StyleInv
  <2>2. n = 2 => shown /\ s[2].orig = Full
                 /\ (fxshow = Unset => IF s[2].shows THEN s[2].end = Full ELSE s[2].start = Full)
    BY <1>1, <1>4, <1>5 DEF EffectsSound, StyleInv
  <2>3. \A i \in 1..Len(r) :
          shown /\ r[i].orig = Full
                /\ (fxshow = Unset => IF r[i].shows THEN r[i].end = Full ELSE r[i].start = Full)
    BY <1>6, <2>2
  <2>4. (\A i \in 1..Len(r) : ~r[i].complete) => n = 1
    BY <1>4, <1>5, <1>8
  <2>5. n = 1 => \A i \in 1..Len(timers) : ~timers[i].complete
    BY <1>1, <1>4, <1>5
  <2>6. n = 1 /\ fxshow = Unset => opacity = Full
    BY <2>5 DEF EffectsSound, StyleInv
  <2> QED BY <1>7, <2>1, <2>3, <2>4, <2>6 DEF StyleInv
<1>11. (\A i \in 1..Len(timers) : ~timers[i].complete) => \A i \in 1..Len(r) : ~r[i].complete
  BY <1>1, <1>4, <1>5, <1>6
<1>12. (NoneRuns => NoneRuns') /\ (OneRuns => OneRuns')
  BY <1>7, <1>11 DEF NoneRuns, OneRuns
<1> QED BY <1>3, <1>7, <1>8, <1>9, <1>10, <1>12

LEMMA TickedSound == EffectsSound /\ Ticked => EffectsSound'
<1> SUFFICES ASSUME EffectsSound, Ticked PROVE EffectsSound'
  OBVIOUS
<1>1. todo # <<>> /\ Last(todo).do = "ticked"
  BY DEF Ticked, Doing
<1>2. PICK b \in Seq(Calling) :
         /\ Base(b) /\ TimersFit(b) /\ Calm(b)
         /\ Len(b) = 1 /\ b # <<>> /\ b[1] = Last(todo) /\ b[1] \in Calling
         /\ Front(todo) = <<>>
  BY <1>1, LoopOnTop
<1>3. UNCHANGED <<queues, inUse, hooks>> /\ UNCHANGED <<shown, opacity, fxshow, toggled>>
      /\ UNCHANGED <<delays, made, finished>>
  BY DEF Ticked, queueVars, styleVars, ghostVars
<1>4. /\ Len(timers) \in {1, 2} /\ ~timers[1].complete /\ (Len(timers) = 2 => timers[2].complete)
      /\ Last(todo).i = 1 /\ Last(todo).id = timers[1].id
  BY <1>1, <1>2 DEF TimersFit, Root
<1>5. OneRuns /\ (NoneRuns \/ Marked)
  BY <1>1, <1>2 DEF Calm, Root
<1>6. PICK f : f = [do |-> "tick", i |-> 1]
  OBVIOUS
<1>7. f \in Calling /\ f.do = "tick" /\ f.i = 1
  BY <1>6 DEF Calling
<1>8. PICK c \in Seq(Calling) : c = Append(<<>>, f) /\ Len(c) = 1 /\ c # <<>> /\ c[1] = f
  BY <1>7, FramePushed
<1>9. timers' = RemoveAt(timers, 1) /\ todo' = c
  BY <1>2, <1>4, <1>6, <1>8 DEF Ticked, Splice, Caller
<1>10. /\ timers' \in Seq(Fades) /\ Len(timers') \in Nat /\ Len(timers') <= 1
       /\ \A j \in 1..Len(timers') : timers'[j].complete
       /\ EndOrderInv' /\ StyleInv' /\ (NoneRuns => NoneRuns') /\ (OneRuns => OneRuns')
  BY <1>3, <1>4, <1>9, FirstTimerGone
<1>11. EffectTypes'
  BY <1>3, <1>8, <1>9, <1>10 DEF EffectsSound, EffectTypes
<1>12. Base(c)'
  BY <1>7, <1>8 DEF Base
<1>13. TimersFit(c)'
  BY <1>7, <1>8, <1>10 DEF TimersFit, Root
<1>14. Calm(c)'
  <2>1. OneRuns' /\ (NoneRuns' \/ Marked')
    BY <1>3, <1>5, <1>10, MarkKept
  <2> QED BY <1>7, <1>8, <1>9, <2>1 DEF Calm, Root
<1> QED BY <1>8, <1>10, <1>11, <1>12, <1>13, <1>14, StackMade DEF EffectsSound

LEMMA StoppedSound == EffectsSound /\ Stopped => EffectsSound'
<1> SUFFICES ASSUME EffectsSound, Stopped PROVE EffectsSound'
  OBVIOUS
<1>1. todo # <<>> /\ Last(todo).do = "stopped"
  BY DEF Stopped, Doing
<1>2. PICK b \in Seq(Calling) :
         /\ Base(b) /\ TimersFit(b) /\ Calm(b)
         /\ Len(b) = 1 /\ b # <<>> /\ b[1] = Last(todo) /\ b[1] \in Calling
         /\ Front(todo) = <<>>
  BY <1>1, LoopOnTop
<1>3. UNCHANGED <<queues, inUse, hooks>> /\ UNCHANGED <<shown, opacity, fxshow, toggled>>
      /\ UNCHANGED <<delays, made, finished>>
  BY DEF Stopped, queueVars, styleVars, ghostVars
<1>4. /\ Len(timers) \in {1, 2} /\ ~timers[1].complete /\ (Len(timers) = 2 => timers[2].complete)
      /\ Last(todo).i = 0 /\ Last(todo).toEnd /\ Last(todo).had
  BY <1>1, <1>2 DEF TimersFit, Root
<1>5. OneRuns /\ (NoneRuns \/ Marked)
  BY <1>1, <1>2 DEF Calm, Root
<1>6. PICK f : f = [Last(todo) EXCEPT !.do = "stopTimers"]
  OBVIOUS
<1>7. f \in Calling /\ f.do = "stopTimers" /\ f.i = 0 /\ f.toEnd /\ f.had
  <2>1. PICK g : g = Last(todo)
    OBVIOUS
  <2>2. g \in [do : {"stopTimers", "stopped"}, toEnd : BOOLEAN, i : Nat, had : BOOLEAN]
    BY <1>1, <1>2, <2>1 DEF Calling, Completion, DequeueNext
  <2>3. PICK to, had \in BOOLEAN : to = g.toEnd /\ had = g.had
    BY <2>2
  <2>4. to /\ had /\ g.i = 0
    BY <1>4, <2>1, <2>3
  <2>5. f = [do |-> "stopTimers", toEnd |-> to, i |-> 0, had |-> had]
    BY <1>6, <2>1, <2>2, <2>3, <2>4
  <2>6. f \in [do : {"stopTimers", "stopped"}, toEnd : BOOLEAN, i : Nat, had : BOOLEAN]
    BY <2>5
  <2> QED BY <2>4, <2>5, <2>6 DEF Calling
<1>8. PICK c \in Seq(Calling) : c = Append(<<>>, f) /\ Len(c) = 1 /\ c # <<>> /\ c[1] = f
  BY <1>7, FramePushed
<1>9. timers' = RemoveAt(timers, 1) /\ todo' = c
  <2>1. 0 < Len(timers) /\ 0 + 1 = 1
    BY <1>4
  <2> QED BY <1>2, <1>4, <1>6, <1>8, <2>1 DEF Stopped, Splice, Caller
<1>10. /\ timers' \in Seq(Fades) /\ Len(timers') \in Nat /\ Len(timers') <= 1
       /\ \A j \in 1..Len(timers') : timers'[j].complete
       /\ EndOrderInv' /\ StyleInv' /\ (NoneRuns => NoneRuns') /\ (OneRuns => OneRuns')
  BY <1>3, <1>4, <1>9, FirstTimerGone
<1>11. EffectTypes'
  BY <1>3, <1>8, <1>9, <1>10 DEF EffectsSound, EffectTypes
<1>12. Base(c)'
  BY <1>7, <1>8 DEF Base
<1>13. TimersFit(c)'
  BY <1>7, <1>8, <1>10 DEF TimersFit, Root
<1>14. Calm(c)'
  <2>1. OneRuns' /\ (NoneRuns' \/ Marked')
    BY <1>3, <1>5, <1>10, MarkKept
  <2> QED BY <1>7, <1>8, <1>9, <2>1 DEF Calm, Root
<1> QED BY <1>8, <1>10, <1>11, <1>12, <1>13, <1>14, StackMade DEF EffectsSound

LEMMA StopDelaySound == EffectsSound /\ StopDelay => EffectsSound'
<1> SUFFICES ASSUME EffectsSound, StopDelay PROVE EffectsSound'
  OBVIOUS
<1>1. todo # <<>> /\ Last(todo).do = "stop"
  BY DEF StopDelay, Doing
<1>2. PICK b \in Seq(Calling) :
         /\ Base(b) /\ TimersFit(b) /\ Calm(b)
         /\ Len(b) = 1 /\ b # <<>> /\ b[1] = Last(todo) /\ b[1] \in Calling
         /\ Front(todo) = <<>>
  BY <1>1, LoopOnTop
<1>3. UNCHANGED <<queues, inUse, made, finished, timers>> /\ UNCHANGED <<shown, opacity, fxshow, toggled>>
      /\ hooks' = 0 /\ delays' = delays \ {hooks}
  BY DEF StopDelay, styleVars, ghostVars
<1>4. /\ Len(timers) <= 1 /\ \A j \in 1..Len(timers) : timers[j].complete
      /\ OneRuns /\ (NoneRuns \/ Marked \/ inUse = 0)
  BY <1>1, <1>2 DEF TimersFit, Calm, Root
<1>5. delays' = {}
  BY <1>3, <1>4 DEF OneRuns
<1>6. PICK n \in Nat : n = Len(timers)
  BY LenProperties DEF EffectsSound, EffectTypes
<1>7. PICK to \in BOOLEAN : to = Last(todo).toEnd
  BY <1>1, <1>2 DEF Calling, Completion, DequeueNext
<1>8. PICK f : f = [do |-> "stopTimers", toEnd |-> to, i |-> n, had |-> FALSE]
  OBVIOUS
<1>9. f \in Calling /\ f.do = "stopTimers" /\ f.i = n /\ ~f.had
  <2>1. f \in [do : {"stopTimers", "stopped"}, toEnd : BOOLEAN, i : Nat, had : BOOLEAN]
    BY <1>8
  <2> QED BY <1>8, <2>1 DEF Calling
<1>10. PICK c \in Seq(Calling) : c = Append(<<>>, f) /\ Len(c) = 1 /\ c # <<>> /\ c[1] = f
  BY <1>9, FramePushed
<1>11. todo' = c
  BY <1>2, <1>6, <1>7, <1>8, <1>10 DEF StopDelay, Caller
<1>12. EffectTypes'
  BY EffectsAssumption, <1>3, <1>5, <1>10, <1>11 DEF EffectsSound, EffectTypes
<1>13. EndOrderInv' /\ StyleInv'
  BY <1>3, OrderKept, StyleKept DEF EffectsSound, styleVars
<1>14. Base(c)'
  BY <1>9, <1>10 DEF Base
<1>15. TimersFit(c)'
  BY <1>3, <1>4, <1>9, <1>10 DEF TimersFit, Root
<1>16. Calm(c)'
  <2>1. OneRuns' /\ (NoneRuns' \/ Marked' \/ inUse' = 0)
    BY <1>3, <1>4, <1>5, MarkKept DEF OneRuns, NoneRuns
  <2>2. ~Root(c, {"tick"}) /\ Root(c, {"stopTimers"}) /\ ~c[1].had /\ c[1].i = n
    BY <1>9, <1>10 DEF Root
  <2> QED BY <1>3, <1>5, <1>6, <1>10, <1>11, <2>1, <2>2 DEF Calm
<1> QED BY <1>10, <1>12, <1>13, <1>14, <1>15, <1>16, StackMade DEF EffectsSound

LEMMA StopTimerSound == EffectsSound /\ StopTimer => EffectsSound'
<1> SUFFICES ASSUME EffectsSound, StopTimer PROVE EffectsSound'
  OBVIOUS
<1>1. todo # <<>> /\ Last(todo).do = "stopTimers" /\ Last(todo).i > 0
  BY DEF StopTimer, Doing
<1>2. PICK b \in Seq(Calling) :
         /\ Base(b) /\ TimersFit(b) /\ Calm(b)
         /\ Len(b) = 1 /\ b # <<>> /\ b[1] = Last(todo) /\ b[1] \in Calling
         /\ Front(todo) = <<>>
  BY <1>1, LoopOnTop
<1>3. UNCHANGED <<queues, inUse, hooks, delays, made>>
  BY DEF StopTimer, queueVars
<1>4. PICK s : s = Last(todo)
  OBVIOUS
<1>5. s \in [do : {"stopTimers", "stopped"}, toEnd : BOOLEAN, i : Nat, had : BOOLEAN]
  BY <1>1, <1>2, <1>4 DEF Calling, Completion, DequeueNext
<1>6. PICK n \in Nat : n = Len(timers)
  BY LenProperties DEF EffectsSound, EffectTypes
<1>7. n <= 1 /\ (\A j \in 1..n : timers[j].complete) /\ OneRuns
  BY <1>1, <1>2, <1>6 DEF TimersFit, Calm, Root
<1>8. s.i = n /\ delays = {}
  <2>1. \/ s.i = n /\ delays = {}
        \/ s.i = 0
    BY <1>1, <1>2, <1>4, <1>6 DEF Calm, Root
  <2> QED BY <1>1, <1>4, <1>5, <2>1
<1>9. n = 1 /\ s.i = 1
  BY <1>1, <1>4, <1>7, <1>8
<1>10. timers[1].complete /\ (Marked \/ inUse = 0) /\ ~NoneRuns
  <2>1. timers[1].complete
    BY <1>7, <1>9
  <2>2. ~NoneRuns
    BY <1>6, <1>9, <2>1 DEF NoneRuns
  <2> QED BY <1>2, <2>1, <2>2 DEF Calm
<1>11. PICK t : t = timers[1] /\ t \in Fades
  <2>1. timers \in Seq(Fades) /\ 1 \in 1..Len(timers)
    BY <1>6, <1>9 DEF EffectsSound, EffectTypes
  <2> QED BY <2>1, ElementOfSeq
<1>12. PICK toEnd \in BOOLEAN : toEnd = s.toEnd
  BY <1>5
<1>13. PICK next : next = [s EXCEPT !.i = @ - 1, !.had = TRUE]
  OBVIOUS
<1>14. /\ next \in [do : {"stopTimers", "stopped"}, toEnd : BOOLEAN, i : Nat, had : BOOLEAN]
       /\ next.do = "stopTimers" /\ next.i = 0 /\ next.had /\ (next.toEnd <=> toEnd)
  <2>1. s.i - 1 = 0 /\ s.do = "stopTimers"
    BY <1>1, <1>4, <1>9
  <2>2. next = [s EXCEPT !.i = 0, !.had = TRUE]
    BY <1>13, <2>1
  <2>3. /\ next \in [do : {"stopTimers", "stopped"}, toEnd : BOOLEAN, i : Nat, had : BOOLEAN]
        /\ next.do = s.do /\ next.i = 0
    BY <1>5, <2>2
  <2>4. next.had
    BY <1>5, <2>2
  <2>5. next.toEnd = s.toEnd
    BY <1>5, <2>2
  <2> QED BY <1>12, <2>1, <2>3, <2>4, <2>5
<1>16. CASE ~toEnd
  <2>2. next \in Calling
    BY <1>14 DEF Calling
  <2>3. PICK c \in Seq(Calling) : c = Append(<<>>, next) /\ Len(c) = 1 /\ c # <<>> /\ c[1] = next
    BY <2>2, FramePushed
  <2>4. /\ fxshow' = IF fxshow # Unset THEN fxshow ELSE IF t.shows THEN t.end ELSE t.start
        /\ timers' = RemoveAt(timers, 1)
        /\ todo' = Append(Front(todo), next)
        /\ UNCHANGED <<shown, opacity, toggled, finished>>
    BY <1>4, <1>6, <1>9, <1>11, <1>12, <1>13, <1>16 DEF StopTimer, SaveState, Splice, Caller
  <2>5. todo' = c
    BY <1>2, <2>3, <2>4
  <2>6. timers' \in Seq(Fades) /\ Len(timers') = 0
    <3>1. PICK q \in Seq(Fades) : q = timers /\ Len(q) = 1
      BY <1>6, <1>9 DEF EffectsSound, EffectTypes
    <3>2. PICK r : r = RemoveAt(q, 1)
      OBVIOUS
    <3>3. r \in Seq(Fades) /\ Len(r) = 0
      BY <3>1, <3>2, FirstGone
    <3> QED BY <2>4, <3>1, <3>2, <3>3
  <2>7. shown /\ fxshow' = Full
    <3>1. 1 \in 1..Len(timers)
      BY <1>6, <1>9
    <3>2. /\ shown
          /\ fxshow = Unset => IF t.shows THEN t.end = Full ELSE t.start = Full
      BY <1>10, <1>11, <3>1 DEF EffectsSound, StyleInv
    <3> QED BY <2>4, <3>2 DEF EffectsSound, EffectTypes
  <2>8. EffectTypes'
    BY <1>3, <2>3, <2>4, <2>5, <2>6, <2>7 DEF EffectsSound, EffectTypes
  <2>9. \A x : x \in 1..Len(timers') => FALSE
    BY <2>6
  <2>10. EndOrderInv'
    BY <1>3, <2>4, <2>9 DEF EffectsSound, EndOrderInv, EndsAreOrdered, Later, FxQueue
  <2>11. StyleInv'
    BY <2>4, <2>7, <2>9 DEF EffectsSound, StyleInv, Full, Unset
  <2>12. Base(c)'
    BY <1>14, <1>16, <2>3 DEF Base
  <2>13. TimersFit(c)'
    BY <1>14, <1>16, <2>3, <2>6 DEF TimersFit, Root
  <2>14. NoneRuns' /\ OneRuns'
    BY <1>3, <1>8, <2>9 DEF NoneRuns, OneRuns
  <2>15. ~Root(c, {"tick"}) /\ c[1].i = 0 /\ c[1].had /\ ~c[1].toEnd
    BY <1>14, <1>16, <2>3 DEF Root
  <2>16. Calm(c)'
    BY <2>3, <2>5, <2>14, <2>15 DEF Calm
  <2> QED BY <2>3, <2>8, <2>10, <2>11, <2>12, <2>13, <2>16, StackMade DEF EffectsSound
<1>17. CASE toEnd
  <2>1. PICK f : f = [next EXCEPT !.do = "stopped"]
    OBVIOUS
  <2>2. /\ f \in [do : {"stopTimers", "stopped"}, toEnd : BOOLEAN, i : Nat, had : BOOLEAN]
        /\ f.do = "stopped" /\ f.i = next.i /\ (f.had <=> next.had) /\ (f.toEnd <=> next.toEnd)
    BY <1>14, <2>1
  <2>3. f \in Calling /\ f.do = "stopped" /\ f.i = 0 /\ f.had /\ f.toEnd
    BY <1>14, <1>17, <2>2 DEF Calling
  <2>4. PICK c \in Seq(Calling) : c = Append(<<>>, f) /\ Len(c) = 1 /\ c # <<>> /\ c[1] = f
    BY <2>3, FramePushed
  <2>5. LastStep(1, Append(Front(todo), f))
    BY <1>4, <1>6, <1>9, <1>12, <1>13, <1>17, <2>1 DEF StopTimer, Caller
  <2>6. LastStep(1, c)
    BY <1>2, <2>4, <2>5
  <2> QED BY <1>3, <1>6, <1>8, <1>9, <1>10, <2>3, <2>4, <2>6, LastStepSound
<1> QED BY <1>16, <1>17

LEMMA StopEndsSound == EffectsSound /\ StopEnds => EffectsSound'
<1> SUFFICES ASSUME EffectsSound, StopEnds PROVE EffectsSound'
  OBVIOUS
<1>1. todo # <<>> /\ Last(todo).do = "stopTimers" /\ Last(todo).i = 0
  BY DEF StopEnds, Doing
<1>2. PICK b \in Seq(Calling) :
         /\ Base(b) /\ TimersFit(b) /\ Calm(b)
         /\ Len(b) = 1 /\ b # <<>> /\ b[1] = Last(todo) /\ b[1] \in Calling
         /\ Front(todo) = <<>>
  BY <1>1, LoopOnTop
<1>3. UNCHANGED <<queues, inUse, hooks>> /\ UNCHANGED <<shown, opacity, fxshow, toggled>>
      /\ UNCHANGED <<delays, made, finished, timers>>
  BY DEF StopEnds, queueVars, styleVars, ghostVars
<1>4. PICK toEnd, had \in BOOLEAN : toEnd = Last(todo).toEnd /\ had = Last(todo).had
  BY <1>1, <1>2 DEF Calling, Completion, DequeueNext
<1>5. PICK none \in Seq(Calling) : none = <<>> /\ Len(none) = 0
  BY EmptySeq
<1>6. /\ Len(timers) <= 1 /\ \A j \in 1..Len(timers) : timers[j].complete
      /\ OneRuns
  BY <1>1, <1>2 DEF TimersFit, Calm, Root
<1>7. \/ Len(timers) = 0 /\ ~had /\ delays = {}
      \/ had /\ toEnd /\ (NoneRuns \/ Marked)
      \/ had /\ ~toEnd /\ NoneRuns
  BY <1>1, <1>2, <1>4 DEF Calm, Root
<1>8. (toEnd /\ had) \/ NoneRuns
  BY <1>7 DEF NoneRuns
<1>9. EndOrderInv' /\ StyleInv'
  BY <1>3, OrderKept, StyleKept DEF EffectsSound, styleVars
<1>10. Base(none)' /\ TimersFit(none)'
  BY <1>3, <1>5, <1>6 DEF Base, TimersFit, Root
<1>11. CASE toEnd /\ had
  <2>1. todo' = none
    BY <1>2, <1>4, <1>5, <1>11 DEF StopEnds, Caller
  <2>2. EffectTypes'
    BY <1>3, <2>1 DEF EffectsSound, EffectTypes
  <2>3. OneRuns' /\ (NoneRuns' \/ Marked')
    BY <1>3, <1>6, <1>7, <1>11, MarkKept DEF OneRuns, NoneRuns
  <2>4. Calm(none)'
    BY <1>5, <2>1, <2>3 DEF Calm, Root
  <2> QED BY <1>9, <1>10, <2>2, <2>4, StackMade DEF EffectsSound
<1>12. CASE ~(toEnd /\ had)
  <2>1. todo' = Append(none, DequeueNext)
    BY <1>2, <1>4, <1>5, <1>12 DEF StopEnds, Caller
  <2>2. todo' \in Seq(Calling)
    BY <2>1, StackFacts DEF Calling
  <2>3. EffectTypes'
    BY <1>3, <2>2 DEF EffectsSound, EffectTypes
  <2>4. NoneRuns'
    BY <1>3, <1>8, <1>12 DEF NoneRuns
  <2>5. Due(none)'
    BY <1>5, <2>1, <2>4 DEF Due, Root
  <2> QED BY <1>9, <1>10, <2>3, <2>5, StackMade DEF EffectsSound
<1> QED BY <1>11, <1>12

LEMMA InitSound == EffectsInit => EffectsSound
<1> SUFFICES ASSUME EffectsInit PROVE EffectsSound
  OBVIOUS
<1>1. /\ shown \in BOOLEAN /\ opacity = Full /\ fxshow = Unset /\ toggled = None
      /\ queues = [i \in 1..MaxCalls |-> <<>>] /\ inUse = 0 /\ hooks = 0
      /\ timers = <<>> /\ delays = {} /\ todo = <<>> /\ made = 0 /\ finished = <<>>
  BY DEF EffectsInit
<1>2. /\ <<>> \in Seq(Calling) /\ <<>> \in Seq(Fades) /\ <<>> \in Seq(Effect)
      /\ <<>> \in Seq(1..MaxCalls) /\ Len(<<>>) = 0
  OBVIOUS
<1>3. EffectTypes
  BY <1>1, <1>2, EffectsAssumption DEF EffectTypes, Full, Unset, None
<1>4. EndOrderInv /\ StyleInv
  BY <1>1, <1>2 DEF EndOrderInv, StyleInv, EndsAreOrdered, Later, FxQueue, Full, Unset, None
<1>5. PICK none \in Seq(Calling) : none = <<>> /\ Len(none) = 0
  BY <1>2
<1>6. Base(none) /\ TimersFit(none)
  BY <1>1, <1>2, <1>5 DEF Base, TimersFit, Root
<1>7. Calm(none)
  BY <1>1, <1>2, <1>5 DEF Calm, Root, OneRuns, NoneRuns
<1> QED BY <1>3, <1>4, <1>6, <1>7 DEF EffectsSound, CallsInv

LEMMA QueueTyped == EffectTypes => FxQueue \in Seq(Effect) /\ (FxQueue # <<>> => inUse \in 1..MaxCalls)
<1> SUFFICES ASSUME EffectTypes
             PROVE  FxQueue \in Seq(Effect) /\ (FxQueue # <<>> => inUse \in 1..MaxCalls)
  OBVIOUS
<1>1. CASE inUse = 0
  BY <1>1 DEF FxQueue
<1>2. CASE inUse # 0
  <2>1. inUse \in 1..MaxCalls
    BY <1>2, EffectsAssumption DEF EffectTypes
  <2> QED BY <1>2, <2>1 DEF EffectTypes, FxQueue
<1> QED BY <1>1, <1>2

\* What waits in the queue.
Waits(w) == w = IF Marked THEN Tail(FxQueue) ELSE FxQueue

\* What dequeue() takes, and leaves behind the sentinel.
LEMMA TakenFacts ==
    ASSUME EffectsSound, NEW w, Waits(w), w # <<>>
    PROVE  /\ inUse \in 1..MaxCalls
           /\ w \in Seq(Effect) /\ w[1] \in Effect /\ Head(w) = w[1] /\ w[1].id \in 1..made
           /\ w[1].do # "inprogress"
           /\ Running(w) \in Seq(Effect) /\ Running(w) # <<>> /\ Running(w)[1] = InProgress
           /\ EndsAreOrdered(Running(w))
           /\ \A k \in 1..Len(Running(w)) : Running(w)[k].id = 0 \/ w[1].id < Running(w)[k].id
           /\ \A id \in Nat : Later(id) =>
                 /\ id < w[1].id
                 /\ \A k \in 1..Len(Running(w)) : Running(w)[k].id = 0 \/ id < Running(w)[k].id
<1>1. PICK q \in Seq(Effect) : q = FxQueue
  BY QueueTyped DEF EffectsSound
<1>2. PICK m \in Nat : m = Len(q)
  BY LenProperties
<1>3. q # <<>>
  BY <1>1 DEF Waits, Marked
<1>4. inUse \in 1..MaxCalls
  BY <1>1, <1>3, QueueTyped DEF EffectsSound
<1>5. /\ \A i \in 1..m : (q[i] = InProgress \/ q[i].id \in 1..made) /\ (q[i].do = "inprogress" => q[i] = InProgress)
      /\ \A i, j \in 1..m : i < j => q[i].id < q[j].id
  BY <1>1, <1>2 DEF EffectsSound, EndOrderInv, EndsAreOrdered
<1>6. InProgress \in Effect /\ InProgress.id = 0
  BY EffectsAssumption DEF InProgress, Effect
<1>7. made \in Nat
  BY EffectsAssumption DEF EffectsSound, EffectTypes
<1>8. PICK n \in Nat, d \in Nat :
         /\ n >= 1 /\ (d = 0 \/ d = 1)
         /\ w \in Seq(Effect) /\ Len(w) = n /\ m = n + d
         /\ \A k \in 1..n : w[k] = q[k + d]
         /\ d = 0 => q[1] # InProgress
         /\ d = 1 => q[1] = InProgress
  <2>1. CASE Marked
    <3>1. w = Tail(q) /\ q[1] = InProgress
      BY <1>1, <2>1 DEF Waits, Marked
    <3>2. w \in Seq(Effect) /\ Len(w) = m - 1 /\ \A k \in 1..Len(w) : w[k] = q[k + 1]
      BY <1>2, <1>3, <3>1, HeadTailProperties
    <3>3. m - 1 \in Nat /\ m - 1 >= 1
      BY <1>2, <3>2, EmptySeq
    <3>4. m = (m - 1) + 1
      BY <1>2
    <3> QED BY <3>1, <3>2, <3>3, <3>4
  <2>2. CASE ~Marked
    <3>1. w = q /\ q[1] # InProgress
      BY <1>1, <1>3, <2>2 DEF Waits, Marked
    <3>2. m >= 1
      BY <1>2, <1>3, EmptySeq
    <3>3. m = m + 0 /\ \A k \in 1..m : k + 0 = k
      BY <1>2
    <3> QED BY <1>2, <3>1, <3>2, <3>3
  <2> QED BY <2>1, <2>2
<1>9. \A k \in 1..n : w[k] \in Effect /\ k + d \in 1..m
  BY <1>8, ElementOfSeq
<1>10. \A k, l \in 1..n : k < l => w[k].id < w[l].id
  <2> TAKE k, l \in 1..n
  <2>2. k + d \in 1..m /\ l + d \in 1..m /\ (k < l => k + d < l + d)
    BY <1>8
  <2> QED BY <1>5, <1>8, <2>2
<1>11. 1 \in 1..n
  BY <1>8
<1>12. \A k \in 1..n : w[k].id \in 1..made /\ w[k].do # "inprogress"
  <2> TAKE k \in 1..n
  <2>2. w[k] = q[k + d] /\ k + d \in 1..m
    BY <1>8
  <2>3. w[k] # InProgress
    <3>1. CASE d = 1
      <4>1. 1 \in 1..m /\ 1 < k + d /\ q[1].id = 0
        BY <1>6, <1>8, <3>1
      <4>2. q[k + d].id > 0
        <5>1. q[1].id < q[k + d].id
          BY <1>5, <2>2, <4>1
        <5>2. q[k + d].id \in Nat
          BY <1>9, <2>2, EffectsAssumption DEF Effect
        <5> QED BY <4>1, <5>1, <5>2
      <4> QED BY <1>6, <2>2, <4>2
    <3>2. CASE d = 0
      <4>1. CASE k = 1
        BY <1>8, <2>2, <3>2, <4>1
      <4>2. CASE k # 1
        <5>1. w[1].id < w[k].id
          BY <1>10, <1>11, <4>2
        <5>2. w[1].id \in Nat /\ w[k].id \in Nat
          BY <1>9, <1>11, EffectsAssumption DEF Effect
        <5> QED BY <1>6, <5>1, <5>2
      <4> QED BY <4>1, <4>2
    <3> QED BY <1>8, <3>1, <3>2
  <2> QED BY <1>5, <2>2, <2>3
<1>13. PICK r : r = Tail(w)
  OBVIOUS
<1>14. r \in Seq(Effect) /\ Len(r) = n - 1 /\ \A k \in 1..(n - 1) : r[k] = w[k + 1]
  BY <1>8, <1>13, HeadTailProperties
<1>15. PICK u \in Seq(Effect) : u = <<InProgress>> /\ Len(u) = 1 /\ u[1] = InProgress
  BY <1>6, OneFrame
<1>16. PICK s : s = Running(w)
  OBVIOUS
<1>17. s = u \o r
  BY <1>13, <1>15, <1>16 DEF Running
<1>18. s \in Seq(Effect) /\ Len(s) = n /\ s[1] = InProgress /\ \A k \in 2..n : s[k] = w[k]
  <2>1. /\ s \in Seq(Effect) /\ Len(s) = Len(u) + Len(r)
        /\ \A i \in 1..(Len(u) + Len(r)) : s[i] = IF i <= Len(u) THEN u[i] ELSE r[i - Len(u)]
    BY <1>14, <1>15, <1>17, ConcatProperties
  <2>2. Len(u) + Len(r) = n
    BY <1>8, <1>14, <1>15
  <2>3. \A i \in 1..n : s[i] = IF i <= 1 THEN u[i] ELSE r[i - 1]
    BY <1>15, <2>1, <2>2
  <2>4. s[1] = InProgress
    BY <1>11, <1>15, <2>3
  <2>5. \A k \in 2..n : s[k] = w[k]
    <3> TAKE k \in 2..n
    <3>2. k \in 1..n /\ ~(k <= 1) /\ k - 1 \in 1..(n - 1) /\ (k - 1) + 1 = k
      BY <1>8
    <3>3. s[k] = r[k - 1] /\ r[k - 1] = w[(k - 1) + 1]
      BY <1>14, <2>3, <3>2
    <3> QED BY <3>2, <3>3
  <2> QED BY <2>1, <2>2, <2>4, <2>5
<1>19. \A k \in 1..n : k = 1 \/ k \in 2..n
  BY <1>8
<1>20. EndsAreOrdered(s)
  <2>1. \A k \in 1..n : (s[k] = InProgress \/ s[k].id \in 1..made) /\ (s[k].do = "inprogress" => s[k] = InProgress)
    BY <1>12, <1>18, <1>19
  <2>2. \A k, l \in 1..n : k < l => s[k].id < s[l].id
    <3> TAKE k, l \in 1..n
    <3> HAVE k < l
    <3>3. l \in 2..n /\ s[l] = w[l] /\ w[l].id \in 1..made
      <4>1. 1 <= k /\ k < l /\ l <= n /\ l \in Int
        OBVIOUS
      <4>2. l \in 2..n
        BY <4>1
      <4> QED BY <1>12, <1>18, <4>2
    <3>4. CASE k = 1
      BY <1>6, <1>7, <1>18, <3>3, <3>4
    <3>5. CASE k # 1
      BY <1>10, <1>18, <1>19, <3>3, <3>5
    <3> QED BY <3>4, <3>5
  <2> QED BY <1>18, <2>1, <2>2 DEF EndsAreOrdered
<1>21. s # <<>>
  BY <1>8, <1>18, EmptySeq
<1>22. \A k \in 1..n : s[k].id = 0 \/ w[1].id < s[k].id
  <2> TAKE k \in 1..n
  <2>2. CASE k = 1
    BY <1>6, <1>18, <2>2
  <2>3. CASE k # 1
    BY <1>10, <1>11, <1>18, <1>19, <2>3
  <2> QED BY <2>2, <2>3
<1>23. ASSUME NEW id \in Nat, Later(id)
       PROVE  id < w[1].id /\ \A k \in 1..n : s[k].id = 0 \/ id < s[k].id
  <2>1. \A i \in 1..m : q[i].id = 0 \/ id < q[i].id
    BY <1>1, <1>2, <1>23 DEF Later
  <2>2. \A k \in 1..n : id < w[k].id
    <3> TAKE k \in 1..n
    <3>2. w[k] = q[k + d] /\ k + d \in 1..m /\ w[k].id \in 1..made
      BY <1>8, <1>9, <1>12
    <3> QED BY <1>7, <2>1, <3>2
  <2>3. \A k \in 1..n : s[k].id = 0 \/ id < s[k].id
    BY <1>6, <1>18, <1>19, <2>2
  <2> QED BY <1>11, <2>2, <2>3
<1>24. Head(w) = w[1]
  BY <1>8
<1> QED BY <1>4, <1>8, <1>9, <1>11, <1>12, <1>16, <1>18, <1>20, <1>21, <1>22, <1>23, <1>24

\* What a script queues comes after all that is there.
LEMMA GrownFacts ==
    ASSUME EffectsSound, made < MaxCalls, NEW e, e \in Effect, e.id = made + 1, e.do # "inprogress",
           NEW w, w = Append(FxQueue, e), made' = made + 1
    PROVE  /\ w \in Seq(Effect) /\ w # <<>> /\ Head(w) = w[1] /\ (w[1] = InProgress <=> Marked)
           /\ EndsAreOrdered(w)'
           /\ \A id \in Nat : id <= made /\ Later(id) =>
                 \A k \in 1..Len(w) : w[k].id = 0 \/ id < w[k].id
<1>1. PICK q \in Seq(Effect) : q = FxQueue
  BY QueueTyped DEF EffectsSound
<1>2. PICK m \in Nat : m = Len(q)
  BY LenProperties
<1>3. PICK c \in Nat : c = made
  BY EffectsAssumption DEF EffectsSound, EffectTypes
<1>4. /\ \A i \in 1..m : (q[i] = InProgress \/ q[i].id \in 1..c) /\ (q[i].do = "inprogress" => q[i] = InProgress)
      /\ \A i, j \in 1..m : i < j => q[i].id < q[j].id
  BY <1>1, <1>2, <1>3 DEF EffectsSound, EndOrderInv, EndsAreOrdered
<1>5. InProgress.id = 0 /\ InProgress.do = "inprogress"
  BY DEF InProgress
<1>6. /\ w \in Seq(Effect) /\ Len(w) = m + 1 /\ w[m + 1] = e
      /\ \A i \in 1..m : w[i] = q[i]
  BY <1>1, <1>2, AppendProperties
<1>7. e.id = c + 1 /\ e # InProgress
  BY <1>3, <1>5
<1>8. \A k \in 1..(m + 1) : k \in 1..m \/ k = m + 1
  BY <1>2
<1>9. w # <<>> /\ Head(w) = w[1]
  BY <1>2, <1>6, EmptySeq
<1>10. w[1] = InProgress <=> Marked
  <2>1. CASE m = 0
    <3>1. q = <<>> /\ w[1] = e
      <4>1. q = <<>>
        BY <1>2, <2>1, EmptySeq
      <4>2. m + 1 = 1
        BY <2>1
      <4> QED BY <1>6, <4>1, <4>2
    <3> QED BY <1>1, <1>7, <3>1 DEF Marked
  <2>2. CASE m # 0
    <3>1. q # <<>> /\ 1 \in 1..m
      BY <1>2, <2>2, EmptySeq
    <3>2. w[1] = q[1]
      BY <1>6, <3>1
    <3> QED BY <1>1, <3>1, <3>2 DEF Marked
  <2> QED BY <2>1, <2>2
<1>11. \A i \in 1..(m + 1) :
          (w[i] = InProgress \/ w[i].id \in 1..(c + 1)) /\ (w[i].do = "inprogress" => w[i] = InProgress)
  <2> TAKE i \in 1..(m + 1)
  <2>1. CASE i = m + 1
    BY <1>3, <1>6, <1>7, <2>1
  <2>2. CASE i # m + 1
    <3>1. i \in 1..m
      BY <1>8, <2>2
    <3>2. w[i] = q[i] /\ (q[i] = InProgress \/ q[i].id \in 1..c)
          /\ (q[i].do = "inprogress" => q[i] = InProgress)
      BY <1>4, <1>6, <3>1
    <3> QED BY <1>3, <3>2
  <2> QED BY <2>1, <2>2
<1>12. \A i, j \in 1..(m + 1) : i < j => w[i].id < w[j].id
  <2> TAKE i, j \in 1..(m + 1)
  <2> HAVE i < j
  <2>1. i \in 1..m
    <3>1. 1 <= i /\ i < j /\ j <= m + 1 /\ i \in Int /\ j \in Int
      OBVIOUS
    <3> QED BY <1>2, <3>1
  <2>2. w[i] = q[i] /\ (q[i] = InProgress \/ q[i].id \in 1..c)
    BY <1>4, <1>6, <2>1
  <2>3. CASE j = m + 1
    BY <1>3, <1>5, <1>6, <1>7, <2>2, <2>3
  <2>4. CASE j # m + 1
    <3>1. j \in 1..m
      BY <1>8, <2>4
    <3> QED BY <1>4, <1>6, <2>1, <3>1
  <2> QED BY <2>3, <2>4
<1>13. EndsAreOrdered(w)'
  BY <1>3, <1>6, <1>11, <1>12 DEF EndsAreOrdered
<1>14. ASSUME NEW id \in Nat, id <= made, Later(id)
       PROVE  \A k \in 1..(m + 1) : w[k].id = 0 \/ id < w[k].id
  <2>1. \A i \in 1..m : q[i].id = 0 \/ id < q[i].id
    BY <1>1, <1>2, <1>14 DEF Later
  <2>2. id < e.id
    BY <1>3, <1>7, <1>14
  <2> QED BY <1>6, <1>8, <2>1, <2>2
<1> QED BY <1>6, <1>9, <1>10, <1>13, <1>14

LEMMA EnqueueSound == EffectsSound /\ Enqueue /\ ~misused' => EffectsSound'
<1> SUFFICES ASSUME EffectsSound, Enqueue, ~misused' PROVE EffectsSound'
  OBVIOUS
<1>1. UNCHANGED <<hooks, timers, delays, finished>> /\ UNCHANGED <<shown, opacity, fxshow, toggled>>
      /\ made < MaxCalls /\ made' = made + 1 /\ (todo # <<>> => Last(todo) = Completion)
  BY DEF Enqueue, Calls, EffectScriptRuns, styleVars
<1>2. PICK c \in Nat : c = made
  BY EffectsAssumption DEF EffectsSound, EffectTypes
<1>3. PICK id : id = IF inUse = 0 THEN made' ELSE inUse
  OBVIOUS
<1>4. id \in 1..MaxCalls /\ (inUse # 0 => id = inUse)
  BY <1>1, <1>2, <1>3, EffectsAssumption DEF EffectsSound, EffectTypes
<1>5. PICK do \in {"show", "hide", "toggle", "delay"} :
         LET w == Append(FxQueue, [do |-> do, id |-> made'])
         IN  /\ queues' = [queues EXCEPT ![id] = w]
             /\ inUse' = id
             /\ todo' = IF Head(w) # InProgress THEN Append(todo, DequeueNext) ELSE todo
  BY <1>3 DEF Enqueue
<1>6. PICK e : e = [do |-> do, id |-> made']
  OBVIOUS
<1>7. e \in Effect /\ e.id = made + 1 /\ e.do # "inprogress"
  BY <1>1, <1>2, <1>6, EffectsAssumption DEF Effect
<1>8. PICK w : w = Append(FxQueue, e)
  OBVIOUS
<1>9. /\ w \in Seq(Effect) /\ w # <<>> /\ Head(w) = w[1] /\ (w[1] = InProgress <=> Marked)
      /\ EndsAreOrdered(w)'
      /\ \A k \in Nat : k <= made /\ Later(k) =>
            \A j \in 1..Len(w) : w[j].id = 0 \/ k < w[j].id
  BY <1>1, <1>7, <1>8, GrownFacts
<1>10. /\ queues' = [queues EXCEPT ![id] = w] /\ inUse' = id
       /\ todo' = IF Marked THEN todo ELSE Append(todo, DequeueNext)
  BY <1>5, <1>6, <1>8, <1>9
<1>11. FxQueue' = w /\ queues' \in [1..MaxCalls -> Seq(Effect)]
  BY <1>4, <1>9, <1>10 DEF EffectsSound, EffectTypes, FxQueue
<1>12. Marked' <=> Marked
  BY <1>9, <1>11 DEF Marked
<1>13. EndOrderInv'
  <2>1. \A i \in 1..Len(finished) : finished[i] \in Nat /\ finished[i] <= made /\ Later(finished[i])
    <3>1. \A i \in 1..Len(finished) : finished[i] \in 1..MaxCalls
      BY ElementOfSeq DEF EffectsSound, EffectTypes
    <3> QED BY <3>1, EffectsAssumption DEF EffectsSound, EndOrderInv
  <2>2. \A i \in 1..Len(timers) : timers[i].id \in Nat /\ timers[i].id <= made
    <3>1. \A i \in 1..Len(timers) : timers[i] \in Fades
      BY ElementOfSeq DEF EffectsSound, EffectTypes
    <3>2. \A i \in 1..Len(timers) : timers[i].id \in Nat
      BY <3>1, EffectsAssumption DEF Fades
    <3> QED BY <3>2 DEF EffectsSound, EndOrderInv
  <2>3. (\A i \in 1..Len(finished) : finished[i] <= made /\ Later(finished[i]))'
    <3>1. \A i \in 1..Len(finished) : finished[i] <= made + 1
      BY <1>2, <2>1
    <3>2. \A i \in 1..Len(finished) : \A j \in 1..Len(w) : w[j].id = 0 \/ finished[i] < w[j].id
      BY <1>9, <2>1
    <3> QED BY <1>1, <1>11, <3>1, <3>2 DEF Later
  <2>4. \A i \in 1..Len(timers) : timers[i].complete =>
          /\ \A j \in 1..Len(w) : w[j].id = 0 \/ timers[i].id < w[j].id
          /\ \A j \in 1..Len(finished) : finished[j] < timers[i].id
    BY <1>9, <2>2 DEF EffectsSound, EndOrderInv
  <2>5. (\A i \in 1..Len(timers) : timers[i].complete =>
          /\ Later(timers[i].id)
          /\ \A j \in 1..Len(finished) : finished[j] < timers[i].id)'
    BY <1>1, <1>11, <2>4 DEF Later
  <2>6. (\A i \in 1..Len(timers) : timers[i].id <= made)'
    BY <1>1, <1>2, <2>2
  <2>7. (\A i, j \in 1..Len(finished) : i < j => finished[i] < finished[j])'
    BY <1>1 DEF EffectsSound, EndOrderInv
  <2> QED BY <1>9, <1>11, <2>3, <2>5, <2>6, <2>7 DEF EndOrderInv
<1>14. StyleInv'
  BY <1>1, StyleKept DEF EffectsSound, styleVars
<1>15. (NoneRuns <=> NoneRuns') /\ (OneRuns <=> OneRuns')
  BY <1>1 DEF NoneRuns, OneRuns
<1>16. ASSUME todo' \in Seq(Calling) PROVE EffectTypes'
  <2>1. made' \in 0..MaxCalls /\ inUse' \in 0..MaxCalls
    BY <1>1, <1>2, <1>4, <1>10, EffectsAssumption
  <2> QED BY <1>1, <1>11, <1>16, <2>1 DEF EffectsSound, EffectTypes
<1>17. PICK b \in Seq(Calling) : OnTop(b)
  BY TopOf DEF EffectsSound
<1>18. Base(b) /\ TimersFit(b)
  BY <1>17 DEF OnTop
<1>19. TimersFit(b)'
  BY <1>1, <1>18, FitKept
<1>20. CASE todo = <<>>
  <2>1. Calm(b) /\ b = <<>>
    BY <1>17, <1>20 DEF OnTop
  <2>2. Len(b) = 0 /\ ~Root(b, {"tick", "stop", "stopTimers"}) /\ ~Root(b, {"tick"})
        /\ ~Root(b, {"stop"}) /\ ~Root(b, {"stopTimers"})
    BY <2>1 DEF Root
  <2>3. Base(b)'
    BY <2>1, <2>2 DEF Base
  <2>4. OneRuns' /\ (NoneRuns \/ Marked)
    BY <1>15, <2>1, <2>2 DEF Calm
  <2>5. CASE Marked
    <3>1. todo' = b
      BY <1>10, <1>20, <2>1, <2>5
    <3>2. Calm(b)'
      BY <1>12, <2>2, <2>4, <2>5, <3>1 DEF Calm
    <3> QED BY <1>13, <1>14, <1>16, <1>19, <2>3, <3>1, <3>2, StackMade DEF EffectsSound
  <2>6. CASE ~Marked
    <3>1. todo' = Append(b, DequeueNext)
      BY <1>10, <1>20, <2>1, <2>6
    <3>2. todo' \in Seq(Calling)
      BY <3>1, StackFacts DEF Calling
    <3>3. NoneRuns'
      BY <1>15, <2>4, <2>6
    <3>4. Due(b)'
      BY <2>2, <3>1, <3>3 DEF Due
    <3> QED BY <1>13, <1>14, <1>16, <1>19, <2>3, <3>2, <3>4, StackMade DEF EffectsSound
  <2> QED BY <2>5, <2>6
<1>21. CASE todo # <<>>
  <2>1. Last(todo).do = "script"
    BY <1>1, <1>21 DEF Completion
  <2>2. ScriptDue(b)
    <3>1. PICK d : d = Last(todo).do
      OBVIOUS
    <3>2. d # "dequeued" /\ d # "dequeue"
      BY <2>1, <3>1
    <3>3. ~(d \in {"tick", "ticked", "stop", "stopTimers", "stopped"})
      BY <2>1, <3>1
    <3> QED BY <1>17, <1>21, <3>1, <3>2, <3>3 DEF OnTop
  <2>3. ~(inUse = 0 /\ Root(b, {"stopped"}))
    <3> SUFFICES ASSUME inUse = 0, Root(b, {"stopped"}) PROVE FALSE
      OBVIOUS
    <3>1. b # <<>> /\ b[1].do = "stopped"
      BY DEF Root
    <3>2. 1 \in 1..Len(b)
      BY <3>1, EmptySeq
    <3>3. PICK d \in Seq(Calling) : d = Append(b, DequeueNext) /\ Len(d) = Len(b) + 1 /\ d[1] = b[1]
      <4>1. DequeueNext \in Calling
        BY DEF Calling
      <4>2. PICK d : d = Append(b, DequeueNext)
        OBVIOUS
      <4>3. d \in Seq(Calling) /\ Len(d) = Len(b) + 1 /\ \A i \in 1..Len(b) : d[i] = b[i]
        BY <4>1, <4>2, StackFacts
      <4> QED BY <3>2, <4>2, <4>3
    <3>4. todo = Append(d, Completion)
      BY <2>2, <3>3 DEF ScriptDue
    <3>5. Completion \in Calling /\ 1 \in 1..Len(d)
      <4>1. Completion \in Calling
        BY DEF Calling
      <4>2. Len(b) \in Nat
        BY LenProperties
      <4>3. 1 \in 1..Len(d)
        BY <3>2, <3>3, <4>2
      <4> QED BY <4>1, <4>3
    <3>6. todo \in Seq(Calling) /\ todo[1] = b[1] /\ Len(todo) = Len(d) + 1
      BY <3>3, <3>4, <3>5, StackFacts
    <3>7. 1 \in DOMAIN todo
      BY <3>2, <3>3, <3>6
    <3>8. todo[1] \in ToSet(todo)
      BY <3>7 DEF ToSet
    <3>9. misused'
      BY <3>1, <3>6, <3>8 DEF Enqueue
    <3> QED BY <3>9
  <2>4. Marked /\ NoneRuns /\ ~Root(b, {"tick", "stop", "stopTimers"})
        /\ todo = Append(Append(b, DequeueNext), Completion)
    BY <2>2, <2>3 DEF ScriptDue
  <2>5. inUse' = inUse
    BY <1>4, <1>10, <2>4 DEF Marked, FxQueue
  <2>6. Base(b)'
    BY <1>12, <1>18, <2>5 DEF Base
  <2>7. todo' = todo
    BY <1>10, <2>4
  <2>8. ScriptDue(b)'
    BY <1>12, <1>15, <2>4, <2>7 DEF ScriptDue, Root
  <2>9. todo' \in Seq(Calling)
    BY <2>7 DEF EffectsSound, EffectTypes
  <2> QED BY <1>13, <1>14, <1>16, <1>19, <2>6, <2>8, <2>9, StackMade DEF EffectsSound
<1> QED BY <1>20, <1>21

LEMMA StopSound == EffectsSound /\ Stop /\ ~misused' => EffectsSound'
<1> SUFFICES ASSUME EffectsSound, Stop, ~misused' PROVE EffectsSound'
  OBVIOUS
<1>1. UNCHANGED <<hooks, timers, delays, finished>> /\ UNCHANGED <<shown, opacity, fxshow, toggled>>
      /\ made < MaxCalls /\ made' = made + 1
  BY DEF Stop, Calls, styleVars
<1>2. PICK clear, toEnd \in BOOLEAN :
         /\ todo' = todo \o <<[do |-> "stop", toEnd |-> toEnd]>>
                         \o (IF clear THEN <<DequeueNext>> ELSE <<>>)
         /\ queues' = IF clear THEN [queues EXCEPT ![made'] = <<>>] ELSE queues
         /\ inUse' = IF clear THEN made' ELSE inUse
         /\ misused' = (misused \/ todo # <<>> \/ (clear /\ delays # {}))
  BY DEF Stop
<1>3. todo = <<>> /\ (clear => delays = {})
  BY <1>2
<1>4. PICK m \in Nat : m = made /\ m + 1 \in 1..MaxCalls
  BY <1>1, EffectsAssumption DEF EffectsSound, EffectTypes
<1>5. PICK b \in Seq(Calling) : OnTop(b)
  BY TopOf DEF EffectsSound
<1>6. Calm(b) /\ b = <<>> /\ TimersFit(b)
  BY <1>3, <1>5 DEF OnTop
<1>7. /\ Len(timers) <= 1 /\ \A i \in 1..Len(timers) : timers[i].complete
      /\ OneRuns /\ (NoneRuns \/ Marked)
  BY <1>6 DEF TimersFit, Calm, Root
<1>8. (NoneRuns <=> NoneRuns') /\ (OneRuns <=> OneRuns')
  BY <1>1 DEF NoneRuns, OneRuns
<1>9. StyleInv'
  BY <1>1, StyleKept DEF EffectsSound, styleVars
<1>10. PICK f : f = [do |-> "stop", toEnd |-> toEnd]
  OBVIOUS
<1>11. f \in Calling /\ f.do = "stop"
  <2>1. f \in [do : {"stop"}, toEnd : BOOLEAN]
    BY <1>10
  <2> QED BY <2>1 DEF Calling
<1>12. PICK c \in Seq(Calling) : c = <<f>> /\ Len(c) = 1 /\ c # <<>> /\ c[1] = f
  BY <1>11, FramePushed
<1>13. <<>> \o c = c /\ c \o <<>> = c
  BY <1>12, ConcatEmptySeq
<1>14. TimersFit(c)'
  BY <1>1, <1>7, <1>11, <1>12 DEF TimersFit, Root
<1>15. ~Root(c, {"tick"}) /\ ~Root(c, {"stopTimers"}) /\ Root(c, {"stop"})
  BY <1>11, <1>12 DEF Root
<1>16. Base(c)'
  BY <1>11, <1>12 DEF Base
<1>17. \A i \in 1..Len(finished) : finished[i] \in Nat /\ finished[i] <= m
  <2>1. \A i \in 1..Len(finished) : finished[i] \in 1..MaxCalls
    BY ElementOfSeq DEF EffectsSound, EffectTypes
  <2> QED BY <1>4, <2>1, EffectsAssumption DEF EffectsSound, EndOrderInv
<1>18. \A i \in 1..Len(timers) : timers[i].id \in Nat /\ timers[i].id <= m
  <2>1. \A i \in 1..Len(timers) : timers[i] \in Fades
    BY ElementOfSeq DEF EffectsSound, EffectTypes
  <2>2. \A i \in 1..Len(timers) : timers[i].id \in Nat
    BY <2>1, EffectsAssumption DEF Fades
  <2> QED BY <1>4, <2>2 DEF EffectsSound, EndOrderInv
<1>19. (/\ \A i \in 1..Len(finished) : finished[i] <= made
        /\ \A i \in 1..Len(timers) : timers[i].id <= made)'
  BY <1>1, <1>4, <1>17, <1>18
<1>20. CASE clear
  <2>1. queues' = [queues EXCEPT ![made'] = <<>>] /\ inUse' = made'
    BY <1>2, <1>20
  <2>2. queues' \in [1..MaxCalls -> Seq(Effect)]
    <3>1. <<>> \in Seq(Effect)
      OBVIOUS
    <3> QED BY <1>1, <1>4, <2>1, <3>1 DEF EffectsSound, EffectTypes
  <2>3. inUse' \in 1..MaxCalls /\ FxQueue' = <<>>
    BY <1>1, <1>4, <2>1 DEF EffectsSound, EffectTypes, FxQueue
  <2>4. todo' = Append(c, DequeueNext) /\ DequeueNext \in Calling
    <3>1. DequeueNext \in Calling
      BY DEF Calling
    <3>2. Append(c, DequeueNext) = c \o <<DequeueNext>>
      BY <3>1, AppendIsConcat
    <3> QED BY <1>2, <1>3, <1>10, <1>12, <1>13, <1>20, <3>1, <3>2
  <2>5. todo' \in Seq(Calling)
    BY <2>4, StackFacts
  <2>6. EffectTypes'
    <3>1. made' \in 0..MaxCalls /\ inUse' \in 0..MaxCalls
      BY <1>1, <1>4, <2>3
    <3> QED BY <1>1, <2>2, <2>5, <3>1 DEF EffectsSound, EffectTypes
  <2>7. EndOrderInv'
    <3>1. \A i : ~(i \in 1..Len(<<>>))
      OBVIOUS
    <3>2. EndsAreOrdered(FxQueue)' /\ (\A i \in 1..Len(finished) : Later(finished[i]))'
          /\ (\A i \in 1..Len(timers) : Later(timers[i].id))'
      BY <2>3, <3>1 DEF EndsAreOrdered, Later
    <3>3. (/\ \A i \in 1..Len(timers) : timers[i].complete =>
                \A j \in 1..Len(finished) : finished[j] < timers[i].id
           /\ \A i, j \in 1..Len(finished) : i < j => finished[i] < finished[j])'
      BY <1>1 DEF EffectsSound, EndOrderInv
    <3> QED BY <1>19, <3>2, <3>3 DEF EndOrderInv
  <2>8. Due(c)'
    <3>1. delays' = {}
      BY <1>1, <1>3, <1>20
    <3> QED BY <1>7, <1>8, <1>12, <1>15, <2>3, <2>4, <3>1 DEF Due, Root
  <2> QED BY <1>9, <1>14, <1>16, <2>6, <2>7, <2>8, StackMade DEF EffectsSound
<1>21. CASE ~clear
  <2>1. UNCHANGED <<queues, inUse>> /\ todo' = c
    BY <1>2, <1>3, <1>10, <1>12, <1>13, <1>21
  <2>2. EffectTypes'
    <3>1. made' \in 0..MaxCalls
      BY <1>1, <1>4
    <3> QED BY <1>1, <2>1, <3>1 DEF EffectsSound, EffectTypes
  <2>3. EndOrderInv'
    <3>1. FxQueue' = FxQueue
      BY <2>1 DEF FxQueue
    <3>2. \A k : k \in 1..m => k \in 1..(m + 1)
      BY <1>4
    <3>3. EndsAreOrdered(FxQueue)'
      <4>1. PICK q : q = FxQueue
        OBVIOUS
      <4>2. \A i \in 1..Len(q) : (q[i] = InProgress \/ q[i].id \in 1..(m + 1)) /\ (q[i].do = "inprogress" => q[i] = InProgress)
        BY <1>4, <3>2, <4>1 DEF EffectsSound, EndOrderInv, EndsAreOrdered
      <4>3. \A i, j \in 1..Len(q) : i < j => q[i].id < q[j].id
        BY <4>1 DEF EffectsSound, EndOrderInv, EndsAreOrdered
      <4>4. made' = m + 1 /\ FxQueue' = q
        BY <1>1, <1>4, <3>1, <4>1
      <4> QED BY <4>2, <4>3, <4>4 DEF EndsAreOrdered
    <3>4. (/\ \A i \in 1..Len(finished) : Later(finished[i])
           /\ \A i \in 1..Len(timers) : timers[i].complete =>
                /\ Later(timers[i].id)
                /\ \A j \in 1..Len(finished) : finished[j] < timers[i].id
           /\ \A i, j \in 1..Len(finished) : i < j => finished[i] < finished[j])'
      BY <1>1, <3>1 DEF EffectsSound, EndOrderInv, Later
    <3> QED BY <1>19, <3>3, <3>4 DEF EndOrderInv
  <2>4. Calm(c)'
    <3>1. Marked <=> Marked'
      BY <2>1, MarkKept
    <3> QED BY <1>7, <1>8, <1>12, <1>15, <2>1, <3>1 DEF Calm
  <2> QED BY <1>9, <1>14, <1>16, <2>2, <2>3, <2>4, StackMade DEF EffectsSound
<1> QED BY <1>20, <1>21

\* A function is about to be called at an end, or a fade has started: what
\* StartFade does overdue a stack on which nothing runs.
LEMMA FadeStarts ==
    ASSUME EffectsSound, NoneRuns, NEW f \in Effect, NEW overdue \in Seq(Calling), StartFade(f, overdue),
           f.do \in {"show", "hide", "toggle"}, f.id \in 1..MaxCalls
    PROVE  \/ /\ todo' = Append(Append(overdue, DequeueNext), Completion)
              /\ finished' = Append(finished, f.id)
              /\ UNCHANGED <<styleVars, timers>>
           \/ /\ todo' = overdue /\ UNCHANGED <<fxshow, finished>>
              /\ \E t \in Fades : timers' = Append(timers, t) /\ t.id = f.id /\ t.complete
                    /\ t.orig = Full
                    /\ (fxshow = Unset => IF t.shows THEN t.end = Full ELSE t.start = Full)
              /\ opacity' \in 0..Full /\ shown' \in BOOLEAN /\ shown'
              /\ toggled' \in {None, "show", "hide"}
<1>1. (\A i \in 1..Len(timers) : ~timers[i].complete) /\ shown \in BOOLEAN /\ opacity \in 0..Full
      /\ fxshow \in {Unset, Full} /\ toggled \in {None, "show", "hide"}
  BY DEF EffectsSound, EffectTypes, NoneRuns
<1>2. (toggled # None => shown) /\ (fxshow = Full => shown) /\ (fxshow = Unset => opacity = Full)
  BY <1>1 DEF EffectsSound, StyleInv
<1>3. CASE (f.do = "show" /\ shown) \/ (f.do = "hide" /\ ~shown)
  <2>1. todo' = overdue \o EffectEnds /\ finished' = Append(finished, f.id) /\ UNCHANGED <<styleVars, timers>>
    BY <1>3 DEF StartFade
  <2> QED BY <2>1, EndsPushed
<1>4. CASE ~((f.do = "show" /\ shown) \/ (f.do = "hide" /\ ~shown))
  <2>1. PICK method : method = IF toggled # None THEN toggled
                               ELSE IF f.do = "toggle" THEN IF shown THEN "hide" ELSE "show" ELSE f.do
    OBVIOUS
  <2>2. PICK shows \in BOOLEAN : shows <=> method = "show"
    OBVIOUS
  <2>3. shows = (method = "show")
    BY <2>2
  <2>4. PICK remembered : remembered = IF fxshow \in {Unset, 0} THEN opacity ELSE fxshow
    OBVIOUS
  <2>5. PICK from : from = IF shows /\ fxshow = Unset THEN 0 ELSE opacity
    OBVIOUS
  <2>6. PICK to : to = IF ~shows THEN 0 ELSE IF fxshow = Unset THEN opacity ELSE fxshow
    OBVIOUS
  <2>7. PICK yes, no \in BOOLEAN : yes = TRUE /\ no = FALSE
    OBVIOUS
  <2>8. PICK t : t = [id |-> f.id, shows |-> shows, start |-> from, end |-> to, orig |-> remembered,
                      halfway |-> no, complete |-> yes]
    OBVIOUS
  <2>9. /\ todo' = overdue /\ timers' = Append(timers, t) /\ opacity' = from
        /\ shown' = (shown \/ shows)
        /\ toggled' = IF ~(f.do = "toggle" \/ toggled # None) THEN None
                      ELSE IF shows THEN "hide" ELSE "show"
        /\ UNCHANGED <<fxshow, finished>>
    BY <1>4, <2>1, <2>3, <2>4, <2>5, <2>6, <2>7, <2>8 DEF StartFade
  <2>10. remembered = Full
    BY <1>1, <1>2, <2>4 DEF Full, Unset
  <2>11. from \in 0..Full /\ to \in 0..Full
    BY <1>1, <2>5, <2>6 DEF Full, Unset
  <2>12. Full \in 0..Full
    BY DEF Full
  <2>13. t \in Fades
    BY <2>8, <2>10, <2>11, <2>12 DEF Fades
  <2>14. t.id = f.id /\ t.orig = Full /\ t.start = from /\ t.end = to
    BY <2>8, <2>10
  <2>15. t.complete /\ (t.shows <=> shows)
    BY <2>7, <2>8
  <2>16. fxshow = Unset => IF shows THEN to = Full ELSE from = Full
    BY <1>2, <2>5, <2>6
  <2>17. fxshow = Unset => IF t.shows THEN t.end = Full ELSE t.start = Full
    BY <2>14, <2>15, <2>16
  <2>18. shown \/ shows
    <3>1. CASE toggled # None
      BY <1>2, <3>1
    <3>2. CASE toggled = None /\ f.do = "toggle"
      BY <2>1, <2>2, <3>2
    <3>3. CASE toggled = None /\ f.do # "toggle"
      BY <1>4, <2>1, <2>2, <3>3
    <3> QED BY <3>1, <3>2, <3>3
  <2>19. toggled' \in {None, "show", "hide"}
    BY <2>9
  <2>20. \E u \in Fades : timers' = Append(timers, u) /\ u.id = f.id /\ u.complete
            /\ u.orig = Full
            /\ (fxshow = Unset => IF u.shows THEN u.end = Full ELSE u.start = Full)
    BY <2>9, <2>13, <2>14, <2>15, <2>17
  <2> QED BY <2>9, <2>11, <2>18, <2>19, <2>20
<1> QED BY <1>3, <1>4

\* The queue is gone, or its last effect has ended.
LEMMA QueueEmptySound ==
    ASSUME EffectsSound, NEW b \in Seq(Calling), Base(b), TimersFit(b), Due(b), todo' = b,
           queues' = (IF inUse = 0 THEN queues ELSE [queues EXCEPT ![inUse] = <<>>]),
           inUse' = 0, hooks' = 0, UNCHANGED <<styleVars, timers, delays, finished, made>>
    PROVE  EffectsSound'
<1>1. UNCHANGED <<shown, opacity, fxshow, toggled>>
  BY DEF styleVars
<1>2. queues' \in [1..MaxCalls -> Seq(Effect)]
  <2>1. <<>> \in Seq(Effect)
    OBVIOUS
  <2> QED BY <2>1 DEF EffectsSound, EffectTypes
<1>3. EffectTypes'
  BY <1>1, <1>2, EffectsAssumption DEF EffectsSound, EffectTypes
<1>4. StyleInv'
  BY StyleKept DEF EffectsSound
<1>5. FxQueue' = <<>>
  BY DEF FxQueue
<1>6. EndOrderInv'
  <2>1. \A i : ~(i \in 1..Len(<<>>))
    OBVIOUS
  <2>2. EndsAreOrdered(FxQueue)' /\ (\A i \in 1..Len(finished) : Later(finished[i]))'
        /\ (\A i \in 1..Len(timers) : Later(timers[i].id))'
    BY <1>5, <2>1 DEF EndsAreOrdered, Later
  <2>3. (/\ \A i \in 1..Len(finished) : finished[i] <= made
         /\ \A i \in 1..Len(timers) : timers[i].id <= made
         /\ \A i \in 1..Len(timers) : timers[i].complete =>
              \A j \in 1..Len(finished) : finished[j] < timers[i].id
         /\ \A i, j \in 1..Len(finished) : i < j => finished[i] < finished[j])'
    BY DEF EffectsSound, EndOrderInv
  <2> QED BY <2>2, <2>3 DEF EndOrderInv
<1>7. Base(b)'
  BY DEF Base
<1>8. TimersFit(b)'
  BY FitKept
<1>9. \/ NoneRuns' /\ ~Root(b, {"tick", "stop", "stopTimers"})
      \/ Root(b, {"stop"}) /\ Len(b) = 1 /\ delays' = {}
  BY DEF Due, NoneRuns
<1>10. OneRuns'
  BY <1>9 DEF OneRuns, NoneRuns
<1>11. ~Root(b, {"tick"}) /\ ~Root(b, {"stopTimers"})
  BY <1>9 DEF Root
<1>12. Len(b) > 1 => ~Root(b, {"tick", "stop", "stopTimers"})
  <2>1. Len(b) = 1 => ~(Len(b) > 1)
    OBVIOUS
  <2> QED BY <1>9, <2>1
<1>13. Calm(b)'
  BY <1>9, <1>10, <1>11, <1>12 DEF Calm
<1> QED BY <1>3, <1>4, <1>6, <1>7, <1>8, <1>13, StackMade DEF EffectsSound

LEMMA DequeueSound == EffectsSound /\ Dequeue => EffectsSound'
<1> SUFFICES ASSUME EffectsSound, Dequeue PROVE EffectsSound'
  OBVIOUS
<1>1. todo # <<>> /\ Last(todo).do = "dequeue" /\ UNCHANGED made
  BY DEF Dequeue, Doing
<1>2. PICK b \in Seq(Calling) : OnTop(b)
  BY TopOf DEF EffectsSound
<1>3. Due(b) /\ Front(todo) = b /\ Base(b) /\ TimersFit(b)
  <2>1. PICK d : d = Last(todo).do
    OBVIOUS
  <2>2. d # "dequeued" /\ d # "script" /\ ~(d \in {"tick", "ticked", "stop", "stopTimers", "stopped"})
    BY <1>1, <2>1
  <2> QED BY <1>1, <1>2, <2>1, <2>2 DEF OnTop
<1>4. PICK w : Waits(w)
  BY DEF Waits
<1>5. w = IF FxQueue # <<>> /\ Head(FxQueue) = InProgress THEN Tail(FxQueue) ELSE FxQueue
  <2>1. FxQueue \in Seq(Effect)
    BY QueueTyped DEF EffectsSound
  <2>2. Marked <=> FxQueue # <<>> /\ Head(FxQueue) = InProgress
    BY <2>1 DEF Marked
  <2> QED BY <1>4, <2>2 DEF Waits
<1>6. CASE w = <<>>
  <2>1. /\ queues' = IF inUse = 0 THEN queues ELSE [queues EXCEPT ![inUse] = <<>>]
        /\ inUse' = 0 /\ hooks' = 0 /\ todo' = b
        /\ UNCHANGED <<styleVars, timers, delays, finished>>
    BY <1>3, <1>5, <1>6 DEF Dequeue, ForgetQueue, Caller
  <2> QED BY <1>1, <1>3, <2>1, QueueEmptySound
<1>7. CASE w # <<>>
  <2>1. /\ inUse \in 1..MaxCalls
        /\ w \in Seq(Effect) /\ w[1] \in Effect /\ Head(w) = w[1] /\ w[1].id \in 1..made
        /\ w[1].do # "inprogress"
        /\ Running(w) \in Seq(Effect) /\ Running(w) # <<>> /\ Running(w)[1] = InProgress
        /\ EndsAreOrdered(Running(w))
        /\ \A k \in 1..Len(Running(w)) : Running(w)[k].id = 0 \/ w[1].id < Running(w)[k].id
        /\ \A id \in Nat : Later(id) =>
              /\ id < w[1].id
              /\ \A k \in 1..Len(Running(w)) : Running(w)[k].id = 0 \/ id < Running(w)[k].id
    BY <1>4, <1>7, TakenFacts
  <2>2. PICK f \in Effect : f = w[1] /\ f = Head(w)
    BY <2>1
  <2>3. PICK s \in Seq(Effect) : s = Running(w)
    BY <2>1
  <2>4. PICK g : g = [do |-> "dequeued", queue |-> inUse]
    OBVIOUS
  <2>5. g \in Calling /\ g.do = "dequeued" /\ g.queue = inUse
    <3>1. g \in [do : {"dequeued"}, queue : 0..MaxCalls]
      BY <2>1, <2>4
    <3> QED BY <2>4, <3>1 DEF Calling
  <2>6. PICK c : c = Append(b, g)
    OBVIOUS
  <2>7. c \in Seq(Calling) /\ c # <<>> /\ Len(c) = Len(b) + 1 /\ (\A i \in 1..Len(b) : c[i] = b[i])
        /\ c[Len(b) + 1] = g
    BY <2>5, <2>6, StackFacts
  <2>8. /\ queues' = [queues EXCEPT ![inUse] = s]
        /\ inUse' = inUse
        /\ \/ /\ f.do = "delay" /\ delays' = delays \cup {f.id} /\ hooks' = f.id /\ todo' = c
              /\ UNCHANGED <<styleVars, timers, finished>>
           \/ /\ f.do # "delay" /\ hooks' = 0 /\ UNCHANGED delays /\ StartFade(f, c)
    BY <1>3, <1>5, <1>7, <2>2, <2>3, <2>4, <2>6 DEF Dequeue, Caller
  <2>9. FxQueue' = s /\ queues' \in [1..MaxCalls -> Seq(Effect)]
    BY <2>1, <2>3, <2>8 DEF EffectsSound, EffectTypes, FxQueue
  <2>10. Marked'
    BY <2>1, <2>3, <2>9 DEF Marked
  <2>11. NoneRuns /\ ~Root(b, {"tick", "stop", "stopTimers"})
    <3>1. FxQueue # <<>>
      <4>1. FxQueue = <<>> => w = <<>>
        BY <1>5
      <4> QED BY <1>7, <4>1
    <3> QED BY <1>3, <3>1 DEF Due
  <2>12. PICK n \in Nat : n = Len(b)
    BY LenProperties
  <2>13. n # 0 => b # <<>> /\ c[1] = b[1]
    <3>1. n # 0 => 1 \in 1..n
      BY <2>12
    <3> QED BY <2>7, <2>12, <3>1, EmptySeq
  <2>14. n = 0 => b = <<>> /\ c[1] = g
    <3>1. n = 0 => b = <<>>
      BY <2>12, EmptySeq
    <3>2. n = 0 => n + 1 = 1
      OBVIOUS
    <3> QED BY <2>7, <2>12, <3>1, <3>2
  <2>15. Base(c)'
    <3>1. \A p \in 1..(n + 1) : p \in 1..n \/ p = n + 1
      BY <2>12
    <3>2. \A p \in 1..n : /\ (p > 1 => b[p].do = "dequeued")
                          /\ (b[p].do = "dequeued" => b[p].queue = inUse)
      BY <1>3, <2>1, <2>12 DEF Base
    <3>3. \A p \in 1..(n + 1) : /\ (p > 1 => c[p].do = "dequeued")
                                /\ (c[p].do = "dequeued" => c[p].queue = inUse)
      BY <2>5, <2>7, <2>12, <3>1, <3>2
    <3>4. c[1].do \in {"dequeued", "tick", "ticked", "stop", "stopTimers", "stopped"}
      BY <1>3, <2>5, <2>13, <2>14 DEF Base
    <3> QED BY <2>7, <2>8, <2>10, <2>12, <3>3, <3>4 DEF Base
  <2>16. Root(c, {"ticked", "stopped"}) <=> Root(b, {"ticked", "stopped"})
    <3>1. n = 0 => ~Root(c, {"ticked", "stopped"}) /\ ~Root(b, {"ticked", "stopped"})
      BY <2>5, <2>14 DEF Root
    <3>2. n # 0 => (Root(c, {"ticked", "stopped"}) <=> Root(b, {"ticked", "stopped"}))
      BY <2>7, <2>13 DEF Root
    <3> QED BY <3>1, <3>2
  <2>17. ~Root(c, {"tick", "stop", "stopTimers"}) /\ ~Root(c, {"tick"}) /\ ~Root(c, {"stopTimers"})
    <3>1. n = 0 => ~(c[1].do \in {"tick", "stop", "stopTimers"})
      BY <2>5, <2>14
    <3>2. n # 0 => ~(c[1].do \in {"tick", "stop", "stopTimers"})
      BY <2>11, <2>13 DEF Root
    <3> QED BY <3>1, <3>2 DEF Root
  <2>18. Root(b, {"ticked", "stopped"}) => n # 0 /\ c[1] = b[1]
    <3>1. Root(b, {"ticked", "stopped"}) => n # 0
      BY <2>12, EmptySeq DEF Root
    <3> QED BY <2>13, <3>1
  <2>19. PICK k \in Nat : k = made /\ k <= MaxCalls
    BY EffectsAssumption DEF EffectsSound, EffectTypes
  <2>20. f.id \in 1..k /\ f.id \in 1..MaxCalls
    BY <2>1, <2>2, <2>19, EffectsAssumption
  <2>21. \A i \in 1..Len(finished) : finished[i] \in Nat /\ finished[i] <= k /\ Later(finished[i])
    <3>1. \A i \in 1..Len(finished) : finished[i] \in 1..MaxCalls
      BY ElementOfSeq DEF EffectsSound, EffectTypes
    <3> QED BY <2>19, <3>1, EffectsAssumption DEF EffectsSound, EndOrderInv
  <2>22. \A i \in 1..Len(finished) : finished[i] < f.id
            /\ \A j \in 1..Len(s) : s[j].id = 0 \/ finished[i] < s[j].id
    BY <2>1, <2>2, <2>3, <2>21
  <2>23. EndsAreOrdered(s)' /\ \A j \in 1..Len(s) : s[j].id = 0 \/ f.id < s[j].id
    <3>1. EndsAreOrdered(s)
      BY <2>1, <2>3
    <3>2. EndsAreOrdered(s)'
      BY <1>1, <3>1 DEF EndsAreOrdered
    <3> QED BY <2>1, <2>2, <2>3, <3>2
  <2>24. (\A i \in 1..Len(timers) : ~timers[i].complete) /\ delays = {}
    BY <2>11 DEF NoneRuns
  <2>25. \A i \in 1..Len(timers) : timers[i].id <= k
    BY <2>19 DEF EffectsSound, EndOrderInv
  <2>26. PICK m \in Nat : m = Len(timers)
    BY LenProperties DEF EffectsSound, EffectTypes
  <2>27. /\ Root(b, {"ticked", "stopped"}) =>
              /\ m = 1
              /\ b[1].do = "ticked" => b[1].i = 1 /\ b[1].id = timers[1].id
              /\ b[1].do = "stopped" => b[1].i = 0 /\ b[1].toEnd /\ b[1].had
         /\ ~Root(b, {"ticked", "stopped"}) => m = 0
    <3>1. CASE Root(b, {"ticked", "stopped"})
      <4>1. m \in {1, 2} /\ (m = 2 => timers[2].complete)
        BY <1>3, <2>26, <3>1 DEF TimersFit
      <4>2. m # 2
        BY <2>24, <2>26, <4>1
      <4> QED BY <1>3, <3>1, <4>1, <4>2 DEF TimersFit
    <3>2. CASE ~Root(b, {"ticked", "stopped"})
      <4>1. m <= 1 /\ \A i \in 1..m : timers[i].complete
        BY <1>3, <2>26, <3>2 DEF TimersFit
      <4>2. m # 1
        BY <2>24, <2>26, <4>1
      <4> QED BY <3>2, <2>26, <4>1, <4>2
    <3> QED BY <3>1, <3>2
  <2>28. made' = k /\ inUse' \in 0..MaxCalls /\ made' \in 0..MaxCalls
    BY <1>1, <2>1, <2>8, <2>19
  <2>29. ASSUME UNCHANGED timers PROVE TimersFit(c)'
    <3>1. CASE Root(b, {"ticked", "stopped"})
      <4>1. c[1] = b[1] /\ Root(c, {"ticked", "stopped"}) /\ m = 1
        BY <2>16, <2>18, <2>27, <3>1
      <4>2. /\ c[1].do = "ticked" => c[1].i = 1 /\ c[1].id = timers[1].id
            /\ c[1].do = "stopped" => c[1].i = 0 /\ c[1].toEnd /\ c[1].had
        BY <2>27, <3>1, <4>1
      <4>3. Len(timers) = 1 /\ ~timers[1].complete
        BY <2>24, <2>26, <4>1
      <4> QED BY <2>29, <4>1, <4>2, <4>3 DEF TimersFit, Root
    <3>2. CASE ~Root(b, {"ticked", "stopped"})
      <4>1. Len(timers) = 0 /\ ~Root(c, {"ticked", "stopped"})
        BY <2>16, <2>26, <2>27, <3>2
      <4>2. Len(timers) <= 1 /\ \A i \in 1..Len(timers) : timers[i].complete
        BY <4>1
      <4> QED BY <2>29, <4>1, <4>2 DEF TimersFit, Root
    <3> QED BY <3>1, <3>2
  <2>30. CASE /\ f.do = "delay" /\ delays' = delays \cup {f.id} /\ hooks' = f.id /\ todo' = c
              /\ UNCHANGED <<styleVars, timers, finished>>
    <3>1. EndOrderInv'
      <4>1. (\A i \in 1..Len(finished) : finished[i] <= made /\ Later(finished[i]))'
        BY <2>9, <2>21, <2>22, <2>28, <2>30 DEF Later
      <4>2. (\A i \in 1..Len(timers) : timers[i].id <= made /\ ~timers[i].complete)'
        BY <2>24, <2>25, <2>28, <2>30
      <4>3. (\A i, j \in 1..Len(finished) : i < j => finished[i] < finished[j])'
        BY <2>30 DEF EffectsSound, EndOrderInv
      <4> QED BY <2>9, <2>23, <4>1, <4>2, <4>3 DEF EndOrderInv
    <3>2. EffectTypes'
      <4>1. UNCHANGED <<shown, opacity, fxshow, toggled>> /\ UNCHANGED <<timers, finished>>
        BY <2>30 DEF styleVars
      <4>2. hooks' \in 0..MaxCalls /\ delays' \subseteq 1..MaxCalls /\ todo' \in Seq(Calling)
        BY <2>7, <2>20, <2>24, <2>30, EffectsAssumption
      <4> QED BY <2>9, <2>28, <4>1, <4>2 DEF EffectsSound, EffectTypes
    <3>3. StyleInv'
      BY <2>30, StyleKept DEF EffectsSound
    <3>4. OneRuns'
      BY <2>24, <2>30 DEF OneRuns
    <3>5. Calm(c)'
      BY <2>10, <2>17, <2>30, <3>4 DEF Calm
    <3>6. TimersFit(c)'
      BY <2>29, <2>30
    <3> QED BY <2>7, <2>15, <3>1, <3>2, <3>3, <3>5, <3>6, StackMade DEF EffectsSound
  <2>31. CASE f.do # "delay" /\ hooks' = 0 /\ UNCHANGED delays /\ StartFade(f, c)
    <3>1. f.do \in {"show", "hide", "toggle"}
      BY <2>1, <2>2, <2>31 DEF Effect
    <3>2. \/ /\ todo' = Append(Append(c, DequeueNext), Completion)
             /\ finished' = Append(finished, f.id)
             /\ UNCHANGED <<styleVars, timers>>
          \/ /\ todo' = c /\ UNCHANGED <<fxshow, finished>>
             /\ \E t \in Fades : timers' = Append(timers, t) /\ t.id = f.id /\ t.complete
                   /\ t.orig = Full
                   /\ (fxshow = Unset => IF t.shows THEN t.end = Full ELSE t.start = Full)
             /\ opacity' \in 0..Full /\ shown' \in BOOLEAN /\ shown'
             /\ toggled' \in {None, "show", "hide"}
      BY <2>7, <2>11, <2>20, <2>31, <3>1, FadeStarts
    <3>3. hooks' \in 0..MaxCalls /\ delays' = {} /\ delays' \subseteq 1..MaxCalls
      BY <2>24, <2>31, EffectsAssumption
    <3>4. CASE /\ todo' = Append(Append(c, DequeueNext), Completion)
               /\ finished' = Append(finished, f.id)
               /\ UNCHANGED <<styleVars, timers>>
      <4>1. UNCHANGED <<shown, opacity, fxshow, toggled>> /\ UNCHANGED timers
        BY <3>4 DEF styleVars
      <4>2. PICK l \in Nat : l = Len(finished)
        BY LenProperties DEF EffectsSound, EffectTypes
      <4>3. /\ finished' \in Seq(1..MaxCalls) /\ Len(finished') = l + 1 /\ finished'[l + 1] = f.id
            /\ \A i \in 1..l : finished'[i] = finished[i]
        <5>1. finished \in Seq(1..MaxCalls)
          BY DEF EffectsSound, EffectTypes
        <5> QED BY <2>20, <3>4, <4>2, <5>1, AppendProperties
      <4>4. todo' \in Seq(Calling)
        <5>1. DequeueNext \in Calling /\ Completion \in Calling
          BY DEF Calling
        <5>2. PICK d \in Seq(Calling) : d = Append(c, DequeueNext)
          BY <2>7, <5>1, StackFacts
        <5>3. todo' = Append(d, Completion)
          BY <3>4, <5>2
        <5> QED BY <5>1, <5>2, <5>3, StackFacts
      <4>5. EffectTypes'
        BY <2>9, <2>28, <3>3, <4>1, <4>3, <4>4 DEF EffectsSound, EffectTypes
      <4>6. StyleInv'
        BY <3>4, StyleKept DEF EffectsSound
      <4>7. \A i \in 1..(l + 1) : i \in 1..l \/ i = l + 1
        OBVIOUS
      <4>8. \A i \in 1..(l + 1) : finished'[i] <= k /\ \A j \in 1..Len(s) : s[j].id = 0 \/ finished'[i] < s[j].id
        BY <2>20, <2>21, <2>22, <2>23, <4>2, <4>3, <4>7
      <4>9. \A i, j \in 1..(l + 1) : i < j => finished'[i] < finished'[j]
        <5>1. \A i \in 1..l : finished'[i] = finished[i] /\ finished[i] < finished'[l + 1]
          BY <2>22, <4>2, <4>3
        <5>2. \A i, j \in 1..l : i < j => finished[i] < finished[j]
          BY <4>2 DEF EffectsSound, EndOrderInv
        <5> QED BY <5>1, <5>2, EndsGrow
      <4>10. EndOrderInv'
        <5>1. (\A i \in 1..Len(finished) : finished[i] <= made /\ Later(finished[i]))'
          BY <2>9, <2>28, <4>3, <4>8 DEF Later
        <5>2. (\A i \in 1..Len(timers) : timers[i].id <= made /\ ~timers[i].complete)'
          BY <2>24, <2>25, <2>28, <4>1
        <5>3. (\A i, j \in 1..Len(finished) : i < j => finished[i] < finished[j])'
          BY <4>3, <4>9
        <5> QED BY <2>9, <2>23, <5>1, <5>2, <5>3 DEF EndOrderInv
      <4>11. NoneRuns'
        BY <2>24, <3>3, <4>1 DEF NoneRuns
      <4>12. ScriptDue(c)'
        BY <2>10, <2>17, <3>4, <4>11 DEF ScriptDue, Root
      <4>13. TimersFit(c)'
        BY <2>29, <4>1
      <4> QED BY <2>7, <2>15, <4>5, <4>6, <4>10, <4>12, <4>13, StackMade DEF EffectsSound
    <3>5. ASSUME todo' = c, UNCHANGED <<fxshow, finished>>,
                 NEW t \in Fades, timers' = Append(timers, t), t.id = f.id, t.complete, t.orig = Full,
                 fxshow = Unset => IF t.shows THEN t.end = Full ELSE t.start = Full,
                 opacity' \in 0..Full, shown' \in BOOLEAN, shown', toggled' \in {None, "show", "hide"}
          PROVE  EffectsSound'
      <4>1. /\ timers' \in Seq(Fades) /\ Len(timers') = m + 1 /\ timers'[m + 1] = t
            /\ \A i \in 1..m : timers'[i] = timers[i]
        <5>1. timers \in Seq(Fades)
          BY DEF EffectsSound, EffectTypes
        <5> QED BY <2>26, <3>5, <5>1, AppendProperties
      <4>2. EffectTypes'
        BY <2>7, <2>9, <2>28, <3>3, <3>5, <4>1 DEF EffectsSound, EffectTypes
      <4>3. \A i \in 1..(m + 1) : i \in 1..m \/ i = m + 1
        OBVIOUS
      <4>4. \A i \in 1..(m + 1) : timers'[i].complete => timers'[i] = t
        BY <2>24, <2>26, <4>1, <4>3
      <4>5. EndOrderInv'
        <5>1. (\A i \in 1..Len(finished) : finished[i] <= made /\ Later(finished[i]))'
          BY <2>9, <2>21, <2>22, <2>28, <3>5 DEF Later
        <5>2. (\A i \in 1..Len(timers) : timers[i].id <= made)'
          BY <2>20, <2>25, <2>26, <2>28, <3>5, <4>1, <4>3
        <5>3. (Later(f.id) /\ \A j \in 1..Len(finished) : finished[j] < f.id)'
          BY <2>9, <2>22, <2>23, <3>5 DEF Later
        <5>4. (\A i \in 1..Len(timers) : timers[i].complete =>
                /\ Later(timers[i].id)
                /\ \A j \in 1..Len(finished) : finished[j] < timers[i].id)'
          <6>1. \A i \in 1..(m + 1) : timers'[i].complete => timers'[i].id = f.id
            BY <3>5, <4>4
          <6> QED BY <4>1, <5>3, <6>1 DEF Later, FxQueue
        <5>5. (\A i, j \in 1..Len(finished) : i < j => finished[i] < finished[j])'
          BY <3>5 DEF EffectsSound, EndOrderInv
        <5> QED BY <2>9, <2>23, <5>1, <5>2, <5>4, <5>5 DEF EndOrderInv
      <4>6. StyleInv'
        <5>1. ~(\A i \in 1..(m + 1) : ~timers'[i].complete)
          BY <3>5, <4>1
        <5>2. \A i \in 1..(m + 1) : timers'[i].complete =>
                /\ shown' /\ timers'[i].orig = Full
                /\ fxshow' = Unset => IF timers'[i].shows THEN timers'[i].end = Full ELSE timers'[i].start = Full
          BY <3>5, <4>4
        <5> QED BY <3>5, <4>1, <5>1, <5>2 DEF StyleInv
      <4>7. TimersFit(c)'
        <5>1. CASE Root(b, {"ticked", "stopped"})
          <6>1. c[1] = b[1] /\ Root(c, {"ticked", "stopped"}) /\ m = 1
            BY <2>16, <2>18, <2>27, <5>1
          <6>2. /\ c[1].do = "ticked" => c[1].i = 1 /\ c[1].id = timers[1].id
                /\ c[1].do = "stopped" => c[1].i = 0 /\ c[1].toEnd /\ c[1].had
            BY <2>27, <5>1, <6>1
          <6>3. Len(timers') = 2 /\ timers'[1] = timers[1] /\ ~timers[1].complete /\ timers'[2].complete
            BY <2>24, <2>26, <3>5, <4>1, <6>1
          <6> QED BY <6>1, <6>2, <6>3 DEF TimersFit, Root
        <5>2. CASE ~Root(b, {"ticked", "stopped"})
          <6>1. m = 0 /\ ~Root(c, {"ticked", "stopped"})
            BY <2>16, <2>27, <5>2
          <6>2. Len(timers') = 1 /\ timers'[1].complete
            BY <3>5, <4>1, <6>1
          <6>3. Len(timers') <= 1 /\ \A i \in 1..Len(timers') : timers'[i].complete
            BY <6>2
          <6> QED BY <6>1, <6>3 DEF TimersFit, Root
        <5> QED BY <5>1, <5>2
      <4>8. OneRuns'
        BY <3>3 DEF OneRuns
      <4>9. Calm(c)'
        BY <2>10, <2>17, <3>5, <4>8 DEF Calm
      <4> QED BY <2>7, <2>15, <4>2, <4>5, <4>6, <4>7, <4>9, StackMade DEF EffectsSound
    <3> QED BY <3>2, <3>4, <3>5
  <2> QED BY <2>8, <2>30, <2>31
<1> QED BY <1>6, <1>7

LEMMA EffectsStep == EffectsSound /\ EffectsNext /\ ~misused' => EffectsSound'
<1> SUFFICES ASSUME EffectsSound, EffectsNext, ~misused' PROVE EffectsSound'
  OBVIOUS
<1>1. CASE Enqueue
  BY <1>1, EnqueueSound
<1>2. CASE Stop
  BY <1>2, StopSound
<1>3. CASE MakePromise
  BY <1>3, UnmovedSound DEF MakePromise, ghostVars
<1>4. CASE DeferTimer
  BY <1>4, UnmovedSound DEF DeferTimer, ghostVars
<1>5. CASE RunEffects
  BY <1>5, ScriptReturnsSound, DequeueSound, DequeuedSound, TickTimerSound, TickedSound,
     StopDelaySound, StopTimerSound, StoppedSound, StopEndsSound DEF RunEffects
<1>6. CASE Tick
  BY <1>6, TickSound
<1>7. CASE DelayTimer
  BY <1>7, DelayTimerSound
<1> QED BY <1>1, <1>2, <1>3, <1>4, <1>5, <1>6, <1>7 DEF EffectsNext

\* What a call of stop() at a bad moment did is never undone.
LEMMA MisusedStays == EffectsNext /\ ~misused' => ~misused
<1>1. Enqueue /\ ~misused' => ~misused
  BY DEF Enqueue
<1>2. Stop /\ ~misused' => ~misused
  BY DEF Stop
<1>3. EffectsNext /\ ~Enqueue /\ ~Stop => UNCHANGED misused
  BY DEF EffectsNext, RunEffects, MakePromise, DeferTimer, Tick, DelayTimer, ScriptReturns, Dequeue,
     Dequeued, TickTimer, Ticked, StopDelay, StopTimer, Stopped, StopEnds, ghostVars
<1> QED BY <1>1, <1>2, <1>3

LEMMA EffectsInvariant == EffectsSpec => [](~misused => EffectsSound)
<1>1. EffectsInit => (~misused => EffectsSound)
  BY InitSound
<1>2. (~misused => EffectsSound) /\ [EffectsNext]_effectVars => (~misused => EffectsSound)'
  <2> SUFFICES ASSUME ~misused => EffectsSound, [EffectsNext]_effectVars, ~misused' PROVE EffectsSound'
    OBVIOUS
  <2>1. CASE EffectsNext
    BY <2>1, EffectsStep, MisusedStays
  <2>2. CASE UNCHANGED effectVars
    <3>1. UNCHANGED <<styleVars, queueVars, timers, delays, todo, made, finished>> /\ UNCHANGED misused
      BY <2>2 DEF effectVars, ghostVars
    <3> QED BY <3>1, UnmovedSound
  <2> QED BY <2>1, <2>2
<1> QED BY <1>1, <1>2, PTL DEF EffectsSpec

LEMMA AtMostOne ==
    ASSUME NEW S, NEW x, S \subseteq {x}
    PROVE  Cardinality(S) \in {0, 1} /\ (S = {} => Cardinality(S) = 0)
<1>1. S = {} \/ S = {x}
  OBVIOUS
<1> QED BY <1>1, FS_EmptySet, FS_Singleton

\* Fades and delays of an element run one at a time, behind the sentinel that
\* makes others wait, and end in the order in which they were queued, each
\* once, whatever the functions called at their ends queue, and stopped between
\* the events; not once stop() was called by such a function or at another of the
\* moments that misused tells of.
THEOREM EffectsTakeTurns == EffectsSpec => []OneEffectAtATime
<1>1. (~misused => EffectsSound) => OneEffectAtATime
  <2> SUFFICES ASSUME EffectsSound PROVE OneEffectAtATime
    BY DEF OneEffectAtATime
  <2>1. PICK b \in Seq(Calling) : Base(b) /\ TimersFit(b) /\ (Calm(b) \/ Due(b) \/ ScriptDue(b))
    BY DEF EffectsSound, CallsInv
  <2>2. PICK running : running = {i \in DOMAIN timers : timers[i].complete}
    OBVIOUS
  <2>3. DOMAIN timers = 1..Len(timers) /\ DOMAIN finished = 1..Len(finished) /\ Len(timers) \in Nat
    BY DEF EffectsSound, EffectTypes
  <2>4. PICK x : running \subseteq {x}
    <3>1. CASE Root(b, {"ticked", "stopped"})
      <4>1. Len(timers) \in {1, 2} /\ ~timers[1].complete
        BY <2>1, <3>1 DEF TimersFit
      <4>2. \A i \in 1..Len(timers) : i = 1 \/ i = 2
        <5>1. PICK n \in {1, 2} : n = Len(timers)
          BY <4>1
        <5>2. \A i \in 1..n : i = 1 \/ i = 2
          BY <5>1
        <5> QED BY <5>1, <5>2
      <4> QED BY <2>2, <2>3, <4>1, <4>2
    <3>2. CASE ~Root(b, {"ticked", "stopped"})
      <4>1. Len(timers) <= 1
        BY <2>1, <3>2 DEF TimersFit
      <4>2. \A i \in 1..Len(timers) : i = 1
        BY <2>3, <4>1
      <4> QED BY <2>2, <2>3, <4>2
    <3> QED BY <3>1, <3>2
  <2>5. delays \subseteq {hooks} /\ (delays = {} \/ running = {})
    <3>1. NoneRuns \/ OneRuns
      BY <2>1 DEF Calm, Due, ScriptDue
    <3> QED BY <2>2, <2>3, <3>1 DEF NoneRuns, OneRuns
  <2>6. Cardinality(running) + Cardinality(delays) <= 1
    <3>1. Cardinality(running) \in {0, 1} /\ (running = {} => Cardinality(running) = 0)
      BY <2>4, AtMostOne
    <3>2. Cardinality(delays) \in {0, 1} /\ (delays = {} => Cardinality(delays) = 0)
      BY <2>5, AtMostOne
    <3> QED BY <2>5, <3>1, <3>2
  <2>7. ASSUME running # {} \/ delays # {}
        PROVE  \/ FxQueue # <<>> /\ Head(FxQueue) = InProgress
               \/ \E f \in ToSet(todo) : f.do \in {"stop", "stopTimers"}
    <3>1. ~NoneRuns
      BY <2>2, <2>3, <2>7 DEF NoneRuns
    <3>2. CASE Marked
      <4>1. FxQueue \in Seq(Effect)
        BY QueueTyped DEF EffectsSound
      <4> QED BY <3>2, <4>1 DEF Marked
    <3>3. CASE ~Marked
      <4>1. /\ Root(b, {"stop"}) \/ Root(b, {"stopTimers"})
            /\ todo = b \/ todo = Append(b, DequeueNext)
        BY <2>1, <3>1, <3>3 DEF Calm, Due, ScriptDue
      <4>2. b # <<>> /\ b[1].do \in {"stop", "stopTimers"}
        BY <4>1 DEF Root
      <4>3. 1 \in 1..Len(b)
        BY <4>2, EmptySeq
      <4>4. DequeueNext \in Calling
        BY DEF Calling
      <4>5. PICK d : d = Append(b, DequeueNext)
        OBVIOUS
      <4>6. d \in Seq(Calling) /\ Len(d) = Len(b) + 1 /\ d[1] = b[1]
        <5>1. d \in Seq(Calling) /\ Len(d) = Len(b) + 1 /\ \A i \in 1..Len(b) : d[i] = b[i]
          BY <4>4, <4>5, StackFacts
        <5> QED BY <4>3, <5>1
      <4>7. todo[1] = b[1] /\ 1 \in DOMAIN todo
        <5>1. CASE todo = b
          BY <4>3, <5>1
        <5>2. CASE todo = d
          <6>1. Len(b) \in Nat
            BY LenProperties
          <6>2. 1 \in 1..Len(d)
            BY <4>6, <6>1
          <6> QED BY <4>6, <5>2, <6>2
        <5> QED BY <4>1, <4>5, <5>1, <5>2
      <4>8. todo[1] \in ToSet(todo)
        BY <4>7 DEF ToSet
      <4> QED BY <4>2, <4>7, <4>8
    <3> QED BY <3>2, <3>3
  <2>8. \A i, j \in DOMAIN finished : i < j => finished[i] < finished[j]
    BY <2>3 DEF EffectsSound, EndOrderInv
  <2> QED BY <2>2, <2>6, <2>7, <2>8 DEF OneEffectAtATime
<1> QED BY <1>1, EffectsInvariant, PTL

\* Fades that are stopped half way never cost an element its opacity: what it
\* was is remembered while the element is half faded, and an element that is
\* hidden has it again, with the same exceptions.
THEOREM OpacityRestored == EffectsSpec => []FadesRestore
<1>1. (~misused => EffectsSound) => FadesRestore
  <2> SUFFICES ASSUME EffectsSound, timers = <<>>
               PROVE  /\ fxshow = Unset => opacity = Full
                      /\ ~shown => opacity = Full
                      /\ fxshow \in {Unset, Full}
    BY DEF FadesRestore
  <2>1. fxshow \in {Unset, Full}
    BY DEF EffectsSound, EffectTypes
  <2>2. \A i \in 1..Len(timers) : ~timers[i].complete
    OBVIOUS
  <2>3. (fxshow = Unset => opacity = Full) /\ (fxshow = Full => shown)
    BY <2>2 DEF EffectsSound, StyleInv
  <2> QED BY <2>1, <2>3
<1> QED BY <1>1, EffectsInvariant, PTL
=============================================================================
