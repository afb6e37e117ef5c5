---------------------------- MODULE ScriptProofs ----------------------------
(***************************************************************************)
(* The theorems about requests, conversion and events of jquery-1.7.2.js,  *)
(* for any number of requests, converters, data types and handlers.  A     *)
(* section for each part has its invariant, the lemmas, and its theorems.  *)
(***************************************************************************)
EXTENDS Ajax, Conversion, Events, CallbacksProofs

(***************************************************************************)
(* Requests.  A request that was not aborted in a function for ajaxSend    *)
(* goes through its points in one order: at most one function of its       *)
(* beginning and one of its end are on the stack, and what was logged of   *)
(* it tells which one of its end that can be.                              *)
(***************************************************************************)
BeginPoints == {"ajaxStart", "beforeSend", "ajaxSend", Silent}
Frame == [req : Req, at : BeginPoints \cup EndPoints \cup {"ajaxStop"}]
Outcome == {"success", "error", "abort", "timeout"}

RequestTypes ==
    /\ setting \in [Req -> Settings]
    /\ state \in [Req -> {"unused", "0", "1", "2"}]
    /\ transport \in [Req -> BOOLEAN] /\ timer \in [Req -> BOOLEAN]
    /\ settled \in [Req -> Outcome \cup {"pending"}]
    /\ completed \in [Req -> BOOLEAN]

StackTypes ==
    /\ stack \in Seq(Frame)
    /\ log \in [Req -> Seq(EndPoints)]
    /\ pages \in Seq({"ajaxStart", "ajaxStop"})

LinkTypes == link \in [Req -> {"none", "listening", "closed"}]

AjaxTypes ==
    /\ RequestTypes /\ StackTypes /\ LinkTypes
    /\ active \in Int /\ threw \in BOOLEAN /\ abortedInSend \subseteq Req

\* What may have been called at the end of a request, by its setting.
Ends(global) ==
    IF global THEN {<<"callbacks">>, <<"callbacks", "ended">>,
                    <<"callbacks", "ended", "complete">>,
                    <<"callbacks", "ended", "complete", "ajaxComplete">>}
    ELSE {<<"callbacks">>, <<"callbacks", "complete">>}

\* The variables that are about one request.
RequestInv(r) ==
    /\ state[r] = "unused" => ~transport[r] /\ link[r] = "none"
    /\ state[r] = "1" => transport[r]
    /\ state[r] # "2" => settled[r] = "pending" /\ log[r] = <<>> /\ ~completed[r]
    /\ state[r] # "1" => ~timer[r]
    /\ state[r] = "2" => /\ ~transport[r] /\ settled[r] # "pending"
                         /\ log[r] \in Ends(setting[r].global)
    /\ completed[r] <=> log[r] # <<>> /\ log[r][Len(log[r])] \in {"complete", "ajaxComplete"}

\* A function on the stack.
FrameInv(f) ==
    LET r == f.req
    IN  /\ state[r] # "unused"
        /\ f.at = "ajaxStart" => state[r] = "0" /\ ~transport[r]
        /\ f.at = "beforeSend" => (state[r] = "0" /\ ~transport[r]) \/ state[r] = "2"
        /\ f.at \in {"ajaxSend", Silent} => state[r] = "0" /\ transport[r]
        /\ f.at \in EndPoints => state[r] = "2" /\ log[r][Len(log[r])] = f.at

\* Two functions of one request.
Apart(f, g) ==
    /\ ~(f.at \in BeginPoints /\ g.at \in BeginPoints)
    /\ ~(f.at \in EndPoints /\ g.at \in EndPoints)

StackInv ==
    /\ \A i \in DOMAIN stack : stack[i].req \notin abortedInSend => FrameInv(stack[i])
    /\ \A i, j \in DOMAIN stack :
          i # j /\ stack[i].req = stack[j].req /\ stack[i].req \notin abortedInSend
            => Apart(stack[i], stack[j])

AjaxInv ==
    /\ StackInv
    /\ \A r \in Req \ abortedInSend : RequestInv(r)
    /\ \A r \in abortedInSend : state[r] # "unused"

-----------------------------------------------------------------------------
(* Types. *)

LEMMA PrefixFacts ==
    ASSUME NEW S, NEW s \in Seq(S), NEW n \in Nat, n <= Len(s)
    PROVE  /\ SubSeq(s, 1, n) \in Seq(S) /\ Len(SubSeq(s, 1, n)) = n
           /\ \A i \in 1..n : SubSeq(s, 1, n)[i] = s[i]
OBVIOUS

LEMMA FrontFacts ==
    ASSUME NEW S, NEW s \in Seq(S), s # <<>>
    PROVE  /\ Front(s) \in Seq(S) /\ Len(Front(s)) = Len(s) - 1 /\ Len(s) \in Nat \ {0}
           /\ \A i \in 1..(Len(s) - 1) : Front(s)[i] = s[i]
           /\ Last(s) = s[Len(s)] /\ Last(s) \in S
<1>1. Len(s) \in Nat \ {0}
  BY EmptySeq, LenProperties
<1>2. Len(s) - 1 \in Nat /\ Len(s) - 1 <= Len(s)
  BY <1>1
<1>3. /\ Front(s) \in Seq(S) /\ Len(Front(s)) = Len(s) - 1
      /\ \A i \in 1..(Len(s) - 1) : Front(s)[i] = s[i]
  BY <1>2, PrefixFacts, Zenon DEF Front
<1>4. Last(s) = s[Len(s)] /\ Last(s) \in S
  BY <1>1, ElementOfSeq DEF Last
<1> QED BY <1>1, <1>3, <1>4

LEMMA PopFacts ==
    ASSUME stack \in Seq(Frame), stack # <<>>
    PROVE  /\ Below \in Seq(Frame) /\ Len(Below) = Len(stack) - 1 /\ Len(stack) \in Nat \ {0}
           /\ \A i \in 1..(Len(stack) - 1) : Below[i] = stack[i]
           /\ Top = stack[Len(stack)] /\ Top \in Frame /\ Top.req \in Req
<1>1. Top \in Frame
  BY FrontFacts DEF Top
<1> QED BY <1>1, FrontFacts DEF Below, Top, Frame

LEMMA EnterTypes ==
    ASSUME StackTypes, NEW below \in Seq(Frame), NEW r \in Req,
           NEW at \in BeginPoints \cup EndPoints \cup {"ajaxStop"}, Enter(below, r, at)
    PROVE  StackTypes'
<1>1. stack' \in Seq(Frame)
  BY AppendProperties DEF Enter, Frame
<1>2. log' \in [Req -> Seq(EndPoints)]
  BY AppendProperties DEF Enter, StackTypes
<1>3. pages' \in Seq({"ajaxStart", "ajaxStop"})
  BY AppendProperties DEF Enter, StackTypes
<1> QED BY <1>1, <1>2, <1>3 DEF StackTypes

LEMMA FinishTypes ==
    ASSUME RequestTypes, StackTypes, NEW below \in Seq(Frame), NEW r \in Req,
           NEW result \in Outcome, Done(below, r, result) \/ Finish(below, r, result)
    PROVE  RequestTypes' /\ StackTypes' /\ active' = active
<1>1. Leave(below) => StackTypes'
  BY DEF Leave, StackTypes
<1>2. \A at \in EndPoints : Enter(below, r, at) => StackTypes'
  BY EnterTypes
<1>3. Finish(below, r, result) => RequestTypes' /\ StackTypes' /\ active' = active
  BY <1>1, <1>2 DEF Finish, RequestTypes, EndPoints
<1>4. Done(below, r, result) => RequestTypes' /\ StackTypes' /\ active' = active
  BY <1>1, <1>3 DEF Done, RequestTypes
<1> QED BY <1>3, <1>4

LEMMA ReturnTypes == AjaxTypes /\ AjaxReturn => AjaxTypes'
<1> SUFFICES ASSUME AjaxTypes, AjaxReturn PROVE AjaxTypes'
  OBVIOUS
<1> DEFINE r == Top.req
<1>1. stack # <<>> /\ UNCHANGED <<threw, abortedInSend>>
  BY DEF AjaxReturn, AfterStart, Veto, AfterBeforeSend, Send, SendAndWait, SendThrows,
         AfterCallbacks, AfterEnded, AfterComplete, AfterAjaxComplete, AfterStop,
         Returns, ReturnsToSend
<1>2. Below \in Seq(Frame) /\ r \in Req
  BY <1>1, PopFacts DEF AjaxTypes, StackTypes
<1>3. Leave(Below) => StackTypes'
  BY <1>2 DEF Leave, StackTypes, AjaxTypes
<1>4. \A at \in BeginPoints \cup EndPoints \cup {"ajaxStop"} : Enter(Below, r, at) => StackTypes'
  BY <1>2, EnterTypes DEF AjaxTypes
<1>5. \A result \in Outcome : Done(Below, r, result) \/ Finish(Below, r, result)
                                 => RequestTypes' /\ StackTypes' /\ active' = active
  BY <1>2, FinishTypes DEF AjaxTypes
<1> HIDE DEF r
<1> USE <1>1, <1>2 DEF AjaxTypes, requestVars
<1>6. CASE AfterStart
  BY <1>4, <1>6 DEF AfterStart, r, BeginPoints, RequestTypes, LinkTypes
<1>7. CASE Veto
  BY <1>5, <1>7 DEF Veto, AbortRequest, r, Outcome, LinkTypes
<1>8. CASE AfterBeforeSend
  <2>1. CASE setting[r].via = "none"
    BY <1>5, <1>8, <2>1 DEF AfterBeforeSend, r, Outcome, LinkTypes
  <2>2. CASE setting[r].via # "none"
    <3>1. StackTypes'
      BY <1>4, <1>8, <2>2 DEF AfterBeforeSend, r, BeginPoints
    <3> QED BY <1>8, <2>2, <3>1 DEF AfterBeforeSend, r, RequestTypes, LinkTypes
  <2> QED BY <2>1, <2>2
<1>9. CASE Send
  <2>1. setting[r].timed \in BOOLEAN
    BY DEF RequestTypes, Settings
  <2>2. StackTypes'
    BY <1>3, <1>9 DEF Send
  <2> QED BY <1>9, <2>1, <2>2 DEF Send, r, RequestTypes, LinkTypes
<1>10. CASE SendAndWait
  BY <1>5, <1>10 DEF SendAndWait, r, Outcome, LinkTypes
<1>11. CASE SendThrows
  BY <1>5, <1>11 DEF SendThrows, r, Outcome, LinkTypes
<1>12. CASE AfterCallbacks \/ AfterEnded
  <2>1. StackTypes'
    BY <1>4, <1>12 DEF AfterCallbacks, AfterEnded, r, EndPoints
  <2> QED BY <1>12, <2>1 DEF AfterCallbacks, AfterEnded, r, RequestTypes, LinkTypes
<1>13. CASE AfterComplete
  BY <1>3, <1>4, <1>13 DEF AfterComplete, r, EndPoints, RequestTypes, LinkTypes
<1>14. CASE AfterAjaxComplete
  BY <1>3, <1>4, <1>14 DEF AfterAjaxComplete, r, RequestTypes, LinkTypes
<1>15. CASE AfterStop
  BY <1>3, <1>15 DEF AfterStop, RequestTypes, LinkTypes
<1> QED BY <1>6, <1>7, <1>8, <1>9, <1>10, <1>11, <1>12, <1>13, <1>14, <1>15 DEF AjaxReturn

LEMMA AjaxTypesNext == AjaxTypes /\ [AjaxNext]_ajaxVars => AjaxTypes'
<1> SUFFICES ASSUME AjaxTypes, [AjaxNext]_ajaxVars PROVE AjaxTypes'
  OBVIOUS
<1>0. stack \in Seq(Frame) /\ <<>> \in Seq(Frame)
  BY DEF AjaxTypes, StackTypes
<1>1. ASSUME NEW r \in Req, Request(r) PROVE AjaxTypes'
  <2>1. StackTypes'
    BY <1>0, <1>1, EnterTypes DEF Request, AjaxTypes, BeginPoints
  <2> QED BY <1>1, <2>1 DEF Request, AjaxTypes, RequestTypes, LinkTypes
<1>2. ASSUME NEW r \in Req, NEW result \in Outcome, Done(stack, r, result)
      PROVE  RequestTypes' /\ StackTypes' /\ active' = active
  BY <1>0, <1>2, FinishTypes DEF AjaxTypes
<1>3. ASSUME NEW r \in Req, Abort(r) \/ Answer(r) \/ Timeout(r) PROVE AjaxTypes'
  <2>1. RequestTypes' /\ StackTypes' /\ active' = active
    BY <1>2, <1>3 DEF Abort, Answer, Timeout, AbortRequest, Outcome
  <2> QED BY <1>3, <2>1 DEF Abort, Answer, Timeout, AbortRequest, AjaxTypes, LinkTypes
<1>4. CASE AjaxThrow
  BY <1>0, <1>4 DEF AjaxThrow, requestVars, AjaxTypes, RequestTypes, StackTypes, LinkTypes
<1>5. CASE UNCHANGED ajaxVars
  BY <1>5 DEF ajaxVars, requestVars, AjaxTypes, RequestTypes, StackTypes, LinkTypes
<1> QED BY <1>1, <1>3, <1>4, <1>5, ReturnTypes DEF AjaxNext

-----------------------------------------------------------------------------
(* One result. *)

\* What is left of the stack when functions return.
IsBelow(below) ==
    /\ below \in Seq(Frame) /\ Len(below) <= Len(stack)
    /\ \A i \in 1..Len(below) : below[i] = stack[i]

\* A step is about one request.
Others(r) ==
    \A q \in Req \ {r} :
        /\ setting'[q] = setting[q] /\ state'[q] = state[q] /\ transport'[q] = transport[q]
        /\ link'[q] = link[q] /\ timer'[q] = timer[q] /\ settled'[q] = settled[q]
        /\ completed'[q] = completed[q] /\ log'[q] = log[q]

LEMMA StepKeepsInv ==
    ASSUME AjaxTypes, AjaxTypes', AjaxInv,
           NEW r \in Req, NEW f \in Frame, f.req = r, NEW below, IsBelow(below), Others(r),
           abortedInSend \subseteq abortedInSend', abortedInSend' \subseteq abortedInSend \cup {r},
           state'[r] # "unused",
           r \notin abortedInSend' => RequestInv(r)',
           \A i \in 1..Len(below) : below[i].req = r /\ r \notin abortedInSend'
                => FrameInv(below[i])',
           stack' = below \/ /\ stack' = Append(below, f)
                             /\ r \notin abortedInSend' =>
                                  /\ FrameInv(f)'
                                  /\ \A i \in 1..Len(below) :
                                        below[i].req = r => Apart(below[i], f)
    PROVE  AjaxInv'
<1>1. \A q \in abortedInSend' : state'[q] # "unused"
  <2> TAKE q \in abortedInSend'
  <2>1. CASE q = r
    BY <2>1
  <2>2. CASE q # r
    BY <2>2 DEF AjaxInv, Others, AjaxTypes
  <2> QED BY <2>1, <2>2
<1>2. \A q \in Req \ abortedInSend' : RequestInv(q)'
  <2> TAKE q \in Req \ abortedInSend'
  <2>1. CASE q # r
    <3>1. RequestInv(q)
      BY DEF AjaxInv
    <3> QED BY <2>1, <3>1 DEF RequestInv, Others
  <2> QED BY <2>1
<1>3. \A g \in Frame : g.req # r /\ FrameInv(g) => FrameInv(g)'
  BY DEF FrameInv, Others, Frame
<1>4. \A i \in 1..Len(below) :
          /\ i \in DOMAIN stack /\ below[i] = stack[i] /\ below[i] \in Frame
          /\ below[i].req \notin abortedInSend' => FrameInv(below[i])'
  <2> TAKE i \in 1..Len(below)
  <2>1. i \in DOMAIN stack /\ below[i] = stack[i] /\ below[i] \in Frame
    BY ElementOfSeq DEF IsBelow, AjaxTypes, StackTypes
  <2>2. CASE below[i].req # r
    BY <1>3, <2>1, <2>2 DEF AjaxInv, StackInv
  <2> QED BY <2>1, <2>2
<1>5. \A i, j \in 1..Len(below) :
          i # j /\ below[i].req = below[j].req /\ below[i].req \notin abortedInSend'
            => Apart(below[i], below[j])
  BY <1>4 DEF AjaxInv, StackInv
<1>6. DOMAIN below = 1..Len(below) /\ Len(below) \in Nat
  BY LenProperties DEF IsBelow
<1>7. CASE stack' = below
  BY <1>1, <1>2, <1>4, <1>5, <1>6, <1>7 DEF AjaxInv, StackInv
<1>8. CASE /\ stack' = Append(below, f)
           /\ r \notin abortedInSend' =>
                /\ FrameInv(f)'
                /\ \A i \in 1..Len(below) : below[i].req = r => Apart(below[i], f)
  <2>1. /\ DOMAIN stack' = 1..(Len(below) + 1)
        /\ \A i \in 1..Len(below) : stack'[i] = below[i]
        /\ stack'[Len(below) + 1] = f
    BY <1>8, AppendProperties, LenProperties DEF IsBelow
  <2>2. \A i \in DOMAIN stack' : i \in 1..Len(below) \/ i = Len(below) + 1
    BY <1>6, <2>1
  <2>3. (\A i \in DOMAIN stack : stack[i].req \notin abortedInSend => FrameInv(stack[i]))'
    BY <1>4, <1>8, <2>1, <2>2 DEF FrameInv
  <2>4. ASSUME NEW i \in DOMAIN stack', NEW j \in DOMAIN stack', i # j,
               stack'[i].req = stack'[j].req, stack'[i].req \notin abortedInSend'
        PROVE  Apart(stack'[i], stack'[j])
    <3>1. CASE i \in 1..Len(below) /\ j \in 1..Len(below)
      BY <1>5, <2>1, <2>4, <3>1
    <3>2. CASE i \in 1..Len(below) /\ j = Len(below) + 1
      BY <1>8, <2>1, <2>4, <3>2
    <3>3. CASE i = Len(below) + 1 /\ j \in 1..Len(below)
      BY <1>8, <2>1, <2>4, <3>3 DEF Apart
    <3> QED BY <2>2, <2>4, <3>1, <3>2, <3>3
  <2>5. StackInv'
    BY <2>3, <2>4 DEF StackInv, Apart
  <2> QED BY <1>1, <1>2, <2>5 DEF AjaxInv
<1> QED BY <1>7, <1>8

\* The first time done() runs for a request, and any later time.
LEMMA DoneKeepsInv ==
    ASSUME AjaxTypes, AjaxTypes', AjaxInv,
           NEW r \in Req, NEW below, IsBelow(below), NEW result \in Outcome,
           \A q \in Req \ {r} : link'[q] = link[q],
           abortedInSend \subseteq abortedInSend', abortedInSend' \subseteq abortedInSend \cup {r},
           state[r] # "unused",
           \/ Done(below, r, result)
           \/ Finish(below, r, result) /\ (r \notin abortedInSend' => state[r] # "2"),
           \A i \in 1..Len(below) :
                below[i].req = r /\ r \notin abortedInSend' /\ state[r] # "2"
                    => below[i].at \in {"beforeSend", "ajaxStop"}
    PROVE  AjaxInv'
<1>0. /\ r \notin abortedInSend' => RequestInv(r)
      /\ \A i \in 1..Len(below) : below[i].req = r /\ r \notin abortedInSend' => FrameInv(below[i])
  <2>1. \A i \in 1..Len(below) : i \in DOMAIN stack /\ below[i] = stack[i]
    BY LenProperties DEF IsBelow, AjaxTypes, StackTypes
  <2> QED BY <2>1 DEF AjaxInv, StackInv
<1>1. PICK f \in Frame : f.req = r
  <2>1. [req |-> r, at |-> "ajaxStop"] \in Frame
    BY DEF Frame
  <2> QED BY <2>1
<1>2. CASE state[r] = "2" /\ Done(below, r, result)
  <2>1. stack' = below /\ UNCHANGED <<setting, state, timer, transport, settled, completed, log>>
    BY <1>2 DEF Done, Leave
  <2>2. Others(r)
    BY <2>1 DEF Others
  <2>3. r \notin abortedInSend' => RequestInv(r)'
    BY <1>0, <1>2, <2>1 DEF RequestInv
  <2>4. \A i \in 1..Len(below) : below[i].req = r /\ r \notin abortedInSend' => FrameInv(below[i])'
    BY <1>0, <2>1 DEF FrameInv
  <2> QED BY <1>1, <1>2, <2>1, <2>2, <2>3, <2>4, StepKeepsInv
<1>3. CASE Finish(below, r, result) /\ (r \notin abortedInSend' => state[r] # "2")
  <2>1. /\ setting' = setting /\ completed' = completed
        /\ state' = [state EXCEPT ![r] = "2"] /\ timer' = [timer EXCEPT ![r] = FALSE]
        /\ transport' = [transport EXCEPT ![r] = FALSE]
        /\ settled' = IF settled[r] = "pending" THEN [settled EXCEPT ![r] = result] ELSE settled
        /\ log' = log \/ \E at \in EndPoints : log' = [log EXCEPT ![r] = Append(@, at)]
    BY <1>3 DEF Finish, Enter, Leave, EndPoints
  <2>2. Others(r)
    BY <2>1 DEF Others, AjaxTypes, RequestTypes, StackTypes
  <2>3. state'[r] = "2" /\ ~timer'[r] /\ ~transport'[r]
    BY <2>1 DEF AjaxTypes, RequestTypes
  <2> DEFINE g == [req |-> r, at |-> "callbacks"]
  <2>4. CASE r \in abortedInSend'
    <3>1. \/ stack' = below
          \/ \E at \in {"callbacks", "ended"} : stack' = Append(below, [req |-> r, at |-> at])
      BY <1>3 DEF Finish, Enter, Leave
    <3>2. \A at \in {"callbacks", "ended"} : [req |-> r, at |-> at] \in Frame
      BY DEF Frame, EndPoints
    <3>3. CASE stack' = below
      BY <1>1, <2>2, <2>3, <2>4, <3>3, StepKeepsInv
    <3>4. ASSUME NEW at \in {"callbacks", "ended"}, stack' = Append(below, [req |-> r, at |-> at])
          PROVE  AjaxInv'
      <4> DEFINE h == [req |-> r, at |-> at]
      <4>1. h \in Frame /\ h.req = r /\ stack' = Append(below, h)
        BY <3>2, <3>4
      <4> HIDE DEF h
      <4> QED BY <2>2, <2>3, <2>4, <4>1, StepKeepsInv
    <3> QED BY <3>1, <3>3, <3>4
  <2>5. CASE r \notin abortedInSend'
    <3>1. state[r] # "2" /\ settled[r] = "pending" /\ log[r] = <<>> /\ ~completed[r]
      BY <1>0, <1>3, <2>5 DEF RequestInv
    <3>2. /\ stack' = Append(below, g) /\ settled'[r] = result
          /\ log'[r] = <<"callbacks">> /\ ~completed'[r]
      BY <1>3, <3>1 DEF Finish, Enter, EndPoints, AjaxTypes, RequestTypes, StackTypes
    <3>3. RequestInv(r)'
      BY <2>3, <3>2 DEF RequestInv, Ends, Outcome
    <3>4. \A i \in 1..Len(below) : below[i].req = r => FrameInv(below[i])'
      BY <2>3, <2>5, <3>1 DEF FrameInv, EndPoints, Silent
    <3>5. g \in Frame /\ g.req = r /\ FrameInv(g)'
      BY <2>3, <3>2 DEF FrameInv, Frame, EndPoints, Silent
    <3>6. \A i \in 1..Len(below) : below[i].req = r => Apart(below[i], g)
      BY <2>5, <3>1 DEF Apart, BeginPoints, EndPoints, Silent
    <3> HIDE DEF g
    <3> QED BY <2>2, <2>3, <3>2, <3>3, <3>4, <3>5, <3>6, StepKeepsInv
  <2> QED BY <2>4, <2>5
<1>4. Done(below, r, result) /\ state[r] # "2" => Finish(below, r, result)
  BY DEF Done
<1> QED BY <1>2, <1>3, <1>4

\* One element more.
LEMMA ExtendedSeq ==
    ASSUME NEW S, NEW s \in Seq(S), NEW t \in Seq(S), Len(t) = Len(s) + 1,
           \A i \in 1..Len(s) : t[i] = s[i]
    PROVE  Append(s, t[Len(t)]) = t
<1>1. PICK n \in Nat : n = Len(s)
  BY LenProperties
<1>2. PICK d \in S : d = t[n + 1]
  <2>1. n + 1 \in 1..Len(t)
    BY <1>1
  <2> QED BY <2>1, ElementOfSeq
<1>3. /\ Append(s, d) \in Seq(S) /\ Len(Append(s, d)) = n + 1 /\ Append(s, d)[n + 1] = d
      /\ \A i \in 1..n : Append(s, d)[i] = s[i]
  BY <1>1, AppendProperties
<1>4. \A i \in 1..(n + 1) : Append(s, d)[i] = t[i]
  <2> TAKE i \in 1..(n + 1)
  <2>1. i \in 1..n \/ i = n + 1
    BY <1>1
  <2> QED BY <1>1, <1>2, <1>3, <2>1
<1>5. Append(s, d) = t
  BY <1>1, <1>3, <1>4, SeqEqual
<1> QED BY <1>1, <1>2, <1>5

\* What comes next at the end of a request.
LEMMA EndsFacts ==
    ASSUME NEW global \in BOOLEAN, NEW l \in Ends(global)
    PROVE  /\ l[Len(l)] = "callbacks" =>
                IF global THEN Append(l, "ended") \in Ends(global)
                ELSE Append(l, "complete") \in Ends(global)
           /\ l[Len(l)] = "ended" => global /\ Append(l, "complete") \in Ends(global)
           /\ l[Len(l)] = "complete" =>
                IF global THEN Append(l, "ajaxComplete") \in Ends(global)
                ELSE l = <<"callbacks", "complete">>
           /\ l[Len(l)] = "ajaxComplete" =>
                global /\ l = <<"callbacks", "ended", "complete", "ajaxComplete">>
           /\ l \in Seq(EndPoints) /\ l # <<>>
           /\ IF global THEN IsPrefix(l, <<"callbacks", "ended", "complete", "ajaxComplete">>)
              ELSE IsPrefix(l, <<"callbacks", "complete">>)
<1> DEFINE c1 == <<"callbacks">>
           c2 == <<"callbacks", "ended">>
           c3 == <<"callbacks", "ended", "complete">>
           c4 == <<"callbacks", "ended", "complete", "ajaxComplete">>
           d2 == <<"callbacks", "complete">>
<1>2. /\ c1[Len(c1)] = "callbacks" /\ c2[Len(c2)] = "ended" /\ c3[Len(c3)] = "complete"
      /\ c4[Len(c4)] = "ajaxComplete" /\ d2[Len(d2)] = "complete"
  OBVIOUS
<1>3. /\ IsPrefix(c1, c4) /\ IsPrefix(c2, c4) /\ IsPrefix(c3, c4) /\ IsPrefix(c4, c4)
      /\ IsPrefix(c1, d2) /\ IsPrefix(d2, d2)
  <2>1. IsPrefix(c1, c4)
    BY DEF IsPrefix
  <2>2. IsPrefix(c2, c4)
    BY DEF IsPrefix
  <2>3. IsPrefix(c3, c4)
    BY DEF IsPrefix
  <2>4. IsPrefix(c4, c4)
    BY DEF IsPrefix
  <2>5. IsPrefix(c1, d2)
    BY DEF IsPrefix
  <2>6. IsPrefix(d2, d2)
    BY DEF IsPrefix
  <2> QED BY <2>1, <2>2, <2>3, <2>4, <2>5, <2>6
<1>4. {c1, c2, c3, c4, d2} \subseteq Seq(EndPoints)
  BY DEF EndPoints
<1>5. c1 # <<>> /\ c2 # <<>> /\ c3 # <<>> /\ c4 # <<>> /\ d2 # <<>>
  OBVIOUS
<1>6. Ends(global) = IF global THEN {c1, c2, c3, c4} ELSE {c1, d2}
  BY DEF Ends
<1>1. /\ Append(c1, "ended") = c2 /\ Append(c2, "complete") = c3
      /\ Append(c3, "ajaxComplete") = c4 /\ Append(c1, "complete") = d2
  <2>1. /\ Len(c2) = Len(c1) + 1 /\ \A i \in 1..Len(c1) : c2[i] = c1[i]
        /\ Len(c3) = Len(c2) + 1 /\ \A i \in 1..Len(c2) : c3[i] = c2[i]
    OBVIOUS
  <2>2. Len(c4) = Len(c3) + 1 /\ \A i \in 1..Len(c3) : c4[i] = c3[i]
    OBVIOUS
  <2>3. Len(d2) = Len(c1) + 1 /\ \A i \in 1..Len(c1) : d2[i] = c1[i]
    OBVIOUS
  <2> HIDE DEF c1, c2, c3, c4, d2
  <2>4. Append(c1, c2[Len(c2)]) = c2 /\ Append(c1, d2[Len(d2)]) = d2
    BY <1>4, <2>1, <2>3, ExtendedSeq
  <2>5. Append(c2, c3[Len(c3)]) = c3 /\ Append(c3, c4[Len(c4)]) = c4
    BY <1>4, <2>1, <2>2, ExtendedSeq
  <2> QED BY <1>2, <2>4, <2>5
<1> HIDE DEF c1, c2, c3, c4, d2
<1>7. CASE global
  <2>1. l \in {c1, c2, c3, c4}
    BY <1>6, <1>7
  <2>2. /\ l[Len(l)] = "callbacks" => l = c1
        /\ l[Len(l)] = "ended" => l = c2
        /\ l[Len(l)] = "complete" => l = c3
        /\ l[Len(l)] = "ajaxComplete" => l = c4
    BY <1>2, <2>1
  <2> QED BY <1>1, <1>3, <1>4, <1>5, <1>6, <1>7, <2>1, <2>2 DEF c4, d2
<1>8. CASE ~global
  <2>1. l \in {c1, d2}
    BY <1>6, <1>8
  <2>2. /\ l[Len(l)] = "callbacks" => l = c1
        /\ l[Len(l)] = "complete" => l = d2
        /\ l[Len(l)] \notin {"ended", "ajaxComplete"}
    BY <1>2, <2>1
  <2> QED BY <1>1, <1>3, <1>4, <1>5, <1>6, <1>8, <2>1, <2>2 DEF c4, d2
<1> QED BY <1>7, <1>8

\* What the invariant says of the function that returns and of its request.
LEMMA ReturnFacts ==
    ASSUME AjaxTypes, AjaxInv, stack # <<>>
    PROVE  /\ IsBelow(Below) /\ Top.req \in Req /\ Top \in Frame
           /\ state[Top.req] # "unused"
           /\ Top.req \notin abortedInSend => RequestInv(Top.req) /\ FrameInv(Top)
           /\ \A i \in 1..Len(Below) :
                 Below[i].req = Top.req /\ Top.req \notin abortedInSend
                    => FrameInv(Below[i]) /\ Apart(Below[i], Top)
<1>1. /\ Below \in Seq(Frame) /\ Len(Below) = Len(stack) - 1 /\ Len(stack) \in Nat \ {0}
      /\ \A i \in 1..(Len(stack) - 1) : Below[i] = stack[i]
      /\ Top = stack[Len(stack)] /\ Top \in Frame /\ Top.req \in Req
  BY PopFacts DEF AjaxTypes, StackTypes
<1>2. DOMAIN stack = 1..Len(stack)
  BY LenProperties DEF AjaxTypes, StackTypes
<1>3. IsBelow(Below)
  BY <1>1 DEF IsBelow
<1>4. Len(stack) \in DOMAIN stack
  BY <1>1, <1>2
<1>5. Top.req \notin abortedInSend => RequestInv(Top.req) /\ FrameInv(Top)
  BY <1>1, <1>4 DEF AjaxInv, StackInv
<1>6. state[Top.req] # "unused"
  BY <1>5 DEF AjaxInv, FrameInv
<1>7. ASSUME NEW i \in 1..Len(Below), Below[i].req = Top.req, Top.req \notin abortedInSend
      PROVE  FrameInv(Below[i]) /\ Apart(Below[i], Top)
  <2>1. i \in DOMAIN stack /\ i # Len(stack) /\ Below[i] = stack[i]
    BY <1>1, <1>2
  <2> QED BY <1>1, <1>4, <1>7, <2>1 DEF AjaxInv, StackInv
<1> QED BY <1>1, <1>3, <1>5, <1>6, <1>7

LEMMA AjaxInvReturn ==
    ASSUME AjaxTypes, AjaxTypes', AjaxInv, AjaxReturn PROVE AjaxInv'
<1>0. stack # <<>> /\ UNCHANGED <<threw, abortedInSend>>
  BY DEF AjaxReturn, AfterStart, Veto, AfterBeforeSend, Send, SendAndWait, SendThrows,
         AfterCallbacks, AfterEnded, AfterComplete, AfterAjaxComplete, AfterStop,
         Returns, ReturnsToSend
<1>1. PICK r \in Req, at \in BeginPoints \cup EndPoints \cup {"ajaxStop"}, below \in {Below} :
          r = Top.req /\ at = Top.at
  BY <1>0, ReturnFacts DEF Frame
<1>2. /\ IsBelow(below) /\ state[r] # "unused"
      /\ r \notin abortedInSend => RequestInv(r) /\ FrameInv(Top)
      /\ \A i \in 1..Len(below) :
            below[i].req = r /\ r \notin abortedInSend
               => FrameInv(below[i]) /\ Apart(below[i], Top)
  BY <1>0, <1>1, ReturnFacts
<1>3. /\ r \notin abortedInSend =>
            /\ at = "ajaxStart" => state[r] = "0" /\ ~transport[r]
            /\ at = "beforeSend" => (state[r] = "0" /\ ~transport[r]) \/ state[r] = "2"
            /\ at \in {"ajaxSend", Silent} => state[r] = "0" /\ transport[r]
            /\ at \in EndPoints => state[r] = "2" /\ log[r][Len(log[r])] = at
      /\ \A i \in 1..Len(below) :
            below[i].req = r /\ r \notin abortedInSend
               => /\ ~(below[i].at \in BeginPoints /\ at \in BeginPoints)
                  /\ ~(below[i].at \in EndPoints /\ at \in EndPoints)
  BY <1>1, <1>2 DEF FrameInv, Apart
<1>4. \A i \in 1..Len(below) : below[i] \in Frame
  BY <1>2, ElementOfSeq DEF IsBelow
<1>5. CASE AfterStart
  <2> DEFINE f == [req |-> r, at |-> "beforeSend"]
  <2>1. stack' = Append(below, f) /\ at = "ajaxStart"
        /\ UNCHANGED <<setting, state, transport, link, timer, settled, completed, log>>
    BY <1>1, <1>5 DEF AfterStart, Enter, Returns, requestVars, EndPoints
  <2>2. f \in Frame /\ f.req = r /\ Others(r)
    BY <2>1 DEF Frame, Others, BeginPoints
  <2>3. r \notin abortedInSend' => RequestInv(r)' /\ FrameInv(f)'
    BY <1>0, <1>2, <1>3, <2>1 DEF RequestInv, FrameInv, EndPoints, Silent
  <2>4. \A i \in 1..Len(below) :
            below[i].req = r /\ r \notin abortedInSend' => FrameInv(below[i])' /\ Apart(below[i], f)
    BY <1>0, <1>2, <1>3, <2>1 DEF FrameInv, Apart, BeginPoints, EndPoints, Silent
  <2>5. state'[r] # "unused"
    BY <1>2, <2>1
  <2> HIDE DEF f
  <2> QED BY <1>0, <1>2, <2>1, <2>2, <2>3, <2>4, <2>5, StepKeepsInv
<1>6. CASE Veto
  <2>1. at = "beforeSend" /\ Done(below, r, "abort") /\ \A q \in Req \ {r} : link'[q] = link[q]
    BY <1>1, <1>6 DEF Veto, Returns, AbortRequest, AjaxTypes, LinkTypes
  <2>2. \A i \in 1..Len(below) :
            below[i].req = r /\ r \notin abortedInSend' /\ state[r] # "2"
                => below[i].at \in {"beforeSend", "ajaxStop"}
    BY <1>0, <1>2, <1>3, <1>4, <2>1 DEF FrameInv, Frame, BeginPoints
  <2>3. "abort" \in Outcome
    BY DEF Outcome
  <2> QED BY <1>0, <1>2, <2>1, <2>2, <2>3, DoneKeepsInv
<1>7. CASE AfterBeforeSend /\ setting[r].via = "none"
  <2>1. at = "beforeSend" /\ Done(below, r, "error") /\ link' = link
    BY <1>1, <1>7 DEF AfterBeforeSend, Returns
  <2>2. \A i \in 1..Len(below) :
            below[i].req = r /\ r \notin abortedInSend' /\ state[r] # "2"
                => below[i].at \in {"beforeSend", "ajaxStop"}
    BY <1>0, <1>2, <1>3, <1>4, <2>1 DEF FrameInv, Frame, BeginPoints
  <2>3. "error" \in Outcome
    BY DEF Outcome
  <2> QED BY <1>0, <1>2, <2>1, <2>2, <2>3, DoneKeepsInv
<1>8. CASE AfterBeforeSend /\ setting[r].via # "none"
  <2>1. PICK f \in {[req |-> r, at |-> "ajaxSend"], [req |-> r, at |-> Silent]} :
            /\ stack' = Append(below, f) /\ at = "beforeSend" /\ state[r] = "0"
            /\ transport' = [transport EXCEPT ![r] = TRUE]
            /\ UNCHANGED <<setting, state, link, timer, settled, completed, log>>
    BY <1>1, <1>8 DEF AfterBeforeSend, Enter, Returns, EndPoints, Silent
  <2>2. f \in Frame /\ f.req = r /\ Others(r) /\ transport'[r]
    BY <2>1 DEF Frame, Others, BeginPoints, AjaxTypes, RequestTypes
  <2>3. r \notin abortedInSend' => RequestInv(r)' /\ FrameInv(f)'
    BY <1>0, <1>2, <1>3, <2>1, <2>2 DEF RequestInv, FrameInv, EndPoints, Silent
  <2>4. \A i \in 1..Len(below) :
            below[i].req = r /\ r \notin abortedInSend' => FrameInv(below[i])' /\ Apart(below[i], f)
    BY <1>0, <1>2, <1>3, <2>1 DEF FrameInv, Apart, BeginPoints, EndPoints, Silent
  <2>5. state'[r] # "unused"
    BY <1>2, <2>1
  <2> QED BY <1>0, <1>2, <2>1, <2>2, <2>3, <2>4, <2>5, StepKeepsInv
<1>9. CASE Send
  <2>1. /\ stack' = below /\ at \in {"ajaxSend", Silent} /\ transport[r]
        /\ state' = [state EXCEPT ![r] = "1"]
        /\ timer' = [timer EXCEPT ![r] = setting[r].timed]
        /\ link' = [link EXCEPT ![r] = "listening"]
        /\ UNCHANGED <<setting, transport, settled, completed, log>>
    BY <1>1, <1>9 DEF Send, Leave, ReturnsToSend, Returns
  <2>2. Others(r) /\ state'[r] = "1"
    BY <2>1 DEF Others, AjaxTypes, RequestTypes, LinkTypes
  <2>3. r \notin abortedInSend' => RequestInv(r)'
    BY <1>0, <1>2, <1>3, <2>1, <2>2 DEF RequestInv
  <2>4. \A i \in 1..Len(below) :
            below[i].req = r /\ r \notin abortedInSend' => FrameInv(below[i])'
    BY <1>0, <1>2, <1>3, <2>1, <2>2 DEF FrameInv, BeginPoints, EndPoints, Silent
  <2>5. PICK f \in Frame : f.req = r
    <3>1. [req |-> r, at |-> "ajaxStop"] \in Frame
      BY DEF Frame
    <3> QED BY <3>1
  <2> QED BY <1>0, <1>2, <2>1, <2>2, <2>3, <2>4, <2>5, StepKeepsInv
<1>10. CASE SendAndWait \/ SendThrows
  <2>1. /\ at \in {"ajaxSend", Silent} /\ \A q \in Req \ {r} : link'[q] = link[q]
        /\ \E result \in Outcome : Done(below, r, result) \/ Finish(below, r, result)
    BY <1>1, <1>10 DEF SendAndWait, SendThrows, ReturnsToSend, Returns, Outcome, AjaxTypes, LinkTypes
  <2>2. r \notin abortedInSend' => state[r] = "0"
    BY <1>0, <1>3, <2>1
  <2>3. \A i \in 1..Len(below) :
            below[i].req = r /\ r \notin abortedInSend' /\ state[r] # "2"
                => below[i].at \in {"beforeSend", "ajaxStop"}
    BY <1>0, <1>2, <1>3, <1>4, <2>1 DEF FrameInv, Frame, BeginPoints
  <2> QED BY <1>0, <1>2, <2>1, <2>2, <2>3, DoneKeepsInv
<1>11. CASE AfterCallbacks \/ AfterEnded \/ (AfterComplete /\ setting[r].global)
  <2>1. PICK next \in EndPoints :
            /\ stack' = Append(below, [req |-> r, at |-> next])
            /\ log' = [log EXCEPT ![r] = Append(@, next)]
            /\ UNCHANGED <<setting, state, transport, link, timer, settled>>
            /\ completed' = IF next = "complete" THEN [completed EXCEPT ![r] = TRUE] ELSE completed
            /\ \/ at = "callbacks" /\ next = IF setting[r].global THEN "ended" ELSE "complete"
               \/ at = "ended" /\ next = IF completed[r] THEN "ajaxComplete" ELSE "complete"
               \/ at = "complete" /\ next = "ajaxComplete" /\ setting[r].global
    BY <1>1, <1>11 DEF AfterCallbacks, AfterEnded, AfterComplete, Enter, Returns, EndPoints, requestVars,
       AjaxTypes, RequestTypes
  <2> DEFINE f == [req |-> r, at |-> next]
  <2>2. f \in Frame /\ f.req = r /\ Others(r) /\ log'[r] = Append(log[r], next)
    BY <2>1 DEF Frame, Others, AjaxTypes, RequestTypes, StackTypes
  <2>3. state'[r] # "unused"
    BY <1>2, <2>1
  <2>4. ASSUME r \notin abortedInSend'
        PROVE  /\ RequestInv(r)' /\ FrameInv(f)'
               /\ \A i \in 1..Len(below) : below[i].req = r => FrameInv(below[i])' /\ Apart(below[i], f)
    <3>1. RequestInv(r) /\ at \in EndPoints /\ state[r] = "2" /\ log[r][Len(log[r])] = at
      BY <1>0, <1>2, <1>3, <2>1, <2>4 DEF EndPoints
    <3>2. log[r] \in Ends(setting[r].global) /\ setting[r].global \in BOOLEAN
      BY <3>1 DEF RequestInv, AjaxTypes, RequestTypes, Settings
    <3>3. completed[r] <=> at \in {"complete", "ajaxComplete"}
      BY <3>1, <3>2, EndsFacts DEF RequestInv
    <3>4. Append(log[r], next) \in Ends(setting[r].global)
      BY <2>1, <3>1, <3>2, <3>3, EndsFacts
    <3>5. log[r] \in Seq(EndPoints) /\ log'[r] # <<>> /\ log'[r][Len(log'[r])] = next
      <4>1. log[r] \in Seq(EndPoints)
        BY DEF AjaxTypes, StackTypes
      <4> QED BY <2>2, <4>1, AppendProperties
    <3>6. completed'[r] <=> next \in {"complete", "ajaxComplete"}
      BY <2>1, <3>3 DEF AjaxTypes, RequestTypes
    <3>7. RequestInv(r)'
      BY <2>1, <2>2, <3>1, <3>4, <3>5, <3>6 DEF RequestInv
    <3>8. FrameInv(f)'
      BY <2>1, <3>1, <3>5 DEF FrameInv, EndPoints, Silent
    <3>9. \A i \in 1..Len(below) : below[i].req = r => FrameInv(below[i])' /\ Apart(below[i], f)
      BY <1>0, <1>2, <1>3, <2>1, <2>4, <3>1 DEF FrameInv, Apart, BeginPoints, EndPoints, Silent
    <3> QED BY <3>7, <3>8, <3>9
  <2> HIDE DEF f
  <2> QED BY <1>0, <1>2, <2>1, <2>2, <2>3, <2>4, StepKeepsInv DEF f
<1>12. CASE (AfterComplete /\ ~setting[r].global) \/ AfterAjaxComplete \/ AfterStop
  <2> DEFINE f == [req |-> r, at |-> "ajaxStop"]
  <2>1. /\ stack' = below \/ stack' = Append(below, f)
        /\ UNCHANGED <<setting, state, transport, link, timer, settled, completed, log>>
    BY <1>1, <1>12 DEF AfterComplete, AfterAjaxComplete, AfterStop, Enter, Leave, requestVars, EndPoints
  <2>2. f \in Frame /\ f.req = r /\ Others(r) /\ state'[r] # "unused"
    BY <1>2, <2>1 DEF Frame, Others
  <2>3. r \notin abortedInSend' => RequestInv(r)' /\ FrameInv(f)'
    BY <1>0, <1>2, <2>1 DEF RequestInv, FrameInv, EndPoints, Silent
  <2>4. \A i \in 1..Len(below) :
            below[i].req = r /\ r \notin abortedInSend' => FrameInv(below[i])' /\ Apart(below[i], f)
    BY <1>0, <1>2, <2>1 DEF FrameInv, Apart, BeginPoints, EndPoints, Silent
  <2> HIDE DEF f
  <2> QED BY <1>0, <1>2, <2>1, <2>2, <2>3, <2>4, StepKeepsInv
<1> QED BY <1>5, <1>6, <1>7, <1>8, <1>9, <1>10, <1>11, <1>12 DEF AjaxReturn

LEMMA AjaxInvNext ==
    ASSUME AjaxTypes, AjaxTypes', AjaxInv, [AjaxNext]_ajaxVars PROVE AjaxInv'
<1>1. /\ stack \in Seq(Frame) /\ DOMAIN stack = 1..Len(stack) /\ Len(stack) \in Nat
      /\ IsBelow(stack)
  BY LenProperties, ElementOfSeq DEF AjaxTypes, StackTypes, IsBelow
<1>2. \A i \in 1..Len(stack) :
          /\ stack[i] \in Frame /\ state[stack[i].req] # "unused"
          /\ stack[i].req \notin abortedInSend => FrameInv(stack[i])
  BY <1>1, ElementOfSeq DEF AjaxInv, StackInv, FrameInv
<1>3. \A r \in Req : r \notin abortedInSend => RequestInv(r)
  BY DEF AjaxInv
<1>4. ASSUME NEW r \in Req, Request(r) PROVE AjaxInv'
  <2>1. state[r] = "unused" /\ r \notin abortedInSend /\ abortedInSend' = abortedInSend
    BY <1>4 DEF Request, AjaxInv
  <2>2. PICK at \in {"ajaxStart", "beforeSend"} :
            /\ stack' = Append(stack, [req |-> r, at |-> at])
            /\ state' = [state EXCEPT ![r] = "0"]
            /\ UNCHANGED <<setting, transport, link, timer, settled, completed, log>>
    BY <1>4 DEF Request, Enter, EndPoints
  <2> DEFINE f == [req |-> r, at |-> at]
  <2>3. f \in Frame /\ f.req = r /\ Others(r) /\ state'[r] = "0"
    BY <2>2 DEF Frame, BeginPoints, Others, AjaxTypes, RequestTypes
  <2>4. RequestInv(r)'
    BY <1>3, <2>1, <2>2, <2>3 DEF RequestInv
  <2>5. FrameInv(f)'
    BY <1>3, <2>1, <2>2, <2>3 DEF FrameInv, RequestInv, EndPoints, Silent
  <2>6. \A i \in 1..Len(stack) : stack[i].req # r
    BY <1>2, <2>1
  <2>7. state'[r] # "unused"
    BY <2>3
  <2> HIDE DEF f
  <2> QED BY <1>1, <2>1, <2>2, <2>3, <2>4, <2>5, <2>6, <2>7, StepKeepsInv DEF f
<1>5. ASSUME NEW r \in Req, Abort(r) PROVE AjaxInv'
  <2>1. /\ state[r] # "unused" /\ Done(stack, r, "abort")
        /\ \A q \in Req \ {r} : link'[q] = link[q]
        /\ abortedInSend \subseteq abortedInSend' /\ abortedInSend' \subseteq abortedInSend \cup {r}
        /\ transport[r] /\ state[r] = "0" => r \in abortedInSend'
    BY <1>5 DEF Abort, Known, AbortRequest, AjaxTypes, LinkTypes
  <2>2. \A i \in 1..Len(stack) : stack[i] # [req |-> r, at |-> "ajaxStart"]
    BY <1>1, <1>5 DEF Abort, Known
  <2>3. ASSUME NEW i \in 1..Len(stack), stack[i].req = r, r \notin abortedInSend', state[r] # "2"
        PROVE  stack[i].at \in {"beforeSend", "ajaxStop"}
    <3>1. stack[i].at # "ajaxStart"
      BY <1>2, <2>2, <2>3 DEF Frame
    <3>2. FrameInv(stack[i]) /\ stack[i] \in Frame
      BY <1>2, <2>1, <2>3
    <3> QED BY <2>1, <2>3, <3>1, <3>2 DEF FrameInv, Frame, BeginPoints
  <2>4. "abort" \in Outcome
    BY DEF Outcome
  <2> QED BY <1>1, <2>1, <2>3, <2>4, DoneKeepsInv
<1>6. ASSUME NEW r \in Req, Answer(r) \/ Timeout(r) PROVE AjaxInv'
  <2>1. /\ stack = <<>> /\ abortedInSend' = abortedInSend
        /\ link[r] = "listening" \/ timer[r]
        /\ \A q \in Req \ {r} : link'[q] = link[q]
        /\ \E result \in Outcome : Done(stack, r, result)
    BY <1>6 DEF Answer, Timeout, AbortRequest, AjaxTypes, LinkTypes, Outcome
  <2>2. state[r] # "unused"
    BY <1>3, <2>1 DEF AjaxInv, RequestInv
  <2>3. 1..Len(stack) = {}
    BY <2>1
  <2> QED BY <1>1, <2>1, <2>2, <2>3, DoneKeepsInv
<1>7. CASE AjaxThrow
  <2>1. stack' = <<>> /\ UNCHANGED <<requestVars, log, abortedInSend>>
    BY <1>7 DEF AjaxThrow
  <2>2. DOMAIN stack' = {}
    BY <2>1
  <2> QED BY <2>1, <2>2 DEF AjaxInv, StackInv, RequestInv, requestVars
<1>8. CASE UNCHANGED ajaxVars
  BY <1>8 DEF ajaxVars, requestVars, AjaxInv, StackInv, RequestInv, FrameInv
<1> QED BY <1>4, <1>5, <1>6, <1>7, <1>8, AjaxInvReturn DEF AjaxNext

LEMMA AjaxInvInit == AjaxInit => AjaxTypes /\ AjaxInv
<1> SUFFICES ASSUME AjaxInit PROVE AjaxTypes /\ AjaxInv
  OBVIOUS
<1>1. AjaxTypes
  <2>1. RequestTypes
    BY DEF AjaxInit, RequestTypes
  <2>2. StackTypes
    <3> DEFINE none == <<>>
    <3>1. \A S : none \in Seq(S)
      OBVIOUS
    <3>2. log = [r \in Req |-> none] /\ stack = none /\ pages = none
      BY DEF AjaxInit
    <3> HIDE DEF none
    <3> QED BY <3>1, <3>2 DEF StackTypes
  <2>3. link = [r \in Req |-> "none"] /\ active = 0 /\ threw = FALSE /\ abortedInSend = {}
    BY DEF AjaxInit
  <2>4. LinkTypes /\ active \in Int
    BY <2>3 DEF LinkTypes
  <2> QED BY <2>1, <2>2, <2>3, <2>4, Zenon DEF AjaxTypes
<1>2. AjaxInv
  BY DEF AjaxInit, AjaxInv, StackInv, RequestInv
<1> QED BY <1>1, <1>2

LEMMA AjaxInvHolds == AjaxSpec => [](AjaxTypes /\ AjaxInv)
<1>1. AjaxTypes /\ AjaxInv /\ [AjaxNext]_ajaxVars => (AjaxTypes /\ AjaxInv)'
  BY AjaxTypesNext, AjaxInvNext
<1> QED BY <1>1, AjaxInvInit, PTL DEF AjaxSpec

\* EndsInOrder, whatever the number of requests: a request whose answer races its
\* timeout or an abort tells its functions one result, in order.
THEOREM OneOutcome == AjaxSpec => []EndsInOrder
<1>1. AjaxTypes /\ AjaxInv => EndsInOrder
  <2> SUFFICES ASSUME AjaxTypes, AjaxInv, NEW r \in Req \ abortedInSend
               PROVE  /\ IsPrefix(log[r], IF setting[r].global
                                   THEN <<"callbacks", "ended", "complete", "ajaxComplete">>
                                   ELSE <<"callbacks", "complete">>)
                      /\ state[r] = "2" => ~transport[r] /\ ~timer[r] /\ settled[r] # "pending"
    BY DEF EndsInOrder
  <2>1. RequestInv(r) /\ setting[r].global \in BOOLEAN
    BY DEF AjaxInv, AjaxTypes, RequestTypes, Settings
  <2>2. CASE state[r] = "2"
    <3>1. log[r] \in Ends(setting[r].global) /\ ~transport[r] /\ ~timer[r] /\ settled[r] # "pending"
      BY <2>1, <2>2 DEF RequestInv
    <3> QED BY <2>1, <3>1, EndsFacts, Zenon
  <2>3. CASE state[r] # "2"
    <3>1. log[r] = <<>>
      BY <2>1, <2>3 DEF RequestInv
    <3> QED BY <2>3, <3>1 DEF IsPrefix
  <2> QED BY <2>2, <2>3
<1> QED BY <1>1, AjaxInvHolds, PTL

-----------------------------------------------------------------------------
(* Starting and stopping. *)

OnStack(r, at) == \E i \in DOMAIN stack : stack[i].req = r /\ stack[i].at = at

\* UnderWay, by the last function that was logged.
Way(r) ==
    /\ setting[r].global /\ state[r] # "unused"
    /\ \/ log[r] = <<>> \/ log[r][Len(log[r])] # "ajaxComplete"
       \/ OnStack(r, "ajaxComplete")

Through(r) ==
    state[r] = "2" => \/ \E at \in EndPoints : OnStack(r, at)
                      \/ log[r] = IF setting[r].global
                                  THEN <<"callbacks", "ended", "complete", "ajaxComplete">>
                                  ELSE <<"callbacks", "complete">>

TakeTurns ==
    /\ active > 0 <=> Len(pages) % 2 = 1
    /\ \A i \in DOMAIN pages : pages[i] = IF i % 2 = 1 THEN "ajaxStart" ELSE "ajaxStop"

CountInv ==
    Regular => ActiveCounts /\ TakeTurns /\ \A r \in Req : Through(r)

LEMMA FramesOfOthers ==
    ASSUME stack \in Seq(Frame), NEW r \in Req, NEW below,
           below = stack \/ (stack # <<>> /\ below = Below /\ Top.req = r),
           NEW f \in Frame, f.req = r, stack' = below \/ stack' = Append(below, f)
    PROVE  /\ \A q \in Req \ {r} : \A at : OnStack(q, at)' <=> OnStack(q, at)
           /\ \A at : OnStack(r, at) /\ (below = stack \/ Top.at # at) => OnStack(r, at)'
           /\ stack' = Append(below, f) => OnStack(r, f.at)'
           /\ \A at : OnStack(r, at)' => \/ f.at = at /\ stack' = Append(below, f)
                                       \/ \E i \in 1..Len(below) : below[i].req = r /\ below[i].at = at
           /\ \A at, i : i \in 1..Len(below) /\ below[i].req = r /\ below[i].at = at => OnStack(r, at)
<1>1. PICK n \in Nat : n = Len(stack) /\ DOMAIN stack = 1..n
  BY LenProperties
<1>2. PICK m \in Nat :
          /\ m = Len(below) /\ DOMAIN below = 1..m /\ below \in Seq(Frame) /\ m <= n
          /\ \A i \in 1..m : below[i] = stack[i]
          /\ \A i \in 1..n : i \in 1..m \/ (below # stack /\ stack[i] = Top /\ Top.req = r)
  <2>1. CASE below = stack
    BY <1>1, <2>1
  <2>2. CASE below # stack
    <3>1. /\ below \in Seq(Frame) /\ Len(below) = n - 1 /\ n \in Nat \ {0}
          /\ \A i \in 1..(n - 1) : below[i] = stack[i]
          /\ Top = stack[n] /\ Top.req = r
      BY <1>1, <2>2, PopFacts
    <3>2. DOMAIN below = 1..(n - 1)
      BY <3>1, LenProperties
    <3>3. \A i \in 1..n : i \in 1..(n - 1) \/ i = n
      BY <3>1
    <3> QED BY <2>2, <3>1, <3>2, <3>3
  <2> QED BY <2>1, <2>2
<1>3. /\ \A i \in 1..m : i \in DOMAIN stack /\ stack'[i] = stack[i] /\ i \in DOMAIN stack'
      /\ \A i \in DOMAIN stack' : i \in 1..m \/ (stack' = Append(below, f) /\ stack'[i] = f)
      /\ stack' = Append(below, f) => m + 1 \in DOMAIN stack' /\ stack'[m + 1] = f
  <2>1. \A i \in 1..m : i \in DOMAIN stack
    BY <1>1, <1>2
  <2>2. CASE stack' = below
    <3>1. stack' = Append(below, f) => FALSE
      BY <1>2, <2>2, AppendProperties
    <3> QED BY <1>2, <2>1, <2>2, <3>1
  <2>3. CASE stack' = Append(below, f)
    <3>1. /\ stack' \in Seq(Frame) /\ Len(stack') = m + 1 /\ stack'[m + 1] = f
          /\ \A i \in 1..m : stack'[i] = below[i]
      BY <1>2, <2>3, AppendProperties
    <3>2. DOMAIN stack' = 1..(m + 1)
      BY <3>1, LenProperties
    <3>3. \A i \in 1..(m + 1) : i \in 1..m \/ i = m + 1
      OBVIOUS
    <3> QED BY <1>2, <2>1, <2>3, <3>1, <3>2, <3>3
  <2> QED BY <2>2, <2>3
<1>4. \A q \in Req \ {r} : \A at : OnStack(q, at)' <=> OnStack(q, at)
  <2> SUFFICES ASSUME NEW q \in Req \ {r}, NEW at PROVE OnStack(q, at)' <=> OnStack(q, at)
    OBVIOUS
  <2>1. OnStack(q, at) => OnStack(q, at)'
    BY <1>1, <1>2, <1>3 DEF OnStack
  <2>2. OnStack(q, at)' => OnStack(q, at)
    BY <1>3 DEF OnStack
  <2> QED BY <2>1, <2>2
<1>5. \A at : OnStack(r, at) /\ (below = stack \/ Top.at # at) => OnStack(r, at)'
  BY <1>1, <1>2, <1>3 DEF OnStack
<1>6. stack' = Append(below, f) => OnStack(r, f.at)'
  BY <1>3 DEF OnStack
<1>7. \A at : OnStack(r, at)' => \/ f.at = at /\ stack' = Append(below, f)
                               \/ \E i \in 1..Len(below) : below[i].req = r /\ below[i].at = at
  <2> SUFFICES ASSUME NEW at, OnStack(r, at)'
               PROVE  \/ f.at = at /\ stack' = Append(below, f)
                      \/ \E i \in 1..Len(below) : below[i].req = r /\ below[i].at = at
    OBVIOUS
  <2>1. PICK i \in DOMAIN stack' : stack'[i].req = r /\ stack'[i].at = at
    BY DEF OnStack
  <2>2. CASE i \in 1..m
    BY <1>2, <1>3, <2>1, <2>2
  <2>3. CASE stack' = Append(below, f) /\ stack'[i] = f
    BY <2>1, <2>3
  <2> QED BY <1>3, <2>1, <2>2, <2>3
<1>8. \A at, i : i \in 1..Len(below) /\ below[i].req = r /\ below[i].at = at => OnStack(r, at)
  BY <1>2, <1>3 DEF OnStack
<1> QED BY <1>4, <1>5, <1>6, <1>7, <1>8

LEMMA EndsLast ==
    ASSUME NEW global \in BOOLEAN, NEW l \in Ends(global)
    PROVE  l # <<>> /\ ("ajaxComplete" \in ToSet(l) <=> l[Len(l)] = "ajaxComplete")
<1> DEFINE Good(s) == s # <<>> /\ ("ajaxComplete" \in ToSet(s) <=> s[Len(s)] = "ajaxComplete")
<1>1. Good(<<"callbacks">>)
  BY DEF ToSet
<1>2. Good(<<"callbacks", "ended">>)
  BY DEF ToSet
<1>3. Good(<<"callbacks", "ended", "complete">>)
  BY DEF ToSet
<1>4. Good(<<"callbacks", "ended", "complete", "ajaxComplete">>)
  BY DEF ToSet
<1>5. Good(<<"callbacks", "complete">>)
  BY DEF ToSet
<1> HIDE DEF Good
<1>6. Good(l)
  BY <1>1, <1>2, <1>3, <1>4, <1>5, Zenon DEF Ends
<1> QED BY <1>6 DEF Good

LEMMA UnderWayIs ==
    AjaxTypes /\ AjaxInv /\ abortedInSend = {} => UnderWay = {r \in Req : Way(r)}
<1> SUFFICES ASSUME AjaxTypes, AjaxInv, abortedInSend = {}
             PROVE  UnderWay = {r \in Req : Way(r)}
  OBVIOUS
<1>1. ASSUME NEW r \in Req PROVE r \in UnderWay <=> Way(r)
  <2>1. RequestInv(r) /\ setting[r].global \in BOOLEAN /\ state[r] \in {"unused", "0", "1", "2"}
    BY DEF AjaxInv, AjaxTypes, RequestTypes, Settings
  <2>2. [req |-> r, at |-> "ajaxComplete"] \in ToSet(stack) <=> OnStack(r, "ajaxComplete")
    <3>1. \A i \in DOMAIN stack : stack[i] \in Frame
      BY ElementOfSeq, LenProperties DEF AjaxTypes, StackTypes
    <3>2. \A g \in Frame : g = [req |-> r, at |-> "ajaxComplete"] <=> g.req = r /\ g.at = "ajaxComplete"
      BY DEF Frame
    <3> QED BY <3>1, <3>2, Zenon DEF ToSet, OnStack
  <2>3. CASE state[r] # "2"
    <3>1. log[r] = <<>>
      BY <2>1, <2>3 DEF RequestInv
    <3>2. "ajaxComplete" \notin ToSet(log[r])
      BY <3>1 DEF ToSet
    <3> QED BY <3>1, <3>2, Zenon DEF UnderWay, Way
  <2>4. CASE state[r] = "2"
    <3>1. log[r] \in Ends(setting[r].global)
      BY <2>1, <2>4 DEF RequestInv
    <3>2. log[r] # <<>> /\ ("ajaxComplete" \in ToSet(log[r]) <=> log[r][Len(log[r])] = "ajaxComplete")
      BY <2>1, <3>1, EndsLast
    <3> QED BY <2>2, <3>2, Zenon DEF UnderWay, Way
  <2> QED BY <2>3, <2>4
<1> QED BY <1>1 DEF UnderWay

LEMMA UnderWayIsNext ==
    (AjaxTypes /\ AjaxInv /\ abortedInSend = {})' => (UnderWay = {r \in Req : Way(r)})'
BY UnderWayIs, PTL

\* done() is about one request.
LEMMA DoneOthers ==
    ASSUME AjaxTypes, NEW r \in Req, NEW below, NEW result,
           \A q \in Req \ {r} : link'[q] = link[q],
           Done(below, r, result) \/ Finish(below, r, result)
    PROVE  Others(r)
<1>1. CASE Finish(below, r, result)
  <2>1. /\ setting' = setting /\ completed' = completed
        /\ state' = [state EXCEPT ![r] = "2"] /\ timer' = [timer EXCEPT ![r] = FALSE]
        /\ transport' = [transport EXCEPT ![r] = FALSE]
        /\ settled' = IF settled[r] = "pending" THEN [settled EXCEPT ![r] = result] ELSE settled
        /\ log' = log \/ \E at \in EndPoints : log' = [log EXCEPT ![r] = Append(@, at)]
    BY <1>1 DEF Finish, Enter, Leave, EndPoints
  <2> QED BY <2>1 DEF Others, AjaxTypes, RequestTypes, StackTypes
<1>2. CASE Done(below, r, result) /\ state[r] = "2"
  BY <1>2 DEF Done, Leave, Others
<1> QED BY <1>1, <1>2 DEF Done

\* A step about one request changes the set at most by that one.
LEMMA CountOfOthers ==
    ASSUME AjaxTypes, AjaxTypes', AjaxInv, AjaxInv', Regular, Regular', CountInv,
           NEW r \in Req, Others(r),
           \A q \in Req \ {r} : \A at : OnStack(q, at)' <=> OnStack(q, at)
    PROVE  /\ \A q \in Req \ {r} : Through(q)'
           /\ UnderWay \ {r} = UnderWay' \ {r}
           /\ (r \in UnderWay <=> Way(r)) /\ (r \in UnderWay' <=> Way(r)')
           /\ IsFiniteSet(UnderWay) /\ active = Cardinality(UnderWay) /\ TakeTurns
<1>1. ASSUME NEW q \in Req \ {r} PROVE Way(q)' <=> Way(q)
  BY <1>1 DEF Way, Others
<1>2. ASSUME NEW q \in Req \ {r} PROVE Through(q)'
  BY <1>2 DEF Through, Others, CountInv
<1>3. UnderWay = {q \in Req : Way(q)}
  BY UnderWayIs DEF Regular
<1>4. (UnderWay = {q \in Req : Way(q)})'
  <2>1. (abortedInSend = {})'
    BY DEF Regular
  <2> QED BY UnderWayIsNext, <2>1
<1>5. IsFiniteSet(UnderWay)
  <2>1. UnderWay \subseteq Req
    BY DEF UnderWay
  <2> QED BY <2>1, FS_Subset, AjaxAssumption
<1> QED BY <1>1, <1>2, <1>3, <1>4, <1>5 DEF CountInv, ActiveCounts

\* Steps that neither start nor finish a request.
LEMMA SameCount ==
    ASSUME AjaxTypes, AjaxTypes', AjaxInv, AjaxInv', Regular, Regular', CountInv,
           NEW r \in Req, Others(r), Through(r)', Way(r)' <=> Way(r),
           \A q \in Req \ {r} : \A at : OnStack(q, at)' <=> OnStack(q, at),
           active' = active, pages' = pages
    PROVE  CountInv'
<1>1. UnderWay' = UnderWay
  BY CountOfOthers
<1>2. \A q \in Req : Through(q)'
  BY CountOfOthers
<1> QED BY <1>1, <1>2, CountOfOthers DEF CountInv, ActiveCounts, TakeTurns

\* ajaxStart for the first request that is under way.
LEMMA OneMore ==
    ASSUME AjaxTypes, AjaxTypes', AjaxInv, AjaxInv', Regular, Regular', CountInv,
           NEW r \in Req, Others(r), Through(r)', ~Way(r), Way(r)',
           \A q \in Req \ {r} : \A at : OnStack(q, at)' <=> OnStack(q, at),
           active' = active + 1,
           pages' = IF active = 0 THEN Append(pages, "ajaxStart") ELSE pages
    PROVE  CountInv'
<1>1. UnderWay' = UnderWay \cup {r} /\ r \notin UnderWay /\ IsFiniteSet(UnderWay)
  BY CountOfOthers
<1>2. Cardinality(UnderWay') = Cardinality(UnderWay) + 1
  BY <1>1, FS_AddElement
<1>3. active = Cardinality(UnderWay) /\ active \in Nat
  BY <1>1, CountOfOthers, FS_CardinalityType
<1>4. PICK n \in Nat : n = Len(pages) /\ DOMAIN pages = 1..n /\ pages \in Seq({"ajaxStart", "ajaxStop"})
  BY LenProperties DEF AjaxTypes, StackTypes
<1>5. /\ active > 0 <=> n % 2 = 1
      /\ \A i \in 1..n : pages[i] = IF i % 2 = 1 THEN "ajaxStart" ELSE "ajaxStop"
  BY <1>4, CountOfOthers DEF TakeTurns
<1>6. TakeTurns'
  <2>1. CASE active = 0
    <3>1. /\ Len(pages') = n + 1 /\ DOMAIN pages' = 1..(n + 1) /\ pages'[n + 1] = "ajaxStart"
          /\ \A i \in 1..n : pages'[i] = pages[i]
      BY <1>4, <2>1, AppendProperties, LenProperties
    <3>2. n % 2 # 1 /\ (n + 1) % 2 = 1
      BY <1>5, <2>1
    <3>3. \A i \in 1..(n + 1) : pages'[i] = IF i % 2 = 1 THEN "ajaxStart" ELSE "ajaxStop"
      <4> TAKE i \in 1..(n + 1)
      <4>1. i \in 1..n \/ i = n + 1
        OBVIOUS
      <4> QED BY <1>5, <3>1, <3>2, <4>1
    <3> QED BY <2>1, <3>1, <3>2, <3>3 DEF TakeTurns
  <2>2. CASE active # 0
    BY <1>3, <1>4, <1>5, <2>2 DEF TakeTurns
  <2> QED BY <2>1, <2>2
<1>7. \A q \in Req : Through(q)'
  BY CountOfOthers
<1> QED BY <1>2, <1>3, <1>6, <1>7 DEF CountInv, ActiveCounts

\* ajaxStop for the last one.
LEMMA OneLess ==
    ASSUME AjaxTypes, AjaxTypes', AjaxInv, AjaxInv', Regular, Regular', CountInv,
           NEW r \in Req, Others(r), Through(r)', Way(r), ~Way(r)',
           \A q \in Req \ {r} : \A at : OnStack(q, at)' <=> OnStack(q, at),
           active' = active - 1,
           pages' = IF active = 1 THEN Append(pages, "ajaxStop") ELSE pages
    PROVE  CountInv'
<1>1. UnderWay' = UnderWay \ {r} /\ r \in UnderWay /\ IsFiniteSet(UnderWay)
  BY CountOfOthers
<1>2. Cardinality(UnderWay') = Cardinality(UnderWay) - 1
  BY <1>1, FS_RemoveElement
<1>3. active = Cardinality(UnderWay) /\ active \in Nat /\ active # 0
  BY <1>1, CountOfOthers, FS_CardinalityType, FS_EmptySet
<1>4. PICK n \in Nat : n = Len(pages) /\ DOMAIN pages = 1..n /\ pages \in Seq({"ajaxStart", "ajaxStop"})
  BY LenProperties DEF AjaxTypes, StackTypes
<1>5. /\ active > 0 <=> n % 2 = 1
      /\ \A i \in 1..n : pages[i] = IF i % 2 = 1 THEN "ajaxStart" ELSE "ajaxStop"
  BY <1>4, CountOfOthers DEF TakeTurns
<1>6. TakeTurns'
  <2>1. CASE active = 1
    <3>1. /\ Len(pages') = n + 1 /\ DOMAIN pages' = 1..(n + 1) /\ pages'[n + 1] = "ajaxStop"
          /\ \A i \in 1..n : pages'[i] = pages[i]
      BY <1>4, <2>1, AppendProperties, LenProperties
    <3>2. n % 2 = 1 /\ (n + 1) % 2 = 0
      BY <1>5, <2>1
    <3>3. \A i \in 1..(n + 1) : pages'[i] = IF i % 2 = 1 THEN "ajaxStart" ELSE "ajaxStop"
      <4> TAKE i \in 1..(n + 1)
      <4>1. i \in 1..n \/ i = n + 1
        OBVIOUS
      <4> QED BY <1>5, <3>1, <3>2, <4>1
    <3> QED BY <2>1, <3>1, <3>2, <3>3 DEF TakeTurns
  <2>2. CASE active # 1
    BY <1>3, <1>4, <1>5, <2>2 DEF TakeTurns
  <2> QED BY <2>1, <2>2
<1>7. \A q \in Req : Through(q)'
  BY CountOfOthers
<1> QED BY <1>2, <1>3, <1>6, <1>7 DEF CountInv, ActiveCounts

LEMMA CountReturn ==
    ASSUME AjaxTypes, AjaxTypes', AjaxInv, AjaxInv', Regular, Regular', CountInv, AjaxReturn
    PROVE  CountInv'
<1>0. stack # <<>> /\ stack \in Seq(Frame) /\ abortedInSend = {} /\ abortedInSend' = {}
  BY DEF AjaxReturn, AfterStart, Veto, AfterBeforeSend, Send, SendAndWait, SendThrows,
         AfterCallbacks, AfterEnded, AfterComplete, AfterAjaxComplete, AfterStop,
         Returns, ReturnsToSend, AjaxTypes, StackTypes, Regular
<1>1. PICK r \in Req, at \in BeginPoints \cup EndPoints \cup {"ajaxStop"}, below \in {Below} :
          r = Top.req /\ at = Top.at
  BY <1>0, ReturnFacts DEF Frame
<1>2. /\ IsBelow(below) /\ state[r] # "unused" /\ RequestInv(r)
      /\ \A i \in 1..Len(below) :
            below[i].req = r => ~(below[i].at \in EndPoints /\ at \in EndPoints)
      /\ at = "ajaxStart" => state[r] = "0"
      /\ at = "beforeSend" => state[r] \in {"0", "2"}
      /\ at \in {"ajaxSend", Silent} => state[r] = "0"
      /\ at \in EndPoints => state[r] = "2" /\ log[r][Len(log[r])] = at
  BY <1>0, <1>1, ReturnFacts DEF FrameInv, Apart
<1>3. state[r] # "2" => log[r] = <<>>
  BY <1>2 DEF RequestInv
<1>4. setting[r].global \in BOOLEAN /\ (state[r] = "2" => log[r] \in Ends(setting[r].global))
  BY <1>2 DEF RequestInv, AjaxTypes, RequestTypes, Settings
<1>5. Through(r) /\ log \in [Req -> Seq(EndPoints)]
  BY DEF CountInv, AjaxTypes, StackTypes
<1>6. \A p \in BeginPoints \cup EndPoints \cup {"ajaxStop"} :
          [req |-> r, at |-> p] \in Frame /\ [req |-> r, at |-> p].req = r /\ [req |-> r, at |-> p].at = p
  BY DEF Frame
<1>7. ASSUME NEW p \in BeginPoints \cup EndPoints \cup {"ajaxStop"},
             stack' = below \/ stack' = Append(below, [req |-> r, at |-> p])
      PROVE  /\ \A q \in Req \ {r} : \A a : OnStack(q, a)' <=> OnStack(q, a)
             /\ \A a : OnStack(r, a) /\ at # a => OnStack(r, a)'
             /\ stack' = Append(below, [req |-> r, at |-> p]) => OnStack(r, p)'
             /\ \A a : OnStack(r, a)' => \/ p = a /\ stack' = Append(below, [req |-> r, at |-> p])
                                         \/ \E i \in 1..Len(below) : below[i].req = r /\ below[i].at = a
             /\ \A a, i : i \in 1..Len(below) /\ below[i].req = r /\ below[i].at = a => OnStack(r, a)
  <2> DEFINE f == [req |-> r, at |-> p]
  <2>1. f \in Frame /\ f.req = r /\ f.at = p /\ (stack' = below \/ stack' = Append(below, f))
    BY <1>6, <1>7
  <2> HIDE DEF f
  <2>2. below = Below /\ Top.req = r /\ Top.at = at
    BY <1>1
  <2> QED BY <1>0, <2>1, <2>2, FramesOfOthers DEF f
<1>8. ASSUME state[r] = "0", state'[r] \in {"0", "1"}, setting' = setting, log' = log,
             Others(r), active' = active, pages' = pages,
             \/ stack' = below
             \/ \E p \in BeginPoints : stack' = Append(below, [req |-> r, at |-> p])
      PROVE  CountInv'
  <2>1. PICK p \in BeginPoints : stack' = below \/ stack' = Append(below, [req |-> r, at |-> p])
    BY <1>8 DEF BeginPoints
  <2>2. \A q \in Req \ {r} : \A a : OnStack(q, a)' <=> OnStack(q, a)
    BY <1>7, <2>1
  <2>3. Through(r)'
    BY <1>8 DEF Through
  <2>4. Way(r)' <=> Way(r)
    BY <1>3, <1>8 DEF Way
  <2> QED BY <1>8, <2>2, <2>3, <2>4, SameCount
<1>9. ASSUME stack' = below, at \notin EndPoints, Others(r), active' = active, pages' = pages,
             UNCHANGED <<setting, state, log>>
      PROVE  CountInv'
  <2>0. "ajaxStop" \in BeginPoints \cup EndPoints \cup {"ajaxStop"}
    OBVIOUS
  <2>1. /\ \A q \in Req \ {r} : \A a : OnStack(q, a)' <=> OnStack(q, a)
        /\ \A a \in EndPoints : OnStack(r, a) => OnStack(r, a)'
    BY <1>7, <1>9, <2>0
  <2>2. OnStack(r, "ajaxComplete")' => OnStack(r, "ajaxComplete")
    <3>1. below # Append(below, [req |-> r, at |-> "ajaxStop"])
      BY <1>2, <1>6, AppendProperties DEF IsBelow
    <3> QED BY <1>7, <1>9, <2>0, <3>1
  <2>3. Through(r)'
    BY <1>5, <1>9, <2>1 DEF Through
  <2>4. Way(r)' <=> Way(r)
    BY <1>9, <2>1, <2>2 DEF Way, EndPoints
  <2> QED BY <1>9, <2>1, <2>3, <2>4, SameCount
<1>10. ASSUME state[r] # "2", state'[r] = "2", setting' = setting, log' = [log EXCEPT ![r] = Append(@, "callbacks")],
              Others(r), active' = active, pages' = pages,
              stack' = Append(below, [req |-> r, at |-> "callbacks"])
       PROVE  CountInv'
  <2>1. /\ \A q \in Req \ {r} : \A a : OnStack(q, a)' <=> OnStack(q, a)
        /\ OnStack(r, "callbacks")'
    BY <1>7, <1>10 DEF EndPoints
  <2>2. Through(r)'
    BY <1>10, <2>1 DEF Through, EndPoints
  <2>3. log'[r] = <<"callbacks">>
    <3>1. log'[r] = Append(log[r], "callbacks") /\ log[r] = <<>>
      BY <1>3, <1>5, <1>10
    <3> QED BY <3>1
  <2>4. log'[r][Len(log'[r])] # "ajaxComplete"
    BY <2>3
  <2>5. Way(r)' <=> Way(r)
    BY <1>2, <1>3, <1>10, <2>4 DEF Way
  <2> QED BY <1>10, <2>1, <2>2, <2>5, SameCount
<1>11. ASSUME NEW result, Done(below, r, result) \/ (state[r] # "2" /\ Finish(below, r, result)),
              at \notin EndPoints, Others(r)
       PROVE  CountInv'
  <2>1. CASE state[r] = "2"
    BY <1>9, <1>11, <2>1 DEF Done, Leave
  <2>2. CASE state[r] # "2"
    <3>1. Finish(below, r, result) /\ settled[r] = "pending"
      BY <1>2, <1>11, <2>2 DEF Done, RequestInv
    <3>2. /\ state'[r] = "2" /\ setting' = setting /\ log' = [log EXCEPT ![r] = Append(@, "callbacks")]
          /\ active' = active /\ pages' = pages
          /\ stack' = Append(below, [req |-> r, at |-> "callbacks"])
      BY <3>1 DEF Finish, Enter, EndPoints, AjaxTypes, RequestTypes
    <3> QED BY <1>10, <1>11, <2>2, <3>2
  <2> QED BY <2>1, <2>2
<1>12. CASE AfterStart
  <2>1. /\ at = "ajaxStart" /\ stack' = Append(below, [req |-> r, at |-> "beforeSend"])
        /\ UNCHANGED <<requestVars, active, log, pages>>
    BY <1>1, <1>12 DEF AfterStart, Enter, Returns, EndPoints
  <2>2. Others(r) /\ state'[r] = "0" /\ "beforeSend" \in BeginPoints
    BY <1>2, <2>1 DEF requestVars, Others, BeginPoints
  <2> QED BY <1>2, <1>8, <2>1, <2>2 DEF requestVars
<1>13. CASE Veto \/ (AfterBeforeSend /\ setting[r].via = "none")
  <2>1. at = "beforeSend" /\ \E result : Done(below, r, result)
    BY <1>1, <1>13 DEF Veto, AfterBeforeSend, Returns, AbortRequest
  <2>2. \A q \in Req \ {r} : link'[q] = link[q]
    BY <1>1, <1>13 DEF Veto, AfterBeforeSend, AbortRequest, AjaxTypes, LinkTypes
  <2>3. at \notin EndPoints
    BY <2>1 DEF EndPoints
  <2>4. Others(r)
    BY <2>1, <2>2, DoneOthers
  <2> QED BY <1>11, <2>1, <2>3, <2>4
<1>14. CASE AfterBeforeSend /\ setting[r].via # "none"
  <2>1. /\ at = "beforeSend" /\ state[r] = "0" /\ transport' = [transport EXCEPT ![r] = TRUE]
        /\ \E p \in BeginPoints : stack' = Append(below, [req |-> r, at |-> p])
        /\ UNCHANGED <<setting, state, link, timer, settled, completed, active, log, pages>>
    BY <1>1, <1>14 DEF AfterBeforeSend, Enter, Returns, EndPoints, BeginPoints, Silent
  <2>2. Others(r) /\ state'[r] = "0"
    BY <2>1 DEF Others, AjaxTypes, RequestTypes
  <2> QED BY <1>8, <2>1, <2>2
<1>15. CASE Send
  <2>1. /\ stack' = below /\ at \in {"ajaxSend", Silent}
        /\ state' = [state EXCEPT ![r] = "1"]
        /\ timer' = [timer EXCEPT ![r] = setting[r].timed]
        /\ link' = [link EXCEPT ![r] = "listening"]
        /\ UNCHANGED <<setting, transport, settled, completed, active, log, pages>>
    BY <1>1, <1>15 DEF Send, Leave, ReturnsToSend, Returns
  <2>2. Others(r) /\ state'[r] = "1" /\ state[r] = "0"
    BY <1>2, <2>1 DEF Others, AjaxTypes, RequestTypes, LinkTypes
  <2> QED BY <1>8, <2>1, <2>2
<1>16. CASE SendAndWait \/ SendThrows
  <2>1. /\ at \in {"ajaxSend", Silent} /\ \A q \in Req \ {r} : link'[q] = link[q]
        /\ \E result : Done(below, r, result) \/ Finish(below, r, result)
    BY <1>1, <1>16 DEF SendAndWait, SendThrows, ReturnsToSend, Returns, AjaxTypes, LinkTypes
  <2>2. state[r] = "0" /\ at \notin EndPoints
    BY <1>2, <2>1 DEF EndPoints, Silent
  <2>3. Others(r)
    BY <2>1, DoneOthers
  <2> QED BY <1>11, <2>1, <2>2, <2>3
<1>17. CASE AfterCallbacks \/ AfterEnded \/ (AfterComplete /\ setting[r].global)
  <2>1. PICK next \in EndPoints :
            /\ stack' = Append(below, [req |-> r, at |-> next])
            /\ log' = [log EXCEPT ![r] = Append(@, next)]
            /\ UNCHANGED <<setting, state, transport, link, timer, settled, active, pages>>
            /\ completed' = IF next = "complete" THEN [completed EXCEPT ![r] = TRUE] ELSE completed
            /\ at \in EndPoints \ {"ajaxComplete"}
    BY <1>1, <1>17 DEF AfterCallbacks, AfterEnded, AfterComplete, Enter, Returns, EndPoints, requestVars,
       AjaxTypes, RequestTypes
  <2>2. Others(r) /\ log'[r] # <<>> /\ log'[r][Len(log'[r])] = next
    <3>1. log'[r] = Append(log[r], next) /\ log[r] \in Seq(EndPoints)
      BY <1>5, <2>1
    <3>2. log'[r] # <<>> /\ log'[r][Len(log'[r])] = next
      BY <3>1, AppendProperties
    <3>3. Others(r)
      BY <1>5, <2>1 DEF Others, AjaxTypes, RequestTypes
    <3> QED BY <3>2, <3>3
  <2>3. /\ \A q \in Req \ {r} : \A a : OnStack(q, a)' <=> OnStack(q, a)
        /\ OnStack(r, next)'
    BY <1>7, <2>1
  <2>4. Through(r)'
    BY <2>3 DEF Through
  <2>5. Way(r)' <=> Way(r)
    BY <1>2, <2>1, <2>2, <2>3 DEF Way
  <2> QED BY <2>1, <2>2, <2>3, <2>4, <2>5, SameCount
<1>18. CASE AfterComplete /\ ~setting[r].global
  <2>1. at = "complete" /\ stack' = below /\ UNCHANGED <<requestVars, active, log, pages>>
    BY <1>1, <1>18 DEF AfterComplete, Leave, Returns
  <2>2. Others(r) /\ UNCHANGED <<setting, state, log>>
    BY <2>1 DEF Others, requestVars
  <2>3. log[r] = <<"callbacks", "complete">>
    BY <1>2, <1>4, <1>18, <2>1, EndsFacts DEF EndPoints
  <2>4. Through(r)'
    BY <1>18, <2>2, <2>3 DEF Through
  <2>5. Way(r)' <=> Way(r)
    BY <1>18, <2>2 DEF Way
  <2>6. \A q \in Req \ {r} : \A a : OnStack(q, a)' <=> OnStack(q, a)
    BY <1>7, <2>1
  <2> QED BY <2>1, <2>2, <2>4, <2>5, <2>6, SameCount
<1>19. CASE AfterAjaxComplete
  <2>1. /\ at = "ajaxComplete" /\ UNCHANGED <<requestVars, log>> /\ active' = active - 1
        /\ pages' = IF active = 1 THEN Append(pages, "ajaxStop") ELSE pages
        /\ stack' = below \/ stack' = Append(below, [req |-> r, at |-> "ajaxStop"])
    BY <1>1, <1>19 DEF AfterAjaxComplete, Enter, Leave, Returns, EndPoints
  <2>2. Others(r) /\ UNCHANGED <<setting, state, log>>
    BY <2>1 DEF Others, requestVars
  <2>3. state[r] = "2" /\ setting[r].global /\ log[r] = <<"callbacks", "ended", "complete", "ajaxComplete">>
        /\ log[r] # <<>> /\ log[r][Len(log[r])] = "ajaxComplete"
    BY <1>2, <1>4, <2>1, EndsFacts DEF EndPoints
  <2>4. Through(r)'
    BY <2>2, <2>3 DEF Through
  <2>5. Way(r)
    <3>1. OnStack(r, "ajaxComplete")
      <4>1. Len(stack) \in DOMAIN stack /\ stack[Len(stack)] = Top
        BY <1>0, PopFacts, LenProperties
      <4> QED BY <1>1, <2>1, <4>1 DEF OnStack
    <3> QED BY <1>2, <2>3, <3>1 DEF Way
  <2>6. ~OnStack(r, "ajaxComplete")'
    <3>1. \A i \in 1..Len(below) : below[i].req = r => below[i].at # "ajaxComplete"
      BY <1>2, <2>1 DEF EndPoints
    <3> QED BY <1>7, <2>1, <3>1
  <2>7. ~Way(r)'
    BY <2>2, <2>3, <2>6 DEF Way
  <2>8. \A q \in Req \ {r} : \A a : OnStack(q, a)' <=> OnStack(q, a)
    BY <1>7, <2>1
  <2> QED BY <2>1, <2>2, <2>4, <2>5, <2>7, <2>8, OneLess
<1>20. CASE AfterStop
  <2>1. at = "ajaxStop" /\ stack' = below /\ UNCHANGED <<requestVars, active, log, pages>>
    BY <1>1, <1>20 DEF AfterStop, Leave, Returns
  <2>2. Others(r) /\ at \notin EndPoints
    BY <2>1 DEF Others, requestVars, EndPoints
  <2> QED BY <1>9, <2>1, <2>2 DEF requestVars
<1> QED BY <1>12, <1>13, <1>14, <1>15, <1>16, <1>17, <1>18, <1>19, <1>20 DEF AjaxReturn

LEMMA CountNext ==
    ASSUME AjaxTypes, AjaxTypes', AjaxInv, AjaxInv', CountInv, [AjaxNext]_ajaxVars
    PROVE  CountInv'
<1> SUFFICES ASSUME Regular' PROVE CountInv'
  BY DEF CountInv
<1>0. Regular
  BY DEF AjaxNext, AjaxReturn, AfterStart, Veto, AfterBeforeSend, Send, SendAndWait, SendThrows,
         AfterCallbacks, AfterEnded, AfterComplete, AfterAjaxComplete, AfterStop,
         Returns, ReturnsToSend, Request, Abort, Answer, Timeout, AjaxThrow, ajaxVars, Regular
<1>1. /\ stack \in Seq(Frame) /\ DOMAIN stack = 1..Len(stack)
      /\ \A i \in DOMAIN stack : FrameInv(stack[i])
      /\ \A q \in Req : RequestInv(q)
  BY <1>0, LenProperties DEF AjaxTypes, StackTypes, AjaxInv, StackInv, Regular
<1>2. ASSUME NEW r \in Req, NEW p \in BeginPoints \cup EndPoints \cup {"ajaxStop"},
             stack' = stack \/ stack' = Append(stack, [req |-> r, at |-> p])
      PROVE  /\ \A q \in Req \ {r} : \A a : OnStack(q, a)' <=> OnStack(q, a)
             /\ \A a : OnStack(r, a) => OnStack(r, a)'
             /\ stack' = Append(stack, [req |-> r, at |-> p]) => OnStack(r, p)'
  <2> DEFINE f == [req |-> r, at |-> p]
  <2>1. f \in Frame /\ f.req = r /\ f.at = p /\ (stack' = stack \/ stack' = Append(stack, f))
    BY <1>2 DEF Frame
  <2> HIDE DEF f
  <2> QED BY <1>1, <2>1, FramesOfOthers DEF f
<1>3. ASSUME NEW r \in Req, Request(r) PROVE CountInv'
  <2>1. PICK at \in {"ajaxStart", "beforeSend"} :
            /\ at = IF setting[r].global /\ active = 0 THEN "ajaxStart" ELSE "beforeSend"
            /\ stack' = Append(stack, [req |-> r, at |-> at])
            /\ pages' = IF at = "ajaxStart" THEN Append(pages, "ajaxStart") ELSE pages
            /\ state' = [state EXCEPT ![r] = "0"] /\ state[r] = "unused"
            /\ active' = IF setting[r].global THEN active + 1 ELSE active
            /\ UNCHANGED <<setting, transport, link, timer, settled, completed, log>>
    BY <1>3 DEF Request, Enter, EndPoints
  <2>2. /\ Others(r) /\ state'[r] = "0" /\ log[r] = <<>> /\ setting[r].global \in BOOLEAN
    BY <1>1, <2>1 DEF Others, AjaxTypes, RequestTypes, RequestInv, Settings
  <2>3. \A q \in Req \ {r} : \A a : OnStack(q, a)' <=> OnStack(q, a)
    BY <1>2, <2>1 DEF BeginPoints
  <2>4. Through(r)'
    BY <2>2 DEF Through
  <2>5. ~Way(r) /\ (Way(r)' <=> setting[r].global)
    BY <2>1, <2>2 DEF Way
  <2>6. CASE setting[r].global
    BY <1>0, <2>1, <2>2, <2>3, <2>4, <2>5, <2>6, OneMore
  <2>7. CASE ~setting[r].global
    BY <1>0, <2>1, <2>2, <2>3, <2>4, <2>5, <2>7, SameCount
  <2> QED BY <2>2, <2>6, <2>7
<1>4. ASSUME NEW r \in Req, Abort(r) \/ Answer(r) \/ Timeout(r) PROVE CountInv'
  <2>1. /\ state[r] # "unused" /\ \E result : Done(stack, r, result)
        /\ \A q \in Req \ {r} : link'[q] = link[q]
    BY <1>1, <1>4 DEF Abort, Known, Answer, Timeout, AbortRequest, RequestInv, AjaxTypes, LinkTypes
  <2>2. Others(r)
    BY <2>1, DoneOthers
  <2>3. CASE state[r] = "2"
    <3>1. UNCHANGED <<setting, state, log, stack, active, pages>>
      BY <2>1, <2>3 DEF Done, Leave
    <3>2. /\ \A q \in Req : \A a : OnStack(q, a)' <=> OnStack(q, a)
      BY <3>1 DEF OnStack
    <3>3. Through(r)' /\ (Way(r)' <=> Way(r))
      BY <1>0, <3>1, <3>2 DEF Through, Way, CountInv
    <3> QED BY <1>0, <2>2, <3>1, <3>2, <3>3, SameCount
  <2>4. CASE state[r] # "2"
    <3>1. settled[r] = "pending" /\ log[r] = <<>> /\ log \in [Req -> Seq(EndPoints)]
      BY <1>1, <2>4 DEF RequestInv, AjaxTypes, StackTypes
    <3>2. /\ state'[r] = "2" /\ setting' = setting /\ log' = [log EXCEPT ![r] = Append(@, "callbacks")]
          /\ active' = active /\ pages' = pages
          /\ stack' = Append(stack, [req |-> r, at |-> "callbacks"])
      BY <2>1, <2>4, <3>1 DEF Done, Finish, Enter, EndPoints, AjaxTypes, RequestTypes
    <3>3. /\ \A q \in Req \ {r} : \A a : OnStack(q, a)' <=> OnStack(q, a)
          /\ OnStack(r, "callbacks")'
      BY <1>2, <3>2 DEF EndPoints
    <3>4. Through(r)'
      BY <3>3 DEF Through, EndPoints
    <3>5. log'[r] = Append(log[r], "callbacks")
      BY <3>1, <3>2
    <3>6. log'[r] = <<"callbacks">>
      BY <3>1, <3>5
    <3>7. log'[r][Len(log'[r])] # "ajaxComplete"
      BY <3>6
    <3>8. Way(r)' <=> Way(r)
      BY <2>1, <3>1, <3>2, <3>7 DEF Way
    <3> QED BY <1>0, <2>2, <3>2, <3>3, <3>4, <3>8, SameCount
  <2> QED BY <2>3, <2>4
<1>5. CASE AjaxThrow
  BY <1>5 DEF AjaxThrow, Regular
<1>6. CASE UNCHANGED ajaxVars
  BY <1>0, <1>6 DEF ajaxVars, requestVars, CountInv, ActiveCounts, UnderWay, TakeTurns, Through, OnStack
<1> QED BY <1>0, <1>3, <1>4, <1>5, <1>6, CountReturn DEF AjaxNext

\* StartsAndStops, whatever the number of requests: jQuery.active counts those that
\* are under way, and ajaxStart and ajaxStop take turns.
THEOREM CountsRequests == AjaxSpec => []StartsAndStops
<1>1. AjaxInit => CountInv
  <2> SUFFICES ASSUME AjaxInit PROVE CountInv
    OBVIOUS
  <2>1. UnderWay = {} /\ Len(pages) = 0 /\ DOMAIN pages = {} /\ active = 0
    BY DEF AjaxInit, UnderWay
  <2>2. \A r \in Req : Through(r)
    BY DEF AjaxInit, Through
  <2> QED BY <2>1, <2>2, FS_EmptySet DEF CountInv, ActiveCounts, TakeTurns
<1>2. AjaxTypes /\ AjaxInv /\ CountInv /\ (AjaxTypes /\ AjaxInv)' /\ [AjaxNext]_ajaxVars => CountInv'
  BY CountNext
<1>3. AjaxTypes /\ AjaxInv /\ CountInv => StartsAndStops
  <2> SUFFICES ASSUME AjaxTypes, AjaxInv, CountInv, Regular PROVE StartsAndStops
    BY DEF StartsAndStops
  <2>1. ActiveCounts /\ TakeTurns /\ \A r \in Req : Through(r) /\ RequestInv(r)
    BY DEF CountInv, AjaxInv, Regular
  <2>2. UnderWay = {r \in Req : Way(r)}
    BY UnderWayIs DEF Regular
  <2>3. IsFiniteSet(UnderWay)
    <3>1. UnderWay \subseteq Req
      BY DEF UnderWay
    <3> QED BY <3>1, FS_Subset, AjaxAssumption
  <2>4. active > 0 <=> UnderWay # {}
    BY <2>1, <2>3, FS_CardinalityType, FS_EmptySet DEF ActiveCounts
  <2>5. ASSUME stack = <<>>, NEW r \in Req
        PROVE  Way(r) <=> setting[r].global /\ state[r] \in {"0", "1"}
    <3>1. \A at : ~OnStack(r, at)
      BY <2>5 DEF OnStack
    <3>2. state[r] \in {"unused", "0", "1", "2"}
      BY DEF AjaxTypes, RequestTypes
    <3>3. CASE state[r] = "2"
      <4>1. setting[r].global => log[r] = <<"callbacks", "ended", "complete", "ajaxComplete">>
        BY <2>1, <3>1, <3>3 DEF Through
      <4>2. setting[r].global => log[r] # <<>> /\ log[r][Len(log[r])] = "ajaxComplete"
        BY <4>1
      <4> QED BY <3>1, <3>3, <4>2 DEF Way
    <3>4. CASE state[r] # "2"
      <4>1. log[r] = <<>>
        BY <2>1, <3>4 DEF RequestInv
      <4> QED BY <3>2, <3>4, <4>1 DEF Way
    <3> QED BY <3>3, <3>4
  <2>6. stack = <<>> => (UnderWay # {} <=> \E r \in Req : setting[r].global /\ state[r] \in {"0", "1"})
    BY <2>2, <2>5
  <2> QED BY <2>1, <2>4, <2>6 DEF StartsAndStops, TakeTurns
<1> QED BY <1>1, <1>2, <1>3, AjaxInvHolds, PTL DEF AjaxSpec

-----------------------------------------------------------------------------
ConversionTypes ==
    /\ converters \subseteq [from : Types \cup {Automatic}, to : Types, same : BOOLEAN]
    /\ responses \subseteq Types /\ contentType \in Types \cup {Unknown}
    /\ dataTypes \in Seq(Types \cup {Automatic})
    /\ asked \in {<<a>> : a \in Types \cup {Automatic}}
                    \cup {<<a, b>> : a, b \in Types \cup {Automatic}}
    /\ current \in Types \cup {Unknown} /\ content \in Types \cup {Unknown}

Wanted == asked[Len(asked)]

\* The response is what it counts as, and on its way to the type asked for last.
ConversionInv ==
    /\ current = Unknown => dataTypes = asked
    /\ current # Unknown =>
          /\ content \in Types /\ CountsAs(content, current)
          /\ Wanted # Automatic => IF dataTypes = <<>> THEN current = Wanted
                              ELSE dataTypes[Len(dataTypes)] = Wanted

LEMMA CountsAsFacts ==
    ASSUME ConversionTypes
    PROVE  /\ \A t \in Types : CountsAs(t, t)
           /\ \A v, t \in Types : \A c \in converters :
                 CountsAs(v, t) /\ c.same /\ c.from \in {t, Automatic} => CountsAs(v, c.to)
<1>1. \A t \in Types : CountsAs(t, t)
  BY DEF CountsAs
<1>2. ASSUME NEW v \in Types, NEW t \in Types, NEW c \in converters,
             CountsAs(v, t), c.same, c.from \in {t, Automatic}
      PROVE  CountsAs(v, c.to)
  <2> SUFFICES ASSUME NEW T \in SUBSET (Types \cup {"garbage"}), v \in T,
                      \A d \in converters : d.same /\ d.from \in T \cup {Automatic} => d.to \in T
               PROVE  c.to \in T
    BY DEF CountsAs
  <2>1. t \in T
    BY <1>2 DEF CountsAs
  <2> QED BY <1>2, <2>1
<1> QED BY <1>1, <1>2

\* A converter that is given what it converts from, or says that it is the same.
LEMMA Applied ==
    ASSUME ConversionTypes, NEW v \in Types, NEW t \in Types, CountsAs(v, t),
           NEW c \in converters, c.from \in {t, Automatic}
    PROVE  c.to \in Types /\ Apply(c, v) \in Types /\ CountsAs(Apply(c, v), c.to)
<1>1. c.to \in Types
  BY DEF ConversionTypes
<1>2. CASE c.same
  BY <1>1, <1>2, CountsAsFacts DEF Apply
<1>3. CASE ~c.same
  <2>1. Apply(c, v) = c.to
    BY <1>3 DEF Apply
  <2> QED BY <1>1, <2>1, CountsAsFacts
<1> QED BY <1>2, <1>3

LEMMA SuffixFacts ==
    ASSUME NEW S, NEW s \in Seq(S), NEW n \in Nat, n <= Len(s)
    PROVE  /\ SubSeq(s, n + 1, Len(s)) \in Seq(S) /\ Len(SubSeq(s, n + 1, Len(s))) = Len(s) - n
           /\ \A i \in 1..(Len(s) - n) : SubSeq(s, n + 1, Len(s))[i] = s[n + i]
OBVIOUS

\* The automatic types at the front are replaced, the last type remains.
LEMMA RequestedFacts ==
    ASSUME ConversionTypes, dataTypes = asked
    PROVE  /\ Requested \in Seq(Types \cup {Automatic})
           /\ Wanted # Automatic => Requested # <<>> /\ Requested[Len(Requested)] = Wanted
<1> DEFINE P(n) == /\ \A i \in 1..n : dataTypes[i] = Automatic
                   /\ n < Len(dataTypes) => dataTypes[n + 1] # Automatic
<1>1. PICK m \in Nat \ {0} : m = Len(dataTypes) /\ dataTypes \in Seq(Types \cup {Automatic})
  BY DEF ConversionTypes
<1>2. \E n \in 0..m : P(n)
  <2>1. CASE m = 1
    <3>1. P(0) \/ P(1)
      BY <1>1, <2>1
    <3> QED BY <2>1, <3>1
  <2>2. CASE m = 2
    <3>1. P(0) \/ P(1) \/ P(2)
      BY <1>1, <2>2
    <3> QED BY <2>2, <3>1
  <2>3. m \in {1, 2}
    BY <1>1 DEF ConversionTypes
  <2> QED BY <2>1, <2>2, <2>3
<1>3. PICK n \in 0..m : n = Leading /\ P(n)
  <2>1. Leading = CHOOSE n \in 0..m : P(n)
    BY <1>1 DEF Leading
  <2> HIDE DEF P
  <2> QED BY <1>2, <2>1
<1>4. Wanted = dataTypes[m]
  BY <1>1 DEF Wanted
<1> DEFINE rest == SubSeq(dataTypes, n + 1, m)
<1>5. rest \in Seq(Types \cup {Automatic}) /\ Len(rest) = m - n /\ \A i \in 1..(m - n) : rest[i] = dataTypes[n + i]
  BY <1>1, SuffixFacts
<1>6. Wanted # Automatic => n < m
  BY <1>1, <1>3, <1>4
<1>7. Wanted # Automatic => rest # <<>> /\ rest[Len(rest)] = Wanted
  <2>1. Wanted # Automatic => m - n \in 1..(m - n) /\ n + (m - n) = m /\ Len(rest) # 0
    BY <1>5, <1>6
  <2> QED BY <1>4, <1>5, <2>1
<1> HIDE DEF rest, P
<1>8. Requested = IF n > 0 /\ contentType # Unknown THEN <<contentType>> \o rest ELSE rest
  BY <1>1, <1>3 DEF Requested, rest
<1>9. CASE n > 0 /\ contentType # Unknown
  <2>1. contentType \in Types /\ Requested = <<contentType>> \o rest
    BY <1>8, <1>9 DEF ConversionTypes
  <2>2. <<contentType>> \in Seq(Types \cup {Automatic}) /\ Len(<<contentType>>) = 1
    BY <2>1
  <2>3. PICK k \in Nat : k = Len(rest) /\ (k = 0 => rest = <<>>)
    BY <1>5, LenProperties, EmptySeq
  <2>4. /\ Requested \in Seq(Types \cup {Automatic}) /\ Len(Requested) = 1 + k
        /\ \A i \in 1..(1 + k) : Requested[i] = IF i <= 1 THEN <<contentType>>[i] ELSE rest[i - 1]
    BY <1>5, <2>1, <2>2, <2>3, ConcatProperties
  <2>5. Wanted # Automatic => Requested # <<>> /\ Requested[Len(Requested)] = Wanted
    <3>1. Wanted # Automatic => k # 0
      BY <1>7, <2>3
    <3>2. Wanted # Automatic => 1 + k \in 1..(1 + k) /\ ~(1 + k <= 1) /\ (1 + k) - 1 = k
      BY <2>3, <3>1
    <3>3. Wanted # Automatic => Requested[1 + k] = rest[k]
      BY <2>4, <3>2
    <3>4. Requested # <<>>
      BY <2>4, EmptySeq
    <3> QED BY <1>7, <2>3, <2>4, <3>3, <3>4
  <2> QED BY <2>4, <2>5
<1>10. CASE ~(n > 0 /\ contentType # Unknown)
  BY <1>5, <1>7, <1>8, <1>10
<1> QED BY <1>9, <1>10

\* What is left when the first type is done with.
LEMMA TailFacts ==
    ASSUME NEW S, NEW s \in Seq(S), s # <<>>
    PROVE  /\ Tail(s) \in Seq(S) /\ Head(s) \in S /\ Head(s) = s[1]
           /\ Tail(s) = <<>> => Head(s) = s[Len(s)]
           /\ Tail(s) # <<>> => Tail(s)[Len(Tail(s))] = s[Len(s)]
<1>1. PICK n \in Nat \ {0} : n = Len(s)
  BY EmptySeq, LenProperties
<1>2. /\ Tail(s) \in Seq(S) /\ Head(s) \in S /\ Head(s) = s[1] /\ Len(Tail(s)) = n - 1
      /\ \A i \in 1..(n - 1) : Tail(s)[i] = s[i + 1]
  <2>1. Head(s) = s[1] /\ Head(s) \in S
    BY <1>1, HeadTailProperties, ElementOfSeq
  <2>2. Tail(s) \in Seq(S) /\ Len(Tail(s)) = n - 1 /\ \A i \in 1..(n - 1) : Tail(s)[i] = s[i + 1]
    BY <1>1, HeadTailProperties
  <2> QED BY <2>1, <2>2
<1>3. Tail(s) = <<>> => n = 1
  BY <1>2
<1>4. Tail(s) # <<>> => n - 1 \in 1..(n - 1) /\ (n - 1) + 1 = n
  <2>1. Tail(s) # <<>> => n - 1 # 0
    BY <1>2, EmptySeq
  <2> QED BY <2>1
<1> QED BY <1>1, <1>2, <1>3, <1>4

LEMMA ConversionNextInv ==
    ConversionTypes /\ ConversionInv /\ [ConversionNext]_conversionVars
        => ConversionTypes' /\ ConversionInv'
<1> SUFFICES ASSUME ConversionTypes, ConversionInv, [ConversionNext]_conversionVars
             PROVE  ConversionTypes' /\ ConversionInv'
  OBVIOUS
<1>0. Automatic \notin Types /\ Unknown \notin Types
  BY DEF Automatic, Unknown, Types
<1>1. CASE HandleResponses
  <2>1. PICK final \in responses :
            /\ current' = final /\ content' = final
            /\ dataTypes' = IF Requested # <<>> /\ final = Requested[1]
                            THEN Tail(Requested) ELSE Requested
            /\ UNCHANGED <<converters, responses, contentType, asked>>
    BY <1>1 DEF HandleResponses
  <2>2. dataTypes = asked /\ final \in Types
    BY <1>1 DEF HandleResponses, ConversionInv, ConversionTypes
  <2>3. /\ Requested \in Seq(Types \cup {Automatic})
        /\ Wanted # Automatic => Requested # <<>> /\ Requested[Len(Requested)] = Wanted
    BY <2>2, RequestedFacts
  <2>4. /\ dataTypes' \in Seq(Types \cup {Automatic})
        /\ Wanted # Automatic => IF dataTypes' = <<>> THEN final = Wanted
                            ELSE dataTypes'[Len(dataTypes')] = Wanted
    <3>1. CASE Requested # <<>> /\ final = Requested[1]
      BY <2>1, <2>3, <3>1, TailFacts
    <3>2. CASE ~(Requested # <<>> /\ final = Requested[1])
      BY <2>1, <2>3, <3>2
    <3> QED BY <3>1, <3>2
  <2>5. ConversionTypes'
    BY <2>1, <2>2, <2>4 DEF ConversionTypes
  <2>6. CountsAs(content, current)'
    BY <2>1 DEF CountsAs
  <2> QED BY <1>0, <2>1, <2>2, <2>4, <2>5, <2>6 DEF ConversionInv, Wanted
<1>2. CASE Convert
  <2>1. /\ current \in Types /\ content \in Types /\ CountsAs(content, current)
        /\ dataTypes # <<>> /\ dataTypes' = Tail(dataTypes)
        /\ UNCHANGED <<converters, responses, contentType, asked>>
    BY <1>2 DEF Convert, ConversionInv, ConversionTypes
  <2>2. /\ Tail(dataTypes) \in Seq(Types \cup {Automatic}) /\ Head(dataTypes) \in Types \cup {Automatic}
        /\ Tail(dataTypes) = <<>> => Head(dataTypes) = dataTypes[Len(dataTypes)]
        /\ Tail(dataTypes) # <<>> => Tail(dataTypes)[Len(Tail(dataTypes))] = dataTypes[Len(dataTypes)]
    <3>1. dataTypes \in Seq(Types \cup {Automatic})
      BY DEF ConversionTypes
    <3> QED BY <2>1, <3>1, TailFacts
  <2>3. PICK type \in Types : type = current' /\ type = IF Head(dataTypes) = Automatic THEN current ELSE Head(dataTypes)
    BY <1>2, <2>1, <2>2 DEF Convert
  <2>4. content' \in Types /\ CountsAs(content', type)
    <3>1. CASE Head(dataTypes) \in {Automatic, current} /\ content' = content
      BY <2>1, <2>3, <3>1
    <3>2. ASSUME Head(dataTypes) \notin {Automatic, current}, NEW c \in Direct, content' = Apply(c, content)
          PROVE  content' \in Types /\ CountsAs(content', type)
      <4>1. c \in converters /\ c.to = type /\ c.from \in {current, Automatic}
        BY <2>3, <3>2 DEF Direct
      <4> QED BY <2>1, <3>2, <4>1, Applied
    <3>3. ASSUME Head(dataTypes) \notin {Automatic, current}, NEW first \in converters, NEW second \in converters,
                 first.from \in {current, Automatic}, first.to = second.from, second.to = Head(dataTypes),
                 content' = Chain(first, second, content)
          PROVE  content' \in Types /\ CountsAs(content', type)
      <4>1. PICK v \in Types : v = Apply(first, content) /\ CountsAs(v, first.to) /\ first.to \in Types
        BY <2>1, <3>3, Applied
      <4>2. Apply(second, v) \in Types /\ CountsAs(Apply(second, v), second.to)
        BY <3>3, <4>1, Applied
      <4> QED BY <2>3, <3>3, <4>1, <4>2 DEF Chain
    <3> QED BY <1>2, <3>1, <3>2, <3>3 DEF Convert
  <2>5. ConversionTypes'
    BY <2>1, <2>2, <2>3, <2>4 DEF ConversionTypes
  <2>6. CountsAs(content, current)'
    BY <2>1, <2>3, <2>4 DEF CountsAs
  <2>7. Wanted # Automatic => IF dataTypes' = <<>> THEN current' = Wanted
                         ELSE dataTypes'[Len(dataTypes')] = Wanted
    <3>1. Wanted # Automatic => dataTypes[Len(dataTypes)] = Wanted
      BY <1>0, <2>1 DEF ConversionInv
    <3> QED BY <2>1, <2>2, <2>3, <3>1
  <2> QED BY <1>0, <2>1, <2>3, <2>4, <2>5, <2>6, <2>7 DEF ConversionInv, Wanted
<1>3. CASE NoConversion \/ UNCHANGED conversionVars
  BY <1>3 DEF NoConversion, conversionVars, ConversionTypes, ConversionInv, Wanted, CountsAs
<1> QED BY <1>1, <1>2, <1>3 DEF ConversionNext

LEMMA ShortSeqs ==
    ASSUME NEW A, NEW s, s \in {<<a>> : a \in A} \cup {<<a, b>> : a, b \in A}
    PROVE  s \in Seq(A)
<1>1. ASSUME NEW a \in A, s = <<a>> PROVE s \in Seq(A)
  BY <1>1
<1>2. CASE s \in {<<a, b>> : a, b \in A}
  <2>1. PICK a \in A, b \in A : s = <<a, b>>
    BY <1>2
  <2>2. <<a, b>> \in Seq(A)
    OBVIOUS
  <2> QED BY <2>1, <2>2
<1> QED BY <1>1, <1>2

\* GetsWhatWasAsked, whatever converters a page adds.
THEOREM ConvertedAsAsked == ConversionSpec => []GetsWhatWasAsked
<1>1. ConversionInit => ConversionTypes /\ ConversionInv
  <2> SUFFICES ASSUME ConversionInit PROVE ConversionTypes /\ ConversionInv
    OBVIOUS
  <2>1. converters \subseteq [from : Types \cup {Automatic}, to : Types, same : BOOLEAN]
    <3> DEFINE C == [from : Types \cup {Automatic}, to : Types, same : BOOLEAN]
    <3>1. DefaultConverters \subseteq C
      <4>1. {"text", "html", "json", "xml", "script"} \subseteq Types
        BY DEF Types
      <4>2. \A t \in Types : [from |-> "text", to |-> t, same |-> FALSE] \in C
        BY <4>1
      <4>3. /\ [from |-> Automatic, to |-> "text", same |-> FALSE] \in C
            /\ [from |-> "text", to |-> "html", same |-> TRUE] \in C
        BY <4>1
      <4> HIDE DEF C
      <4> QED BY <4>1, <4>2, <4>3 DEF DefaultConverters
    <3>2. \A more \in Added \cup {{}} : more \subseteq C
      BY ConversionAssumption
    <3> HIDE DEF C
    <3>3. converters \subseteq C
      BY <3>1, <3>2 DEF ConversionInit
    <3> QED BY <3>3 DEF C
  <2>2. responses \subseteq Types /\ contentType \in Types \cup {Unknown}
    BY DEF ConversionInit, Contents, Types
  <2>3. dataTypes \in Seq(Types \cup {Automatic})
    <3>1. dataTypes \in {<<a>> : a \in Types \cup {Automatic}}
                            \cup {<<a, b>> : a, b \in Types \cup {Automatic}}
      BY DEF ConversionInit
    <3> QED BY <3>1, ShortSeqs
  <2> QED BY <2>1, <2>2, <2>3 DEF ConversionInit, ConversionTypes, ConversionInv
<1>2. ConversionTypes /\ ConversionInv => GetsWhatWasAsked
  BY DEF ConversionTypes, ConversionInv, GetsWhatWasAsked, Wanted, Types
<1> QED BY <1>1, <1>2, ConversionNextInv, PTL DEF ConversionSpec

-----------------------------------------------------------------------------
(***************************************************************************)
(* Events.  Of what is bound to an element the delegates come first, and   *)
(* each part is in the order of binding, which is what makes a queue that  *)
(* is made of it ordered; and what was made before an event reached an     *)
(* element stays in order while functions bind and unbind.                 *)
(***************************************************************************)
Handle == [id : Nat, fn : Fn, selector : Nat, namespace : Space, one : BOOLEAN]
Entry == [at : Element, for : Nat, h : Handle]
EventRecord == [target : Element, namespace : Space, at : Element, queue : Seq(Entry),
                stopped : BOOLEAN, running : Nat, called : Seq(Entry)]

EventTypes ==
    /\ bound \in [Element -> Seq(Handle)]
    /\ delegateCount \in [Element -> Nat]
    /\ binds \in Nat
    /\ events \in Seq(EventRecord)

\* A list of element n with its count of delegates; top is the last number given.
ListInv(b, dc, n, top) ==
    /\ dc <= Len(b)
    /\ \A i \in 1..Len(b) :
          /\ b[i].selector < n /\ 0 < b[i].id /\ b[i].id <= top
          /\ b[i].selector # NotDelegated <=> i <= dc
    /\ \A i, j \in 1..Len(b) :
          i < j => /\ b[i].id # b[j].id
                   /\ j <= dc \/ dc < i => b[i].id < b[j].id

BoundInv ==
    /\ \A n \in Element : ListInv(bound[n], delegateCount[n], n, binds)
    /\ \A n, m \in Element : n # m =>
          \A i \in 1..Len(bound[n]), j \in 1..Len(bound[m]) : bound[n][i].id # bound[m][j].id

ForIsRight(q) == q.for = IF q.h.selector = NotDelegated THEN q.at ELSE q.h.selector

Before(p, q) ==
    \/ p.at < q.at
    \/ /\ p.at = q.at
       /\ p.for < q.for \/ (p.for = q.for /\ p.h.id < q.h.id)

Ordered(s) == \A i, j \in 1..Len(s) : i < j => Before(s[i], s[j])

\* An event: what it has called and what it has still to call.
EventOrder(e) ==
    /\ \A i \in 1..Len(e.called) : ForIsRight(e.called[i]) /\ e.called[i].at <= e.at
    /\ \A i \in 1..Len(e.queue) : ForIsRight(e.queue[i]) /\ e.queue[i].at = e.at
    /\ Ordered(e.called) /\ Ordered(e.queue)
    /\ \A i \in 1..Len(e.called), j \in 1..Len(e.queue) : Before(e.called[i], e.queue[j])
    /\ e.target <= e.at

\* What is still to call may have been unbound since, but its number is not given
\* again; and if it was for one time and has been called, another event came
\* before this one.  b, top, sp and ov are bound, binds, spent and overtaken.
QueueInv(q, b, top, sp, ov) ==
    /\ \A i \in 1..Len(q) :
          /\ q[i].h.id <= top
          /\ \A m \in Element : \A j \in 1..Len(b[m]) :
                b[m][j].id = q[i].h.id => m = q[i].at /\ b[m][j] = q[i].h
          /\ q[i].h.one /\ q[i].h.id \in sp => q[i].h.id \in ov
    /\ \A i, j \in 1..Len(q) : i < j => q[i].h.id # q[j].h.id

\* What was called for its one time is not bound any more.
IsUnbound(b, sp) == \A n \in Element : \A i \in 1..Len(b[n]) : b[n][i].id \notin sp

EventsInv ==
    /\ EventTypes /\ BoundInv
    /\ \A k \in 1..Len(events) : EventOrder(events[k])

OnceInv ==
    /\ spent \subseteq 0..binds /\ again \subseteq overtaken
    /\ IsUnbound(bound, spent)
    /\ \A k \in 1..Len(events) : QueueInv(events[k].queue, bound, binds, spent, overtaken)

-----------------------------------------------------------------------------
Inserted(c, b, p, x) == c = InsertAt(b, p, x)
IsAdded(c, b, h, dc) == c = Add(b, h, dc)

\* A list with something put in after the first m.
LEMMA InsertedFacts ==
    ASSUME NEW S, NEW b \in Seq(S), NEW m \in Nat, m <= Len(b), NEW x \in S,
           NEW p, p = m + 1, NEW c, Inserted(c, b, p, x)
    PROVE  /\ c \in Seq(S) /\ Len(c) = Len(b) + 1
           /\ \A i \in 1..m : c[i] = b[i]
           /\ c[p] = x
           /\ \A i \in (p + 1)..Len(c) : c[i] = b[i - 1]
<1>1. PICK n \in Nat : n = Len(b) /\ m <= n
  OBVIOUS
<1>2. PICK front, back \in Seq(S) : IsSplit(b, m, front, back)
  BY SplitFacts
<1>3. /\ front = SubSeq(b, 1, m) /\ Len(front) = m /\ \A i \in 1..m : front[i] = b[i]
      /\ back = SubSeq(b, m + 1, n) /\ Len(back) = n - m
      /\ \A i \in 1..(n - m) : back[i] = b[m + i]
  BY <1>1, <1>2 DEF IsSplit
<1>6. PICK one : one = <<x>>
  OBVIOUS
<1>7. one \in Seq(S) /\ Len(one) = 1 /\ one[1] = x
  BY <1>6
<1>8. PICK a : a = front \o one
  OBVIOUS
<1>9. a \in Seq(S) /\ Len(a) = m + 1 /\ a[m + 1] = x /\ \A i \in 1..m : a[i] = b[i]
  <2>1. /\ a \in Seq(S) /\ Len(a) = Len(front) + Len(one)
        /\ \A i \in 1..Len(front) : a[i] = front[i]
        /\ \A i \in 1..Len(one) : a[Len(front) + i] = one[i]
    <3>1. front \in Seq(S) /\ one \in Seq(S)
      BY <1>7
    <3> QED BY <3>1, <1>8, ConcatFacts
  <2> QED BY <1>3, <1>7, <2>1
<1>10. c = a \o back
  <2>1. p - 1 = m
    OBVIOUS
  <2>2. InsertAt(b, p, x) = (SubSeq(b, 1, p - 1) \o <<x>>) \o SubSeq(b, p, Len(b))
    BY Zenon DEF InsertAt
  <2>3. c = InsertAt(b, p, x)
    BY DEF Inserted
  <2> QED BY <1>1, <1>3, <1>6, <1>8, <2>1, <2>2, <2>3, Zenon
<1>11. /\ c \in Seq(S) /\ Len(c) = Len(a) + Len(back)
       /\ \A i \in 1..Len(a) : c[i] = a[i]
       /\ \A i \in 1..Len(back) : c[Len(a) + i] = back[i]
  <2>1. a \in Seq(S) /\ back \in Seq(S)
    BY <1>9
  <2> QED BY <2>1, <1>10, ConcatFacts
<1>12. Len(c) = n + 1
  BY <1>1, <1>3, <1>9, <1>11
<1>13. \A i \in 1..(m + 1) : c[i] = a[i]
  BY <1>9, <1>11
<1>14. \A i \in (m + 2)..(n + 1) : c[i] = b[i - 1]
  <2> TAKE i \in (m + 2)..(n + 1)
  <2>1. PICK j \in 1..(n - m) : j = i - (m + 1) /\ m + 1 + j = i /\ m + j = i - 1
    BY <1>1
  <2>2. c[m + 1 + j] = back[j] /\ back[j] = b[m + j]
    BY <1>3, <1>9, <1>11
  <2> QED BY <2>1, <2>2
<1>15. m + 1 \in 1..(m + 1) /\ \A i \in 1..m : i \in 1..(m + 1)
  OBVIOUS
<1>16. p \in Int /\ p + 1 = m + 2
  OBVIOUS
<1> QED BY <1>1, <1>9, <1>11, <1>12, <1>13, <1>14, <1>15, <1>16

\* on() keeps the parts of a list and their order.
LEMMA AddFacts ==
    ASSUME NEW b \in Seq(Handle), NEW dc \in Nat, NEW n \in Element, NEW top \in Nat,
           ListInv(b, dc, n, top), NEW h \in Handle, h.id = top + 1, h.selector < n,
           NEW c, IsAdded(c, b, h, dc),
           NEW k \in Nat, h.selector = NotDelegated => k = dc, h.selector # NotDelegated => k = dc + 1
    PROVE  /\ c \in Seq(Handle) /\ ListInv(c, k, n, top + 1)
           /\ \A i \in 1..Len(c) : c[i] = h \/ \E j \in 1..Len(b) : c[i] = b[j]
<1>1. PICK l \in Nat : l = Len(b) /\ dc <= l /\ h.selector \in Nat /\ n \in Nat /\ h.id \in Nat
  BY DEF ListInv, Handle, Element
<1>2. /\ \A i \in 1..l : /\ b[i].selector \in Nat /\ b[i].id \in Nat
                         /\ b[i].selector < n /\ 0 < b[i].id /\ b[i].id <= top
                         /\ b[i].selector # NotDelegated <=> i <= dc
      /\ \A i, j \in 1..l : i < j => /\ b[i].id # b[j].id
                                     /\ j <= dc \/ dc < i => b[i].id < b[j].id
  <2>1. \A i \in 1..l : b[i].selector \in Nat /\ b[i].id \in Nat
    <3>1. \A i \in 1..l : b[i] \in Handle
      BY <1>1
    <3> QED BY <3>1 DEF Handle
  <2> QED BY <1>1, <2>1 DEF ListInv
<1>3. CASE h.selector = NotDelegated
  <2>1. c = Append(b, h) /\ k = dc
    BY <1>3 DEF Add, IsAdded
  <2>2. c \in Seq(Handle) /\ Len(c) = l + 1 /\ c[l + 1] = h /\ \A i \in 1..l : c[i] = b[i]
    BY <1>1, <2>1, AppendProperties
  <2>3. \A i \in 1..(l + 1) : i = l + 1 \/ i \in 1..l
    BY <1>1
  <2>4. \A i \in 1..Len(c) :
          /\ c[i].selector < n /\ 0 < c[i].id /\ c[i].id <= top + 1
          /\ c[i].selector # NotDelegated <=> i <= k
    BY <1>1, <1>2, <1>3, <2>1, <2>2, <2>3
  <2>5. \A i, j \in 1..Len(c) : i < j => /\ c[i].id # c[j].id
                                         /\ j <= k \/ k < i => c[i].id < c[j].id
    <3> TAKE i \in 1..Len(c), j \in 1..Len(c)
    <3> HAVE i < j
    <3>1. i \in 1..l
      BY <1>1, <2>2
    <3>2. CASE j = l + 1
      BY <1>1, <1>2, <2>2, <3>1, <3>2
    <3>3. CASE j \in 1..l
      BY <1>2, <2>1, <2>2, <3>1, <3>3
    <3> QED BY <2>2, <2>3, <3>2, <3>3
  <2>6. k <= Len(c)
    BY <1>1, <2>1, <2>2
  <2>7. \A i \in 1..Len(c) : c[i] = h \/ \E j \in 1..Len(b) : c[i] = b[j]
    BY <1>1, <2>2, <2>3
  <2> QED BY <2>2, <2>4, <2>5, <2>6, <2>7 DEF ListInv
<1>4. CASE h.selector # NotDelegated
  <2>1. c = InsertAt(b, dc + 1, h) /\ k = dc + 1
    BY <1>4 DEF Add, IsAdded
  <2>2. /\ c \in Seq(Handle) /\ Len(c) = l + 1 /\ c[dc + 1] = h
        /\ \A i \in 1..dc : c[i] = b[i]
        /\ \A i \in (dc + 2)..(l + 1) : c[i] = b[i - 1]
    <3>1. dc <= Len(b) /\ Inserted(c, b, dc + 1, h)
      BY <1>1, <2>1 DEF Inserted
    <3>2. PICK p : p = dc + 1
      OBVIOUS
    <3>3. /\ c \in Seq(Handle) /\ Len(c) = Len(b) + 1
          /\ \A i \in 1..dc : c[i] = b[i]
          /\ c[p] = h
          /\ \A i \in (p + 1)..Len(c) : c[i] = b[i - 1]
      BY <3>1, <3>2, InsertedFacts
    <3>4. p + 1 = dc + 2
      BY <3>2
    <3> QED BY <1>1, <3>2, <3>3, <3>4
  <2>3. \A i \in 1..(l + 1) : i \in 1..dc \/ i = dc + 1 \/ i \in (dc + 2)..(l + 1)
    BY <1>1
  <2>4. /\ \A i \in 1..dc : i \in 1..l /\ i < dc + 1
        /\ \A i \in (dc + 2)..(l + 1) : i - 1 \in 1..l /\ dc < i - 1 /\ ~(i <= dc + 1) /\ ~(i - 1 <= dc)
    BY <1>1
  <2>5. \A i \in 1..Len(c) :
          /\ c[i].selector < n /\ 0 < c[i].id /\ c[i].id <= top + 1
          /\ c[i].selector # NotDelegated <=> i <= k
    <3> TAKE i \in 1..Len(c)
    <3>1. CASE i \in 1..dc
      <4>1. c[i] = b[i] /\ i \in 1..l /\ i <= dc /\ i <= k
        BY <2>1, <2>2, <2>4, <3>1
      <4> QED BY <1>2, <4>1
    <3>2. CASE i = dc + 1
      BY <1>1, <1>4, <2>1, <2>2, <3>2
    <3>3. CASE i \in (dc + 2)..(l + 1)
      <4>1. c[i] = b[i - 1] /\ i - 1 \in 1..l /\ ~(i - 1 <= dc) /\ ~(i <= k)
        BY <2>1, <2>2, <2>4, <3>3
      <4> QED BY <1>2, <4>1
    <3> QED BY <2>2, <2>3, <3>1, <3>2, <3>3
  <2>6. \A i, j \in 1..Len(c) : i < j => /\ c[i].id # c[j].id
                                         /\ j <= k \/ k < i => c[i].id < c[j].id
    <3> TAKE i \in 1..Len(c), j \in 1..Len(c)
    <3> HAVE i < j
    <3>1. CASE i \in 1..dc
      <4>1. CASE j \in 1..dc
        <5>1. c[i] = b[i] /\ c[j] = b[j] /\ i \in 1..l /\ j \in 1..l /\ j <= dc
          BY <2>2, <2>4, <3>1, <4>1
        <5> QED BY <1>2, <5>1
      <4>2. CASE j = dc + 1
        BY <1>1, <1>2, <2>1, <2>2, <2>4, <3>1, <4>2
      <4>3. CASE j \in (dc + 2)..(l + 1)
        <5>1. c[i] = b[i] /\ c[j] = b[j - 1] /\ i < j - 1 /\ i \in 1..l /\ j - 1 \in 1..l
          BY <2>2, <2>4, <3>1, <4>3
        <5>2. ~(j <= k) /\ ~(k < i)
          BY <2>1, <3>1, <4>3
        <5> QED BY <1>2, <5>1, <5>2
      <4> QED BY <2>2, <2>3, <4>1, <4>2, <4>3
    <3>2. CASE i = dc + 1
      <4>1. j \in (dc + 2)..(l + 1)
        BY <2>2, <3>2
      <4>2. c[j] = b[j - 1] /\ j - 1 \in 1..l /\ c[i].id = top + 1
        BY <2>2, <2>4, <3>2, <4>1
      <4>3. ~(j <= k) /\ ~(k < i)
        BY <2>1, <3>2, <4>1
      <4> QED BY <1>1, <1>2, <4>2, <4>3
    <3>3. CASE i \in (dc + 2)..(l + 1)
      <4>1. j \in (dc + 2)..(l + 1)
        BY <2>2, <3>3
      <4>2. c[i] = b[i - 1] /\ c[j] = b[j - 1] /\ i - 1 < j - 1 /\ i - 1 \in 1..l /\ j - 1 \in 1..l /\ dc < i - 1
        BY <2>2, <2>4, <3>3, <4>1
      <4> QED BY <1>2, <4>2
    <3> QED BY <2>2, <2>3, <3>1, <3>2, <3>3
  <2>7. k <= Len(c)
    BY <1>1, <2>1, <2>2
  <2>8. \A i \in 1..Len(c) : c[i] = h \/ \E j \in 1..Len(b) : c[i] = b[j]
    BY <1>1, <2>2, <2>3, <2>4
  <2> QED BY <2>2, <2>5, <2>6, <2>7, <2>8 DEF ListInv
<1> QED BY <1>3, <1>4

\* What is taken out of a list with count dc.
IsKept(c, b, gone) == c = Kept(b, ToSet(b) \ gone)
DelegatesOf(gone) == {h \in gone : h.selector # NotDelegated}
Among(x, b) == \E j \in 1..Len(b) : x = b[j]
IsCount(k, dc, gone) == k = dc - Cardinality(DelegatesOf(gone))

\* The delegates that are taken out are as many as the first part gets shorter.
LEMMA DelegatesGone ==
    ASSUME NEW b \in Seq(Handle), NEW dc \in Nat, NEW n, NEW top,
           ListInv(b, dc, n, top), NEW gone, gone \subseteq ToSet(b), NEW keep, keep = ToSet(b) \ gone,
           NEW x \in Seq(Handle), NEW y, IsSplit(b, dc, x, y)
    PROVE  Cardinality(DelegatesOf(gone)) = Cardinality(GoneOf(x, keep))
<1> DEFINE G == GoneOf(x, keep)
           D == DelegatesOf(gone)
           f == [i \in G |-> x[i]]
<1>1. Len(x) = dc /\ \A i \in 1..dc : x[i] = b[i]
  BY DEF IsSplit
<1>2. dc <= Len(b) /\ \A i \in 1..dc : i \in 1..Len(b)
  BY DEF ListInv
<1>3. \A i \in 1..dc : x[i] \in ToSet(b) /\ x[i].selector # NotDelegated
  BY <1>1, <1>2 DEF ToSet, ListInv
<1>4. \A i \in 1..dc : i \in G <=> x[i] \in gone
  BY <1>1, <1>3 DEF GoneOf
<1>5. G \subseteq 1..dc
  BY <1>1 DEF GoneOf
<1>6. f \in [G -> D]
  BY <1>3, <1>4, <1>5 DEF DelegatesOf
<1>7. \A i, j \in G : f[i] = f[j] => i = j
  <2>1. \A i, j \in 1..dc : i # j => x[i] # x[j]
    <3>1. \A i, j \in 1..dc : i < j => x[i].id # x[j].id
      BY <1>1, <1>2 DEF ListInv
    <3> QED BY <3>1
  <2> QED BY <1>5, <2>1
<1>8. ASSUME NEW h \in D PROVE \E i \in G : f[i] = h
  <2>1. h \in gone /\ h.selector # NotDelegated
    BY DEF DelegatesOf
  <2>2. PICK i \in 1..Len(b) : b[i] = h
    BY <2>1 DEF ToSet
  <2>3. i \in 1..dc
    BY <2>1, <2>2 DEF ListInv
  <2>4. i \in G /\ x[i] = h
    BY <1>1, <1>4, <2>1, <2>2, <2>3
  <2> QED BY <2>4
<1>9. f \in Bijection(G, D)
  <2>1. \A i, j \in DOMAIN f : f[i] = f[j] => i = j
    BY <1>7
  <2> HIDE DEF f, G, D
  <2> QED BY <1>6, <1>8, <2>1 DEF Bijection, Injection, Surjection, IsInjective
<1>10. IsFiniteSet(G)
  BY KeptLength
<1> HIDE DEF f, G, D
<1>11. Cardinality(D) = Cardinality(G)
  BY <1>9, <1>10, FS_Bijection DEF ExistsBijection
<1> QED BY <1>11 DEF D, G

\* off() keeps the parts of a list and their order.
LEMMA RemoveFacts ==
    ASSUME NEW b \in Seq(Handle), NEW dc \in Nat, NEW n, NEW top,
           ListInv(b, dc, n, top), NEW gone, gone \subseteq ToSet(b), NEW c, IsKept(c, b, gone),
           NEW k, IsCount(k, dc, gone)
    PROVE  /\ c \in Seq(Handle) /\ k \in Nat /\ ListInv(c, k, n, top)
           /\ \A i \in 1..Len(c) : c[i] \notin gone /\ Among(c[i], b)
<1>1. dc <= Len(b)
  BY DEF ListInv
<1>2. PICK keep : keep = ToSet(b) \ gone
  OBVIOUS
<1>3. PICK x, y \in Seq(Handle) : IsSplit(b, dc, x, y)
  BY <1>1, SplitFacts
<1>4. PICK kx \in Seq(Handle) : kx = Kept(x, keep)
  BY KeptTyped
<1>5. PICK ky \in Seq(Handle) : ky = Kept(y, keep)
  BY KeptTyped
<1>6. c = kx \o ky
  <2>1. Kept(b, keep) = Kept(x, keep) \o Kept(y, keep)
    <3>1. \A bb, d, kk : IsSplit(bb, d, x, y) => Kept(bb, kk) = Kept(x, kk) \o Kept(y, kk)
      BY KeptSplit, Zenon
    <3> QED BY <1>3, <3>1, Zenon
  <2>2. c = Kept(b, keep)
    BY <1>2, Zenon DEF IsKept
  <2> QED BY <1>4, <1>5, <2>1, <2>2, Zenon
<1>7. /\ c \in Seq(Handle) /\ Len(c) = Len(kx) + Len(ky)
      /\ \A i \in 1..Len(kx) : c[i] = kx[i]
      /\ \A i \in 1..Len(ky) : c[Len(kx) + i] = ky[i]
  BY <1>6, ConcatFacts
<1>8. Len(kx) = k
  <2>1. Len(kx) = Len(x) - Cardinality(GoneOf(x, keep))
    BY <1>4, KeptLength
  <2>2. Len(x) = dc
    BY <1>3 DEF IsSplit
  <2>3. Cardinality(DelegatesOf(gone)) = Cardinality(GoneOf(x, keep))
    BY <1>2, <1>3, DelegatesGone
  <2> QED BY <2>1, <2>2, <2>3 DEF IsCount
<1>9. k \in Nat
  BY <1>8
<1>10. \A i \in 1..k : c[i].selector # NotDelegated
  <2> TAKE i \in 1..k
  <2>1. PICK at : Embeds(at, kx, x, keep)
    BY <1>4, KeptEmbeds
  <2>2. PICK j \in 1..Len(x) : kx[i] = x[j]
    BY <1>8, <2>1 DEF Embeds
  <2>3. j \in 1..dc /\ x[j] = b[j]
    BY <1>3 DEF IsSplit
  <2>4. j \in 1..Len(b) /\ j <= dc
    BY <1>1, <2>3
  <2> QED BY <1>7, <1>8, <2>2, <2>3, <2>4 DEF ListInv
<1>11. \A i \in 1..Len(ky) : ky[i].selector = NotDelegated
  <2> TAKE i \in 1..Len(ky)
  <2>1. PICK at : Embeds(at, ky, y, keep)
    BY <1>5, KeptEmbeds
  <2>2. PICK j \in 1..Len(y) : ky[i] = y[j]
    BY <2>1 DEF Embeds
  <2>3. j \in 1..(Len(b) - dc) /\ y[j] = b[dc + j]
    BY <1>3 DEF IsSplit
  <2>4. dc + j \in 1..Len(b) /\ ~(dc + j <= dc)
    BY <1>1, <2>3
  <2> QED BY <2>2, <2>3, <2>4 DEF ListInv
<1>12. \A i \in 1..Len(c) : c[i].selector # NotDelegated <=> i <= k
  <2> TAKE i \in 1..Len(c)
  <2>1. CASE i <= k
    BY <1>9, <1>10, <2>1
  <2>2. CASE ~(i <= k)
    <3>1. PICK j \in 1..Len(ky) : k + j = i
      <4>1. i - k \in 1..Len(ky) /\ k + (i - k) = i
        BY <1>7, <1>8, <1>9, <2>2
      <4> QED BY <4>1
    <3>2. c[i] = ky[j]
      BY <1>7, <1>8, <3>1
    <3> QED BY <1>11, <2>2, <3>2
  <2> QED BY <2>1, <2>2
<1>13. PICK at : Embeds(at, c, b, keep)
  BY <1>2, KeptEmbeds DEF IsKept
<1>14. /\ \A i \in 1..Len(c) : at[i] \in 1..Len(b) /\ c[i] = b[at[i]] /\ c[i] \in keep
       /\ \A i, j \in 1..Len(c) : i < j => at[i] < at[j]
  BY <1>13 DEF Embeds
<1>15. \A i \in 1..Len(c) : c[i].selector < n /\ 0 < c[i].id /\ c[i].id <= top
  BY <1>14 DEF ListInv
<1>16. \A i, j \in 1..Len(c) : i < j => /\ c[i].id # c[j].id
                                        /\ j <= k \/ k < i => c[i].id < c[j].id
  <2> TAKE i \in 1..Len(c), j \in 1..Len(c)
  <2> HAVE i < j
  <2>1. at[i] \in 1..Len(b) /\ at[j] \in 1..Len(b) /\ at[i] < at[j] /\ c[i] = b[at[i]] /\ c[j] = b[at[j]]
    BY <1>14
  <2>2. b[at[i]].id # b[at[j]].id
    BY <2>1 DEF ListInv
  <2>3. (at[j] <= dc \/ dc < at[i]) => b[at[i]].id < b[at[j]].id
    BY <2>1 DEF ListInv
  <2>4. (b[at[i]].selector # NotDelegated <=> at[i] <= dc) /\ (b[at[j]].selector # NotDelegated <=> at[j] <= dc)
    BY <2>1 DEF ListInv
  <2>5. (i <= k <=> at[i] <= dc) /\ (j <= k <=> at[j] <= dc)
    BY <1>12, <2>1, <2>4
  <2>6. (j <= k \/ k < i) => (at[j] <= dc \/ dc < at[i])
    <3>1. k < i => ~(i <= k)
      BY <1>9
    <3>2. ~(at[i] <= dc) => dc < at[i]
      BY <2>1
    <3> QED BY <2>5, <3>1, <3>2
  <2> QED BY <2>1, <2>2, <2>3, <2>6
<1>17. k <= Len(c)
  BY <1>7, <1>8
<1>18. ListInv(c, k, n, top)
  BY <1>12, <1>15, <1>16, <1>17 DEF ListInv
<1>19. \A i \in 1..Len(c) : c[i] \notin gone /\ Among(c[i], b)
  BY <1>2, <1>14 DEF Among
<1> QED BY <1>7, <1>9, <1>18, <1>19

\* A part of a queue made of the list b at element n, for elements from lo to hi.
IsBatch(q, n, b, lo, hi) ==
    /\ \A i \in 1..Len(q) :
          /\ q[i].at = n /\ lo <= q[i].for /\ q[i].for <= hi /\ ForIsRight(q[i])
          /\ \E j \in 1..Len(b) : q[i].h = b[j]
    /\ Ordered(q)
Batches(n, b, lo, hi) == {q \in Seq(Entry) : IsBatch(q, n, b, lo, hi)}

LEMMA BatchesJoin ==
    ASSUME NEW n \in Element, NEW b, NEW lo \in Nat, NEW m \in Nat, NEW hi \in Nat, lo <= m + 1, m <= hi,
           NEW p \in Batches(n, b, lo, m), NEW q \in Batches(n, b, m + 1, hi)
    PROVE  p \o q \in Batches(n, b, lo, hi)
<1>1. PICK c : c = p \o q
  OBVIOUS
<1>2. p \in Seq(Entry) /\ q \in Seq(Entry) /\ IsBatch(p, n, b, lo, m) /\ IsBatch(q, n, b, m + 1, hi)
  BY DEF Batches
<1>3. /\ c \in Seq(Entry) /\ Len(c) = Len(p) + Len(q)
      /\ \A i \in 1..Len(p) : c[i] = p[i]
      /\ \A i \in 1..Len(q) : c[Len(p) + i] = q[i]
  <2>1. p \in Seq(Entry) /\ q \in Seq(Entry)
    BY <1>2
  <2> QED BY <1>1, <2>1, ConcatFacts
<1>4. PICK k \in Nat : k = Len(p)
  BY <1>2
<1>5. PICK l \in Nat : l = Len(q)
  BY <1>2
<1>6. \A i \in 1..Len(c) : i \in 1..k \/ \E j \in 1..l : i = k + j
  <2> TAKE i \in 1..Len(c)
  <2>1. CASE i \in 1..k
    BY <2>1
  <2>2. CASE i \notin 1..k
    <3>1. i - k \in 1..l /\ i = k + (i - k)
      BY <1>3, <1>4, <1>5, <2>2
    <3> QED BY <3>1
  <2> QED BY <2>1, <2>2
<1>7. /\ \A i \in 1..k : /\ c[i] = p[i] /\ p[i] \in Entry
                         /\ p[i].at = n /\ lo <= p[i].for /\ p[i].for <= m /\ ForIsRight(p[i])
                         /\ \E j \in 1..Len(b) : p[i].h = b[j]
      /\ \A i \in 1..l : /\ c[k + i] = q[i] /\ q[i] \in Entry
                         /\ q[i].at = n /\ m + 1 <= q[i].for /\ q[i].for <= hi /\ ForIsRight(q[i])
                         /\ \E j \in 1..Len(b) : q[i].h = b[j]
  BY <1>2, <1>3, <1>4, <1>5 DEF IsBatch
<1>8. /\ \A i \in 1..k : p[i].for \in Nat
      /\ \A i \in 1..l : q[i].for \in Nat
  BY <1>7 DEF Entry
<1>9. \A i \in 1..Len(c) :
          /\ c[i].at = n /\ lo <= c[i].for /\ c[i].for <= hi /\ ForIsRight(c[i])
          /\ \E j \in 1..Len(b) : c[i].h = b[j]
  <2> TAKE i \in 1..Len(c)
  <2>1. CASE i \in 1..k
    <3>1. c[i] = p[i] /\ p[i].for <= hi
      BY <1>7, <1>8, <2>1
    <3> QED BY <1>7, <2>1, <3>1
  <2>2. ASSUME NEW j \in 1..l, i = k + j
        PROVE  /\ c[i].at = n /\ lo <= c[i].for /\ c[i].for <= hi /\ ForIsRight(c[i])
               /\ \E jj \in 1..Len(b) : c[i].h = b[jj]
    <3>1. c[i] = q[j] /\ lo <= q[j].for
      BY <1>7, <1>8, <2>2
    <3> QED BY <1>7, <2>2, <3>1
  <2> QED BY <1>6, <2>1, <2>2
<1>10. \A i, j \in 1..Len(c) : i < j => Before(c[i], c[j])
  <2> TAKE i \in 1..Len(c), j \in 1..Len(c)
  <2> HAVE i < j
  <2>1. CASE i \in 1..k /\ j \in 1..k
    BY <1>2, <1>4, <1>7, <2>1 DEF IsBatch, Ordered
  <2>2. CASE i \in 1..k /\ j \notin 1..k
    <3>1. PICK jj \in 1..l : j = k + jj
      BY <1>6, <2>2
    <3>2. c[i].at = c[j].at /\ c[i].for < c[j].for
      <4>1. c[i] = p[i] /\ p[i].at = n /\ p[i].for <= m /\ p[i].for \in Nat
        BY <1>7, <1>8, <2>2
      <4>2. c[j] = q[jj] /\ q[jj].at = n /\ m + 1 <= q[jj].for /\ q[jj].for \in Nat
        BY <1>7, <1>8, <3>1
      <4> QED BY <4>1, <4>2
    <3> QED BY <3>2 DEF Before
  <2>3. CASE i \notin 1..k
    <3>1. PICK ii \in 1..l : i = k + ii
      BY <1>6, <2>3
    <3>2. j \notin 1..k
      BY <3>1
    <3>3. PICK jj \in 1..l : j = k + jj
      BY <1>6, <3>2
    <3>4. Before(q[ii], q[jj])
      BY <1>2, <1>5, <3>1, <3>3 DEF IsBatch, Ordered
    <3> QED BY <1>7, <3>1, <3>3, <3>4
  <2> QED BY <2>1, <2>2, <2>3
<1> QED BY <1>1, <1>3, <1>9, <1>10 DEF Batches, IsBatch, Ordered

LEMMA CallsForBatch ==
    ASSUME NEW n \in Element, NEW b, NEW e \in Nat, NEW list \in Seq(Handle),
           \A i \in 1..Len(list) : /\ \E j \in 1..Len(b) : list[i] = b[j]
                                   /\ e = IF list[i].selector = NotDelegated THEN n ELSE list[i].selector,
           \A i, j \in 1..Len(list) : i < j => list[i].id < list[j].id
    PROVE  CallsFor(n, e, list) \in Batches(n, b, e, e)
<1>1. PICK l \in Nat : l = Len(list) /\ DOMAIN list = 1..l
  OBVIOUS
<1>2. PICK q : q = CallsFor(n, e, list)
  OBVIOUS
<1>3. q = [i \in 1..l |-> [at |-> n, for |-> e, h |-> list[i]]]
  BY <1>1, <1>2 DEF CallsFor
<1>4. \A i \in 1..l : q[i] = [at |-> n, for |-> e, h |-> list[i]] /\ list[i] \in Handle
  BY <1>1, <1>3
<1>5. \A i \in 1..l : q[i] \in Entry /\ q[i].at = n /\ q[i].for = e /\ q[i].h = list[i]
  <2> TAKE i \in 1..l
  <2>1. q[i] = [at |-> n, for |-> e, h |-> list[i]] /\ list[i] \in Handle
    BY <1>4
  <2>2. q[i].at = n /\ q[i].for = e /\ q[i].h = list[i]
    BY <2>1
  <2>3. q[i] \in Entry
    BY <2>1 DEF Entry
  <2> QED BY <2>2, <2>3
<1>6. q \in Seq(Entry) /\ Len(q) = l
  <2>1. q \in [1..l -> Entry]
    BY <1>3, <1>5
  <2> QED BY <1>1, <2>1, LenProperties
<1>7. \A i \in 1..Len(q) : /\ q[i].at = n /\ e <= q[i].for /\ q[i].for <= e /\ ForIsRight(q[i])
                           /\ \E j \in 1..Len(b) : q[i].h = b[j]
  <2> TAKE i \in 1..Len(q)
  <2>1. i \in 1..l
    BY <1>6
  <2>2. q[i].at = n /\ q[i].for = e /\ q[i].h = list[i]
    BY <1>5, <2>1
  <2>3. e = IF list[i].selector = NotDelegated THEN n ELSE list[i].selector
    BY <1>1, <2>1
  <2>4. ForIsRight(q[i])
    BY <2>2, <2>3, Zenon DEF ForIsRight
  <2>5. e <= e
    OBVIOUS
  <2>6. \E j \in 1..Len(b) : list[i] = b[j]
    BY <1>1, <2>1
  <2> QED BY <2>2, <2>4, <2>5, <2>6
<1>8. Ordered(q)
  <2> SUFFICES ASSUME NEW i \in 1..Len(q), NEW j \in 1..Len(q), i < j PROVE Before(q[i], q[j])
    BY DEF Ordered
  <2>1. i \in 1..l /\ j \in 1..l
    BY <1>6
  <2>2. list[i].id < list[j].id
    BY <1>1, <2>1
  <2> QED BY <1>5, <2>1, <2>2 DEF Before
<1> QED BY <1>2, <1>6, <1>7, <1>8 DEF Batches, IsBatch

\* One of the two parts of a list, and what is kept of it.
IsPart(part, b, dc, from) ==
    \A i \in 1..Len(part) : /\ part[i] = b[from + i] /\ from + i \in 1..Len(b)
                            /\ from + i <= dc \/ dc <= from
IsKeptPart(k, keep, b, dc, from) ==
    /\ \A i \in 1..Len(k) : /\ k[i] \in keep
                            /\ \E j \in 1..Len(b) : k[i] = b[j] /\ (j <= dc <=> ~(dc <= from))
    /\ \A i, j \in 1..Len(k) : i < j => k[i].id < k[j].id

LEMMA KeptOfPart ==
    ASSUME NEW b \in Seq(Handle), NEW dc \in Nat, NEW n, NEW top, ListInv(b, dc, n, top),
           NEW part \in Seq(Handle), NEW from \in Nat, IsPart(part, b, dc, from), NEW keep
    PROVE  IsKeptPart(Kept(part, keep), keep, b, dc, from)
<1>1. PICK k \in Seq(Handle) : k = Kept(part, keep)
  BY KeptTyped
<1>2. PICK at : Embeds(at, k, part, keep)
  BY <1>1, KeptEmbeds
<1>3. /\ \A i \in 1..Len(k) : at[i] \in 1..Len(part) /\ k[i] = part[at[i]] /\ k[i] \in keep
      /\ \A i, j \in 1..Len(k) : i < j => at[i] < at[j]
  BY <1>2 DEF Embeds
<1>4. \A i \in 1..Len(k) :
          /\ k[i] = b[from + at[i]] /\ from + at[i] \in 1..Len(b)
          /\ from + at[i] <= dc \/ dc <= from
  BY <1>3 DEF IsPart
<1>5. \A i \in 1..Len(k) : from + at[i] <= dc <=> ~(dc <= from)
  <2> TAKE i \in 1..Len(k)
  <2>1. PICK a \in 1..Len(part) : a = at[i] /\ (from + a <= dc \/ dc <= from)
    BY <1>3, <1>4
  <2>2. a \in Nat /\ 1 <= a
    OBVIOUS
  <2> QED BY <2>1, <2>2
<1>6. \A i, j \in 1..Len(k) : i < j => k[i].id < k[j].id
  <2> TAKE i \in 1..Len(k), j \in 1..Len(k)
  <2> HAVE i < j
  <2>1. PICK ii \in 1..Len(b) : ii = from + at[i]
    BY <1>4
  <2>2. PICK jj \in 1..Len(b) : jj = from + at[j]
    BY <1>4
  <2>3. ii < jj
    BY <1>3, <2>1, <2>2
  <2>4. jj <= dc \/ dc < ii
    BY <1>3, <1>4, <2>1, <2>2
  <2>5. b[ii].id < b[jj].id
    BY <2>3, <2>4 DEF ListInv
  <2> QED BY <1>4, <2>1, <2>2, <2>5
<1> QED BY <1>1, <1>3, <1>4, <1>5, <1>6 DEF IsKeptPart

LEMMA QueueFacts ==
    ASSUME EventTypes, NEW n \in Element, NEW target \in Element, target <= n,
           ListInv(bound[n], delegateCount[n], n, binds), NEW ns
    PROVE  HandlerQueue(n, target, ns) \in Batches(n, bound[n], target, n)
<1>1. PICK b \in Seq(Handle) : b = bound[n]
  BY DEF EventTypes
<1>2. PICK dc \in Nat : dc = delegateCount[n]
  BY DEF EventTypes
<1>3. ListInv(b, dc, n, binds)
  BY <1>1, <1>2
<1>4. dc <= Len(b) /\ n \in Nat /\ target \in Nat /\ 1 <= target
  BY <1>3 DEF ListInv, Element
<1>5. PICK x, y \in Seq(Handle) : IsSplit(b, dc, x, y)
  BY <1>4, SplitFacts
<1>6. \A i \in 1..Len(b) : b[i].selector # NotDelegated <=> i <= dc
  BY <1>3 DEF ListInv
<1>7. /\ Len(x) = dc /\ \A i \in 1..dc : x[i] = b[i]
      /\ Len(y) = Len(b) - dc /\ \A i \in 1..(Len(b) - dc) : y[i] = b[dc + i]
  BY <1>5 DEF IsSplit
<1> DEFINE runs == {h \in ToSet(bound[n]) : ns \in {NoSpace, h.namespace}}
           Selected(e) == {h \in runs : h.selector = e}
           Matched(e) == CallsFor(n, e, Kept(x, Selected(e)))
<1>8. ASSUME NEW e \in Nat, 1 <= e PROVE Matched(e) \in Batches(n, b, e, e)
  <2>1. PICK keep : keep = Selected(e)
    OBVIOUS
  <2>2. \A h \in keep : h.selector = e
    BY <2>1
  <2>3. IsPart(x, b, dc, 0)
    BY <1>4, <1>7 DEF IsPart
  <2>4. PICK k \in Seq(Handle) : k = Kept(x, keep)
    BY KeptTyped
  <2> HIDE DEF Selected
  <2>5. /\ \A i \in 1..Len(k) : k[i] \in keep /\ \E j \in 1..Len(b) : k[i] = b[j]
        /\ \A i, j \in 1..Len(k) : i < j => k[i].id < k[j].id
    <3>1. IsKeptPart(k, keep, b, dc, 0)
      BY <1>3, <2>3, <2>4, KeptOfPart
    <3> QED BY <3>1 DEF IsKeptPart
  <2>6. \A i \in 1..Len(k) : e = IF k[i].selector = NotDelegated THEN n ELSE k[i].selector
    <3> TAKE i \in 1..Len(k)
    <3>1. k[i].selector = e /\ e # NotDelegated
      BY <1>8, <2>2, <2>5 DEF NotDelegated
    <3> QED BY <3>1
  <2>7. CallsFor(n, e, k) \in Batches(n, b, e, e)
    BY <2>5, <2>6, CallsForBatch
  <2> QED BY <2>1, <2>4, <2>7
<1>9. CallsFor(n, n, Kept(y, runs)) \in Batches(n, b, n, n)
  <2>1. PICK keep : keep = runs
    OBVIOUS
  <2>2. IsPart(y, b, dc, dc)
    BY <1>4, <1>7 DEF IsPart
  <2>3. PICK k \in Seq(Handle) : k = Kept(y, keep)
    BY KeptTyped
  <2> HIDE DEF runs
  <2>4. /\ \A i \in 1..Len(k) : \E j \in 1..Len(b) : k[i] = b[j] /\ (j <= dc <=> ~(dc <= dc))
        /\ \A i, j \in 1..Len(k) : i < j => k[i].id < k[j].id
    <3>1. IsKeptPart(k, keep, b, dc, dc)
      BY <1>3, <2>2, <2>3, KeptOfPart
    <3> QED BY <3>1 DEF IsKeptPart
  <2>5. \A i \in 1..Len(k) : k[i].selector = NotDelegated /\ \E j \in 1..Len(b) : k[i] = b[j]
    BY <1>6, <2>4
  <2>6. \A i \in 1..Len(k) : n = IF k[i].selector = NotDelegated THEN n ELSE k[i].selector
    BY <2>5
  <2>7. CallsFor(n, n, k) \in Batches(n, b, n, n)
    BY <1>4, <2>4, <2>5, <2>6, CallsForBatch
  <2> QED BY <2>1, <2>3, <2>7
<1>10. x = SubSeq(bound[n], 1, delegateCount[n]) /\ y = SubSeq(bound[n], delegateCount[n] + 1, Len(bound[n]))
  BY <1>1, <1>2, <1>5 DEF IsSplit
<1> DEFINE seqs == [i \in 1..(n - target) |-> Matched(target + i - 1)]
           last == CallsFor(n, n, Kept(y, runs))
<1>11. HandlerQueue(n, target, ns) = FlattenSeq(seqs) \o last
  BY <1>10, Zenon DEF HandlerQueue
<1> HIDE DEF Matched, last
<1>12. CASE target = n
  <2>1. seqs = <<>>
    BY <1>4, <1>12
  <2>2. FlattenSeq(seqs) = <<>>
    BY <2>1 DEF FlattenSeq
  <2>3. last \in Batches(n, b, n, n) /\ last \in Seq(Entry)
    BY <1>9 DEF last, Batches
  <2>4. <<>> \o last = last
    BY <2>3, ConcatEmptySeq
  <2> QED BY <1>1, <1>11, <1>12, <2>2, <2>3, <2>4, Zenon
<1>13. CASE target # n
  <2>1. PICK m \in Nat : m = n - target /\ m # 0 /\ target + m - 1 = n - 1 /\ n - 1 \in Nat
                         /\ target + 1 - 1 = target
    BY <1>4, <1>13
  <2> DEFINE within == [i \in 1..m |-> Batches(n, b, target, target + i - 1)]
  <2>2. \A i \in 1..m : seqs[i] = Matched(target + i - 1) /\ within[i] = Batches(n, b, target, target + i - 1)
    BY <2>1
  <2>3. Len(seqs) = m
    <3>1. DOMAIN seqs = 1..m
      BY <2>1
    <3>2. seqs \in [1..m -> {Matched(target + i - 1) : i \in 1..m}]
      BY <2>1
    <3> QED BY <2>1, <3>1, <3>2
  <2>4. \A i \in 1..m : target + i - 1 \in Nat /\ 1 <= target + i - 1
    BY <1>4
  <2>5. \A i \in 1..m : seqs[i] \in Batches(n, b, target + i - 1, target + i - 1)
    BY <1>8, <2>2, <2>4
  <2>6. seqs[1] \in within[1]
    BY <2>1, <2>2, <2>5
  <2>7. ASSUME NEW i \in 2..m, NEW s \in within[i - 1] PROVE s \o seqs[i] \in within[i]
    <3>1. PICK to \in Nat : to = target + (i - 1) - 1 /\ to + 1 = target + i - 1 /\ target <= to + 1
      BY <1>4
    <3>2. i \in 1..m /\ i - 1 \in 1..m
      OBVIOUS
    <3>3. s \in Batches(n, b, target, to)
      BY <2>2, <2>7, <3>1, <3>2
    <3>4. seqs[i] \in Batches(n, b, to + 1, to + 1)
      BY <2>5, <3>1, <3>2
    <3>5. to <= to + 1 /\ to + 1 \in Nat
      BY <3>1
    <3>6. s \o seqs[i] \in Batches(n, b, target, to + 1)
      BY <1>4, <3>1, <3>3, <3>4, <3>5, BatchesJoin
    <3> QED BY <2>2, <3>1, <3>2, <3>6
  <2> HIDE DEF seqs, within
  <2>8. FlattenSeq(seqs) \in within[m]
    BY <2>1, <2>3, <2>6, <2>7, FlattenStays
  <2>9. FlattenSeq(seqs) \in Batches(n, b, target, n - 1)
    BY <2>1, <2>2, <2>8
  <2>10. last \in Batches(n, b, n - 1 + 1, n)
    BY <1>4, <1>9 DEF last
  <2>11. target <= n - 1 + 1 /\ n - 1 <= n
    BY <1>4
  <2>12. FlattenSeq(seqs) \o last \in Batches(n, b, target, n)
    BY <1>4, <2>1, <2>9, <2>10, <2>11, BatchesJoin
  <2> QED BY <1>1, <1>11, <2>12, Zenon
<1> QED BY <1>12, <1>13

-----------------------------------------------------------------------------
\* The stack of events after its last one became e, or e was put on it.
Holds(t, s, e) ==
    /\ t \in Seq(EventRecord) /\ Len(t) # 0 /\ t[Len(t)] = e
    /\ \A i \in 1..(Len(t) - 1) : i \in 1..Len(s) /\ t[i] = s[i]

LEMMA LastEventFacts ==
    ASSUME NEW s \in Seq(EventRecord), s # <<>>
    PROVE  /\ Len(s) - 1 \in Nat /\ Len(s) \in 1..Len(s) /\ Last(s) = s[Len(s)] /\ Last(s) \in EventRecord
           /\ Front(s) \in Seq(EventRecord) /\ Len(Front(s)) = Len(s) - 1
           /\ \A i \in 1..(Len(s) - 1) : i \in 1..Len(s) /\ Front(s)[i] = s[i]
<1>1. PICK m \in Nat : Len(s) = m + 1
  <2>1. Len(s) \in Nat /\ Len(s) # 0
    BY EmptySeq
  <2>2. Len(s) - 1 \in Nat /\ Len(s) = (Len(s) - 1) + 1
    BY <2>1
  <2> QED BY <2>2
<1>2. PICK x, y \in Seq(EventRecord) : IsSplit(s, m, x, y)
  BY <1>1, SplitFacts
<1>3. Len(s) - 1 = m
  BY <1>1
<1>4. Front(s) = SubSeq(s, 1, Len(s) - 1)
  BY Zenon DEF Front
<1>5. Front(s) = x /\ Len(x) = m /\ \A i \in 1..m : x[i] = s[i]
  BY <1>2, <1>3, <1>4 DEF IsSplit
<1>6. Len(s) \in 1..Len(s) /\ Last(s) = s[Len(s)]
  BY <1>1 DEF Last
<1> QED BY <1>1, <1>3, <1>5, <1>6

LEMMA BecomesHolds ==
    ASSUME events \in Seq(EventRecord), events # <<>>, NEW e \in EventRecord, Becomes(e)
    PROVE  Holds(events', events, e) /\ Len(events') = Len(events)
<1>1. PICK f \in Seq(EventRecord) : f = Front(events)
  BY LastEventFacts
<1>2. PICK n \in Nat : n = Len(f) /\ Len(events) = n + 1
  BY <1>1, LastEventFacts
<1>3. \A i \in 1..n : i \in 1..Len(events) /\ f[i] = events[i]
  BY <1>1, <1>2, LastEventFacts
<1>4. events' = Append(f, e)
  BY <1>1 DEF Becomes
<1>5. events' \in Seq(EventRecord) /\ Len(events') = n + 1 /\ events'[n + 1] = e
      /\ \A i \in 1..n : events'[i] = f[i]
  BY <1>2, <1>4, AppendProperties
<1>6. Len(events') - 1 = n /\ Len(events') # 0
  BY <1>5
<1> QED BY <1>2, <1>3, <1>5, <1>6 DEF Holds

LEMMA AppendHolds ==
    ASSUME events \in Seq(EventRecord), NEW e \in EventRecord, events' = Append(events, e)
    PROVE  Holds(events', events, e) /\ Len(events') = Len(events) + 1
<1>1. PICK n \in Nat : n = Len(events)
  OBVIOUS
<1>2. events' \in Seq(EventRecord) /\ Len(events') = n + 1 /\ events'[n + 1] = e
      /\ \A i \in 1..n : events'[i] = events[i]
  BY <1>1, AppendProperties
<1>3. Len(events') - 1 = n /\ Len(events') # 0
  BY <1>2
<1> QED BY <1>1, <1>2, <1>3 DEF Holds

\* What is left to call after the first of it.
LEMMA RestOfQueue ==
    ASSUME NEW q \in Seq(Entry), q # <<>>
    PROVE  /\ Head(q) = q[1] /\ q[1] \in Entry /\ 1 \in 1..Len(q)
           /\ Tail(q) \in Seq(Entry)
           /\ \A i \in 1..Len(Tail(q)) : i + 1 \in 1..Len(q) /\ Tail(q)[i] = q[i + 1] /\ 1 < i + 1
<1>1. Len(q) \in Nat /\ Len(q) # 0
  BY EmptySeq
<1>2. Tail(q) \in Seq(Entry) /\ Len(Tail(q)) = Len(q) - 1 /\ \A i \in 1..Len(Tail(q)) : Tail(q)[i] = q[i + 1]
  BY HeadTailProperties
<1>3. \A i \in 1..Len(Tail(q)) : i + 1 \in 1..Len(q) /\ 1 < i + 1
  BY <1>1, <1>2
<1>4. 1 \in 1..Len(q) /\ Head(q) = q[1]
  BY <1>1
<1> QED BY <1>2, <1>3, <1>4

\* A queue that lost some of its entries.
Thinned(p, q) ==
    \E at : /\ \A i \in 1..Len(p) : at[i] \in 1..Len(q) /\ p[i] = q[at[i]]
            /\ \A i, j \in 1..Len(p) : i < j => at[i] < at[j]

LEMMA ThinnedFacts ==
    ASSUME NEW q \in Seq(Entry)
    PROVE  /\ Thinned(q, q) /\ Thinned(<<>>, q)
           /\ q # <<>> => Thinned(Tail(q), q)
           /\ \A keep : Kept(q, keep) \in Seq(Entry) /\ Thinned(Kept(q, keep), q)
<1>1. Thinned(q, q)
  <2>1. PICK at : at = [i \in 1..Len(q) |-> i]
    OBVIOUS
  <2>2. \A i \in 1..Len(q) : at[i] = i
    BY <2>1
  <2> QED BY <2>2 DEF Thinned
<1>2. Thinned(<<>>, q)
  <2>1. \A i \in 1..Len(<<>>) : FALSE
    OBVIOUS
  <2> QED BY <2>1 DEF Thinned
<1>3. ASSUME q # <<>> PROVE Thinned(Tail(q), q)
  <2>1. PICK p \in Seq(Entry) : p = Tail(q)
    BY <1>3, RestOfQueue
  <2>2. \A i \in 1..Len(p) : i + 1 \in 1..Len(q) /\ p[i] = q[i + 1]
    BY <1>3, <2>1, RestOfQueue
  <2>3. PICK at : at = [i \in 1..Len(p) |-> i + 1]
    OBVIOUS
  <2>4. \A i \in 1..Len(p) : at[i] = i + 1
    BY <2>3
  <2>5. /\ \A i \in 1..Len(p) : at[i] \in 1..Len(q) /\ p[i] = q[at[i]]
        /\ \A i, j \in 1..Len(p) : i < j => at[i] < at[j]
    BY <2>2, <2>4
  <2>6. Thinned(p, q)
    BY <2>5 DEF Thinned
  <2> QED BY <2>1, <2>6
<1>4. ASSUME NEW keep PROVE Kept(q, keep) \in Seq(Entry) /\ Thinned(Kept(q, keep), q)
  <2>1. PICK at : Embeds(at, Kept(q, keep), q, keep)
    BY KeptEmbeds
  <2>2. PICK p \in Seq(Entry) : p = Kept(q, keep)
    BY KeptTyped
  <2>3. /\ \A i \in 1..Len(p) : at[i] \in 1..Len(q) /\ p[i] = q[at[i]]
        /\ \A i, j \in 1..Len(p) : i < j => at[i] < at[j]
    BY <2>1, <2>2 DEF Embeds
  <2>4. Thinned(p, q)
    BY <2>3 DEF Thinned
  <2> QED BY <2>2, <2>4
<1> QED BY <1>1, <1>2, <1>3, <1>4

LEMMA NewQueue ==
    ASSUME EventTypes, BoundInv, NEW n \in Element, NEW target \in Element, target <= n, NEW ns,
           NEW q, q = HandlerQueue(n, target, ns)
    PROVE  /\ q \in Seq(Entry) /\ Ordered(q)
           /\ \A i \in 1..Len(q) : q[i].at = n /\ ForIsRight(q[i]) /\ \E j \in 1..Len(bound[n]) : q[i].h = bound[n][j]
<1>1. ListInv(bound[n], delegateCount[n], n, binds)
  BY DEF BoundInv
<1>2. q \in Batches(n, bound[n], target, n)
  BY <1>1, QueueFacts
<1> QED BY <1>2 DEF Batches, IsBatch

-----------------------------------------------------------------------------
\* One event.
LEMMA ThinnedOrder ==
    ASSUME NEW e \in EventRecord, EventOrder(e), NEW f \in EventRecord,
           f.called = e.called, f.at = e.at, f.target = e.target, Thinned(f.queue, e.queue)
    PROVE  EventOrder(f)
<1>1. PICK at : /\ \A i \in 1..Len(f.queue) : at[i] \in 1..Len(e.queue) /\ f.queue[i] = e.queue[at[i]]
                /\ \A i, j \in 1..Len(f.queue) : i < j => at[i] < at[j]
  BY DEF Thinned
<1>2. \A i \in 1..Len(f.queue) : ForIsRight(f.queue[i]) /\ f.queue[i].at = f.at
  BY <1>1 DEF EventOrder
<1>3. Ordered(f.queue)
  BY <1>1 DEF EventOrder, Ordered
<1>4. \A i \in 1..Len(f.called), j \in 1..Len(f.queue) : Before(f.called[i], f.queue[j])
  BY <1>1 DEF EventOrder
<1>5. /\ \A i \in 1..Len(f.called) : ForIsRight(f.called[i]) /\ f.called[i].at <= f.at
      /\ Ordered(f.called) /\ f.target <= f.at
  BY DEF EventOrder
<1> QED BY <1>2, <1>3, <1>4, <1>5 DEF EventOrder

LEMMA CallOrder ==
    ASSUME NEW e \in EventRecord, EventOrder(e), e.queue # <<>>,
           NEW next, next = Head(e.queue), NEW f, f = Call(e, next)
    PROVE  /\ next \in Entry /\ next = e.queue[1] /\ next.h \in Handle
           /\ f \in EventRecord /\ EventOrder(f) /\ f.queue = Tail(e.queue)
<1>1. /\ e.queue \in Seq(Entry) /\ e.called \in Seq(Entry) /\ e.at \in Nat /\ e.target \in Nat
  BY DEF EventRecord, Element
<1>2. /\ next = e.queue[1] /\ next \in Entry /\ 1 \in 1..Len(e.queue)
      /\ Tail(e.queue) \in Seq(Entry)
      /\ \A i \in 1..Len(Tail(e.queue)) : i + 1 \in 1..Len(e.queue) /\ Tail(e.queue)[i] = e.queue[i + 1] /\ 1 < i + 1
  BY <1>1, RestOfQueue
<1>3. next.h \in Handle /\ next.h.id \in Nat /\ next.at \in Nat
  BY <1>2 DEF Entry, Handle, Element
<1>4. PICK c \in Seq(Entry) : c = Append(e.called, next)
  BY <1>1, <1>2, AppendProperties
<1>5. PICK n \in Nat : n = Len(e.called)
  BY <1>1
<1>6. Len(c) = n + 1 /\ c[n + 1] = next /\ \A i \in 1..n : c[i] = e.called[i]
  BY <1>1, <1>2, <1>4, <1>5, AppendProperties
<1>7. f = [e EXCEPT !.queue = Tail(e.queue), !.running = next.h.id, !.called = c]
  BY <1>4 DEF Call
<1>8. /\ f \in EventRecord /\ f.queue = Tail(e.queue) /\ f.called = c /\ f.at = e.at /\ f.target = e.target
  BY <1>2, <1>3, <1>7 DEF EventRecord
<1>9. \A i \in 1..Len(c) : i = n + 1 \/ i \in 1..n
  BY <1>6
<1>10. /\ \A i \in 1..n : ForIsRight(e.called[i]) /\ e.called[i].at <= e.at /\ Before(e.called[i], next)
       /\ \A i, j \in 1..n : i < j => Before(e.called[i], e.called[j])
  BY <1>2, <1>5 DEF EventOrder, Ordered
<1>11. ForIsRight(next) /\ next.at = e.at
  BY <1>2 DEF EventOrder
<1>12. \A i \in 1..Len(c) : ForIsRight(c[i]) /\ c[i].at <= f.at
  BY <1>1, <1>3, <1>6, <1>8, <1>9, <1>10, <1>11
<1>13. Ordered(c)
  <2> SUFFICES ASSUME NEW i \in 1..Len(c), NEW j \in 1..Len(c), i < j PROVE Before(c[i], c[j])
    BY DEF Ordered
  <2>1. i \in 1..n
    BY <1>6
  <2> QED BY <1>6, <1>9, <1>10, <2>1
<1>14. \A j \in 1..Len(f.queue) : /\ ForIsRight(f.queue[j]) /\ f.queue[j].at = e.at /\ Before(next, f.queue[j])
                                  /\ \A i \in 1..n : Before(e.called[i], f.queue[j])
  <2> TAKE j \in 1..Len(f.queue)
  <2>1. PICK k \in 1..Len(e.queue) : f.queue[j] = e.queue[k] /\ 1 < k
    BY <1>2, <1>8
  <2> QED BY <1>2, <1>5, <2>1 DEF EventOrder, Ordered
<1>15. Ordered(f.queue)
  <2> SUFFICES ASSUME NEW i \in 1..Len(f.queue), NEW j \in 1..Len(f.queue), i < j
               PROVE  Before(f.queue[i], f.queue[j])
    BY DEF Ordered
  <2>1. i + 1 \in 1..Len(e.queue) /\ j + 1 \in 1..Len(e.queue) /\ i + 1 < j + 1
        /\ f.queue[i] = e.queue[i + 1] /\ f.queue[j] = e.queue[j + 1]
    <3>1. PICK t \in Seq(Entry) : t = Tail(e.queue) /\ t = f.queue
      BY <1>2, <1>8
    <3>2. i \in Nat /\ j \in Nat /\ i + 1 < j + 1
      BY <3>1
    <3> QED BY <1>2, <3>1, <3>2
  <2> QED BY <2>1 DEF EventOrder, Ordered
<1>16. \A i \in 1..Len(c), j \in 1..Len(f.queue) : Before(c[i], f.queue[j])
  BY <1>6, <1>9, <1>14
<1>17. EventOrder(f)
  BY <1>8, <1>12, <1>13, <1>14, <1>15, <1>16 DEF EventOrder
<1> QED BY <1>2, <1>3, <1>8, <1>17

\* The queue of an event is made of what is bound now to the element it is at.
IsCurrent(f) == \A i \in 1..Len(f.queue) : \E j \in 1..Len(bound[f.at]) : f.queue[i].h = bound[f.at][j]

LEMMA BubbleOrder ==
    ASSUME EventTypes, BoundInv, EventsAssumption, NEW e \in EventRecord, EventOrder(e), e.queue = <<>>, e.at # Depth,
           NEW f, f = [e EXCEPT !.at = @ + 1, !.queue = HandlerQueue(e.at + 1, e.target, e.namespace)]
    PROVE  /\ f \in EventRecord /\ EventOrder(f) /\ f.at \in Element
           /\ IsCurrent(f)
<1>1. e.at \in Element /\ e.target \in Element /\ e.called \in Seq(Entry) /\ e.target <= e.at
  BY DEF EventRecord, EventOrder
<1>2. PICK n \in Element : n = e.at + 1 /\ e.target <= n
  <2>1. e.at + 1 \in Element /\ e.target <= e.at + 1
    BY <1>1 DEF Element, EventsAssumption
  <2> QED BY <2>1
<1>3. PICK q \in Seq(Entry) : /\ q = HandlerQueue(n, e.target, e.namespace) /\ Ordered(q)
          /\ \A i \in 1..Len(q) : q[i].at = n /\ ForIsRight(q[i]) /\ \E j \in 1..Len(bound[n]) : q[i].h = bound[n][j]
  BY <1>1, <1>2, NewQueue
<1>4. f = [e EXCEPT !.at = n, !.queue = q]
  BY <1>2, <1>3
<1>5. f \in EventRecord /\ f.queue = q /\ f.called = e.called /\ f.at = n /\ f.target = e.target
  BY <1>4 DEF EventRecord
<1>6. \A i \in 1..Len(e.called) : ForIsRight(e.called[i]) /\ e.called[i].at <= e.at
  BY DEF EventOrder
<1>7. \A i \in 1..Len(e.called) : e.called[i].at < n /\ e.called[i].at <= n
  <2>1. \A i \in 1..Len(e.called) : e.called[i].at \in Nat
    <3>1. \A i \in 1..Len(e.called) : e.called[i] \in Entry
      BY <1>1
    <3> QED BY <3>1 DEF Entry, Element
  <2> QED BY <1>1, <1>2, <1>6, <2>1 DEF Element
<1>8. \A i \in 1..Len(e.called), j \in 1..Len(q) : Before(e.called[i], q[j])
  BY <1>3, <1>7 DEF Before
<1>9. Ordered(e.called)
  BY DEF EventOrder
<1>10. EventOrder(f)
  BY <1>2, <1>3, <1>5, <1>6, <1>7, <1>8, <1>9 DEF EventOrder
<1> QED BY <1>3, <1>5, <1>10 DEF IsCurrent

\* An event as trigger() makes it.
Fresh(f, n, ns) ==
    f = [target |-> n, namespace |-> ns, at |-> n, queue |-> HandlerQueue(n, n, ns),
         stopped |-> FALSE, running |-> 0, called |-> <<>>]

LEMMA FreshOrder ==
    ASSUME EventTypes, BoundInv, NEW n \in Element, NEW ns \in Space, NEW f, Fresh(f, n, ns)
    PROVE  /\ f \in EventRecord /\ EventOrder(f) /\ f.at \in Element
           /\ IsCurrent(f)
<1>1. PICK q \in Seq(Entry) : /\ q = HandlerQueue(n, n, ns) /\ Ordered(q)
          /\ \A i \in 1..Len(q) : q[i].at = n /\ ForIsRight(q[i]) /\ \E j \in 1..Len(bound[n]) : q[i].h = bound[n][j]
  <2>1. n <= n
    BY DEF Element
  <2> QED BY <2>1, NewQueue
<1>2. PICK c : c = <<>> /\ c \in Seq(Entry)
  BY EmptySeq
<1>3. \A i \in 1..Len(c) : FALSE
  BY <1>2
<1>4. f = [target |-> n, namespace |-> ns, at |-> n, queue |-> q, stopped |-> FALSE, running |-> 0, called |-> c]
  BY <1>1, <1>2 DEF Fresh
<1>5. f \in EventRecord /\ f.queue = q /\ f.called = c /\ f.at = n /\ f.target = n
  BY <1>2, <1>4 DEF EventRecord
<1>6. n <= n
  BY DEF Element
<1>7. EventOrder(f)
  BY <1>1, <1>3, <1>5, <1>6 DEF EventOrder, Ordered
<1> QED BY <1>1, <1>5, <1>7 DEF IsCurrent

-----------------------------------------------------------------------------
\* The lists when something is bound or unbound.
LEMMA LaterList ==
    ASSUME NEW b \in Seq(Handle), NEW dc, NEW n, NEW top \in Nat, NEW later \in Nat, top <= later,
           ListInv(b, dc, n, top)
    PROVE  ListInv(b, dc, n, later)
<1>1. \A i \in 1..Len(b) : b[i].id \in Nat
  <2>1. \A i \in 1..Len(b) : b[i] \in Handle
    OBVIOUS
  <2> QED BY <2>1 DEF Handle
<1> QED BY <1>1 DEF ListInv

LEMMA OnKeeps ==
    ASSUME EventTypes, BoundInv, NEW n \in Element, On(n)
    PROVE  /\ bound' \in [Element -> Seq(Handle)] /\ delegateCount' \in [Element -> Nat]
           /\ binds' = binds + 1 /\ BoundInv'
           /\ \A m \in Element : \A i \in 1..Len(bound'[m]) :
                 bound'[m][i].id = binds + 1 \/ Among(bound'[m][i], bound[m])
<1>1. PICK top \in Nat : top = binds
  BY DEF EventTypes
<1>2. PICK h \in Handle : /\ h.id = top + 1 /\ h.selector < n
          /\ bound' = [bound EXCEPT ![n] = Add(@, h, delegateCount[n])]
          /\ delegateCount' = [delegateCount EXCEPT ![n] = IF h.selector = NotDelegated THEN @ ELSE @ + 1]
  <2>1. binds' = top + 1
    BY <1>1 DEF On, Bind
  <2>2. PICK f \in Fn, s \in {NotDelegated} \cup 1..(n - 1), ns \in Space, one \in BOOLEAN :
          /\ bound' = [bound EXCEPT ![n] =
                Add(@, [id |-> binds', fn |-> f, selector |-> s, namespace |-> ns, one |-> one], delegateCount[n])]
          /\ delegateCount' = [delegateCount EXCEPT ![n] = IF s = NotDelegated THEN @ ELSE @ + 1]
    BY DEF On
  <2>3. PICK h : h = [id |-> top + 1, fn |-> f, selector |-> s, namespace |-> ns, one |-> one]
    OBVIOUS
  <2>4. s \in Nat /\ s < n
    BY DEF NotDelegated, Element
  <2>5. h \in Handle /\ h.id = top + 1 /\ h.selector = s
    BY <2>3, <2>4 DEF Handle
  <2> QED BY <2>1, <2>2, <2>3, <2>4, <2>5
<1>3. PICK b \in Seq(Handle) : b = bound[n]
  BY DEF EventTypes
<1>4. PICK dc \in Nat : dc = delegateCount[n]
  BY DEF EventTypes
<1>5. PICK k \in Nat : (h.selector = NotDelegated => k = dc) /\ (h.selector # NotDelegated => k = dc + 1)
                       /\ delegateCount' = [delegateCount EXCEPT ![n] = k]
  <2>1. CASE h.selector = NotDelegated
    BY <1>2, <1>4, <2>1
  <2>2. CASE h.selector # NotDelegated
    <3>1. PICK k \in Nat : k = dc + 1
      OBVIOUS
    <3> QED BY <1>2, <1>4, <2>2, <3>1
  <2> QED BY <2>1, <2>2
<1>6. PICK c : IsAdded(c, b, h, dc) /\ bound' = [bound EXCEPT ![n] = c]
  BY <1>2, <1>3, <1>4 DEF IsAdded
<1>7. ListInv(b, dc, n, top)
  BY <1>1, <1>3, <1>4 DEF BoundInv
<1>8. /\ c \in Seq(Handle) /\ ListInv(c, k, n, top + 1)
      /\ \A i \in 1..Len(c) : c[i] = h \/ \E j \in 1..Len(b) : c[i] = b[j]
  BY <1>2, <1>5, <1>6, <1>7, AddFacts
<1>9. /\ bound' \in [Element -> Seq(Handle)] /\ bound'[n] = c
      /\ \A m \in Element : m # n => bound'[m] = bound[m]
  BY <1>6, <1>8 DEF EventTypes
<1>10. /\ delegateCount' \in [Element -> Nat] /\ delegateCount'[n] = k
       /\ \A m \in Element : m # n => delegateCount'[m] = delegateCount[m]
  BY <1>5 DEF EventTypes
<1>11. binds' = top + 1
  BY <1>1 DEF On, Bind
<1>12. \A m \in Element : \A i \in 1..Len(bound'[m]) :
          (bound'[m][i].id = top + 1 /\ m = n) \/ \E j \in 1..Len(bound[m]) : bound'[m][i] = bound[m][j]
  BY <1>2, <1>3, <1>8, <1>9
<1>13. ASSUME NEW m \in Element PROVE ListInv(bound'[m], delegateCount'[m], m, binds')
  <2>1. CASE m = n
    BY <1>8, <1>9, <1>10, <1>11, <2>1
  <2>2. CASE m # n
    <3>1. bound[m] \in Seq(Handle) /\ top <= top + 1 /\ top + 1 \in Nat
      BY DEF EventTypes
    <3>2. ListInv(bound[m], delegateCount[m], m, top)
      BY <1>1 DEF BoundInv
    <3>3. ListInv(bound[m], delegateCount[m], m, top + 1)
      BY <3>1, <3>2, LaterList
    <3> QED BY <1>9, <1>10, <1>11, <2>2, <3>3
  <2> QED BY <2>1, <2>2
<1>14. \A m \in Element : \A i \in 1..Len(bound[m]) : bound[m][i].id # top + 1
  <2>1. \A m \in Element : \A i \in 1..Len(bound[m]) : bound[m][i].id <= top
    BY <1>1 DEF BoundInv, ListInv
  <2>2. \A m \in Element : \A i \in 1..Len(bound[m]) : bound[m][i].id \in Nat
    <3>1. \A m \in Element : \A i \in 1..Len(bound[m]) : bound[m][i] \in Handle
      BY DEF EventTypes
    <3> QED BY <3>1 DEF Handle
  <2> QED BY <2>1, <2>2
<1>15. ASSUME NEW m1 \in Element, NEW m2 \in Element, m1 # m2,
              NEW i \in 1..Len(bound'[m1]), NEW j \in 1..Len(bound'[m2])
       PROVE  bound'[m1][i].id # bound'[m2][j].id
  <2>1. CASE bound'[m1][i].id = top + 1 /\ m1 = n
    BY <1>12, <1>14, <1>15, <2>1
  <2>2. CASE bound'[m2][j].id = top + 1 /\ m2 = n
    BY <1>12, <1>14, <1>15, <2>2
  <2>3. CASE /\ \E ii \in 1..Len(bound[m1]) : bound'[m1][i] = bound[m1][ii]
             /\ \E jj \in 1..Len(bound[m2]) : bound'[m2][j] = bound[m2][jj]
    BY <1>15, <2>3 DEF BoundInv
  <2> QED BY <1>12, <2>1, <2>2, <2>3
<1>16. BoundInv'
  BY <1>13, <1>15 DEF BoundInv
<1> QED BY <1>1, <1>9, <1>10, <1>11, <1>12, <1>16 DEF Among

LEMMA RemoveAllKeeps ==
    ASSUME EventTypes, BoundInv, NEW n \in Element, NEW gone, gone \subseteq ToSet(bound[n]),
           RemoveAll(n, gone), binds' \in Nat, binds <= binds'
    PROVE  /\ bound' \in [Element -> Seq(Handle)] /\ delegateCount' \in [Element -> Nat]
           /\ BoundInv'
           /\ \A m \in Element : \A i \in 1..Len(bound'[m]) :
                 /\ Among(bound'[m][i], bound[m])
                 /\ m = n => bound'[m][i] \notin gone
<1>1. PICK top \in Nat : top = binds
  BY DEF EventTypes
<1>2. PICK later \in Nat : later = binds' /\ top <= later
  BY <1>1
<1>3. PICK b \in Seq(Handle) : b = bound[n]
  BY DEF EventTypes
<1>4. PICK dc \in Nat : dc = delegateCount[n]
  BY DEF EventTypes
<1>5. PICK c : IsKept(c, b, gone) /\ bound' = [bound EXCEPT ![n] = c]
  BY <1>3 DEF IsKept, RemoveAll
<1>6. PICK k : IsCount(k, dc, gone) /\ delegateCount' = [delegateCount EXCEPT ![n] = k]
  BY <1>4 DEF IsCount, RemoveAll, DelegatesOf
<1>7. ListInv(b, dc, n, top)
  BY <1>1, <1>3, <1>4 DEF BoundInv
<1>8. /\ c \in Seq(Handle) /\ k \in Nat /\ ListInv(c, k, n, top)
      /\ \A i \in 1..Len(c) : c[i] \notin gone /\ \E j \in 1..Len(b) : c[i] = b[j]
  <2>1. gone \subseteq ToSet(b)
    BY <1>3
  <2>2. b \in Seq(Handle) /\ dc \in Nat /\ ListInv(b, dc, n, top) /\ IsKept(c, b, gone) /\ IsCount(k, dc, gone)
    BY <1>5, <1>6, <1>7
  <2>3. /\ c \in Seq(Handle) /\ k \in Nat /\ ListInv(c, k, n, top)
        /\ \A i \in 1..Len(c) : c[i] \notin gone /\ Among(c[i], b)
    BY <2>1, <2>2, RemoveFacts
  <2> QED BY <2>3 DEF Among
<1>9. /\ bound' \in [Element -> Seq(Handle)] /\ bound'[n] = c
      /\ \A m \in Element : m # n => bound'[m] = bound[m]
  BY <1>5, <1>8 DEF EventTypes
<1>10. /\ delegateCount' \in [Element -> Nat] /\ delegateCount'[n] = k
       /\ \A m \in Element : m # n => delegateCount'[m] = delegateCount[m]
  BY <1>6, <1>8 DEF EventTypes
<1>11. ASSUME NEW m \in Element, NEW i \in 1..Len(bound'[m])
       PROVE  /\ \E j \in 1..Len(bound[m]) : bound'[m][i] = bound[m][j]
              /\ m = n => bound'[m][i] \notin gone
  <2>1. CASE m = n
    BY <1>3, <1>8, <1>9, <2>1
  <2>2. CASE m # n
    BY <1>9, <2>2
  <2> QED BY <2>1, <2>2
<1>12. ASSUME NEW m \in Element PROVE ListInv(bound'[m], delegateCount'[m], m, binds')
  <2>1. ListInv(bound'[m], delegateCount'[m], m, top)
    <3>1. CASE m = n
      BY <1>8, <1>9, <1>10, <3>1
    <3>2. CASE m # n
      BY <1>1, <1>9, <1>10, <3>2 DEF BoundInv
    <3> QED BY <3>1, <3>2
  <2>2. bound'[m] \in Seq(Handle)
    BY <1>9
  <2>3. ListInv(bound'[m], delegateCount'[m], m, later)
    BY <1>2, <2>1, <2>2, LaterList
  <2> QED BY <1>2, <2>3
<1>13. ASSUME NEW m1 \in Element, NEW m2 \in Element, m1 # m2,
              NEW i \in 1..Len(bound'[m1]), NEW j \in 1..Len(bound'[m2])
       PROVE  bound'[m1][i].id # bound'[m2][j].id
  <2>1. PICK ii \in 1..Len(bound[m1]) : bound'[m1][i] = bound[m1][ii]
    BY <1>11
  <2>2. PICK jj \in 1..Len(bound[m2]) : bound'[m2][j] = bound[m2][jj]
    BY <1>11
  <2> QED BY <1>13, <2>1, <2>2 DEF BoundInv
<1>14. BoundInv'
  BY <1>12, <1>13 DEF BoundInv
<1> QED BY <1>9, <1>10, <1>11, <1>14 DEF Among

-----------------------------------------------------------------------------
LEMMA EventsOrder ==
    ASSUME \A k \in 1..Len(events) : EventOrder(events[k]),
           NEW e, EventOrder(e), Holds(events', events, e)
    PROVE  \A k \in 1..Len(events') : EventOrder(events'[k])
<1>1. \A k \in 1..Len(events') : k = Len(events') \/ k \in 1..(Len(events') - 1)
  BY DEF Holds
<1> QED BY <1>1 DEF Holds

LEMMA EventsStart == EventsInit => EventsInv
<1> SUFFICES ASSUME EventsInit PROVE EventsInv
  OBVIOUS
<1> USE DEF EventsInit
<1>1. \A n \in Element : bound[n] = <<>> /\ delegateCount[n] = 0
  OBVIOUS
<1>2. <<>> \in Seq(Handle) /\ <<>> \in Seq(EventRecord) /\ Len(<<>>) = 0
  OBVIOUS
<1>3. \A i \in 1..0 : FALSE
  OBVIOUS
<1>4. EventTypes
  BY <1>2 DEF EventTypes
<1>5. ASSUME NEW n \in Element PROVE ListInv(bound[n], delegateCount[n], n, binds)
  BY <1>1, <1>2, <1>3 DEF ListInv
<1>6. BoundInv
  BY <1>1, <1>2, <1>3, <1>5 DEF BoundInv
<1> QED BY <1>2, <1>3, <1>4, <1>6 DEF EventsInv

\* What CallNext calls, and what it makes of the event.
LEMMA CallNextFacts ==
    ASSUME EventsInv, CallNext
    PROVE  /\ events # <<>> /\ Event \in EventRecord /\ EventOrder(Event) /\ Event = events[Len(events)]
           /\ Event.queue # <<>> /\ Event.queue \in Seq(Entry)
           /\ LET next == Head(Event.queue)
                  f == Call(Event, next)
              IN  /\ next = Event.queue[1] /\ next.h \in Handle /\ next.at \in Element
                  /\ f \in EventRecord /\ EventOrder(f) /\ f.queue = Tail(Event.queue)
                  /\ Becomes(f) /\ Note(next.h)
                  /\ next.h.one =>
                        RemoveAll(next.at, Matching(next.at, {next.h.fn}, next.h.namespace, next.h.selector))
                  /\ ~next.h.one => UNCHANGED <<bound, delegateCount>>
<1>1. events # <<>> /\ Event.queue # <<>> /\ events \in Seq(EventRecord)
  BY DEF CallNext, EventsInv, EventTypes
<1>2. Event \in EventRecord /\ Event = events[Len(events)] /\ EventOrder(Event)
  BY <1>1, LastEventFacts DEF Event, EventsInv
<1>3. Event.queue \in Seq(Entry)
  BY <1>2 DEF EventRecord
<1>4. PICK next : next = Head(Event.queue)
  OBVIOUS
<1>5. PICK f : f = Call(Event, next)
  OBVIOUS
<1>6. /\ next \in Entry /\ next = Event.queue[1] /\ next.h \in Handle
      /\ f \in EventRecord /\ EventOrder(f) /\ f.queue = Tail(Event.queue)
  BY <1>1, <1>2, <1>4, <1>5, CallOrder
<1>7. next.at \in Element
  BY <1>6 DEF Entry
<1>8. /\ Becomes(f) /\ Note(next.h)
      /\ IF next.h.one THEN RemoveAll(next.at, Matching(next.at, {next.h.fn}, next.h.namespace, next.h.selector))
         ELSE UNCHANGED <<bound, delegateCount>>
  BY <1>4, <1>5, Zenon DEF CallNext
<1> QED BY <1>1, <1>2, <1>3, <1>4, <1>5, <1>6, <1>7, <1>8

\* What a function that returns makes of the event.
LEMMA HandlerReturnsFacts ==
    ASSUME EventsInv, HandlerReturns
    PROVE  /\ events # <<>> /\ Event = events[Len(events)] /\ Event \in EventRecord
           /\ \E f \in EventRecord : Becomes(f) /\ EventOrder(f) /\ Thinned(f.queue, Event.queue)
<1>1. events # <<>> /\ events \in Seq(EventRecord)
  BY DEF HandlerReturns, EventsInv, EventTypes
<1>2. Event \in EventRecord /\ Event = events[Len(events)] /\ EventOrder(Event)
  BY <1>1, LastEventFacts DEF Event, EventsInv
<1>3. PICK q \in Seq(Entry) : q = Event.queue
  BY <1>2 DEF EventRecord
<1>4. PICK for : for = Last(Event.called).for
  OBVIOUS
<1>5. \/ Becomes([Event EXCEPT !.running = 0])
      \/ Becomes([[Event EXCEPT !.running = 0] EXCEPT !.stopped = TRUE,
                        !.queue = Kept(@, {x \in ToSet(@) : x.for = for})])
      \/ Becomes([[Event EXCEPT !.running = 0] EXCEPT !.stopped = TRUE, !.queue = <<>>])
  BY <1>4, Zenon DEF HandlerReturns
<1>6. CASE Becomes([Event EXCEPT !.running = 0])
  <2>1. PICK f : f = [Event EXCEPT !.running = 0]
    OBVIOUS
  <2>2. f \in EventRecord /\ f.called = Event.called /\ f.at = Event.at /\ f.target = Event.target /\ f.queue = q
    BY <1>2, <1>3, <2>1 DEF EventRecord
  <2>3. Thinned(f.queue, Event.queue)
    BY <1>3, <2>2, ThinnedFacts
  <2>4. EventOrder(f)
    BY <1>2, <2>2, <2>3, ThinnedOrder
  <2> QED BY <1>1, <1>2, <1>6, <2>1, <2>2, <2>3, <2>4
<1>7. CASE Becomes([[Event EXCEPT !.running = 0] EXCEPT !.stopped = TRUE,
                        !.queue = Kept(@, {x \in ToSet(@) : x.for = for})])
  <2>1. PICK g : g = [Event EXCEPT !.running = 0]
    OBVIOUS
  <2>2. g \in EventRecord /\ g.called = Event.called /\ g.at = Event.at /\ g.target = Event.target /\ g.queue = q
    BY <1>2, <1>3, <2>1 DEF EventRecord
  <2>3. PICK k : k = Kept(q, {x \in ToSet(q) : x.for = for})
    OBVIOUS
  <2>4. k \in Seq(Entry) /\ Thinned(k, q)
    BY <2>3, ThinnedFacts
  <2>5. PICK f : f = [g EXCEPT !.stopped = TRUE, !.queue = k]
    OBVIOUS
  <2>6. f \in EventRecord /\ f.called = Event.called /\ f.at = Event.at /\ f.target = Event.target /\ f.queue = k
    BY <2>2, <2>4, <2>5 DEF EventRecord
  <2>7. EventOrder(f)
    BY <1>2, <1>3, <2>4, <2>6, ThinnedOrder
  <2>8. Becomes(f)
    BY <1>7, <2>1, <2>2, <2>3, <2>5
  <2> QED BY <1>1, <1>2, <1>3, <2>4, <2>6, <2>7, <2>8
<1>8. CASE Becomes([[Event EXCEPT !.running = 0] EXCEPT !.stopped = TRUE, !.queue = <<>>])
  <2>1. PICK f : f = [[Event EXCEPT !.running = 0] EXCEPT !.stopped = TRUE, !.queue = <<>>]
    OBVIOUS
  <2>2. f \in EventRecord /\ f.called = Event.called /\ f.at = Event.at /\ f.target = Event.target /\ f.queue = <<>>
    <3>1. <<>> \in Seq(Entry)
      OBVIOUS
    <3> QED BY <1>2, <2>1, <3>1 DEF EventRecord
  <2>3. Thinned(f.queue, Event.queue)
    BY <1>3, <2>2, ThinnedFacts
  <2>4. EventOrder(f)
    BY <1>2, <2>2, <2>3, ThinnedOrder
  <2> QED BY <1>1, <1>2, <1>8, <2>1, <2>2, <2>3, <2>4
<1> QED BY <1>5, <1>6, <1>7, <1>8

\* What bubbling makes of the last event.
LEMMA BubbleFacts ==
    ASSUME EventsInv, BubbleUp
    PROVE  /\ events # <<>>
           /\ \/ events' = Front(events)
              \/ \E f \in EventRecord :
                    /\ Becomes(f) /\ EventOrder(f) /\ f.at \in Element
                    /\ IsCurrent(f)
<1>1. events # <<>> /\ Event.queue = <<>> /\ events \in Seq(EventRecord)
  BY DEF BubbleUp, EventsInv, EventTypes
<1>2. Event \in EventRecord /\ EventOrder(Event)
  BY <1>1, LastEventFacts DEF Event, EventsInv
<1>3. CASE Event.stopped \/ Event.at = Depth
  BY <1>1, <1>3 DEF BubbleUp
<1>4. CASE ~(Event.stopped \/ Event.at = Depth)
  <2>1. Event.at # Depth
    BY <1>4
  <2>2. PICK f : f = [Event EXCEPT
                !.at = @ + 1, !.queue = HandlerQueue(Event.at + 1, Event.target, Event.namespace)]
    OBVIOUS
  <2>3. Becomes(f)
    BY <1>4, <2>2, Zenon DEF BubbleUp
  <2>4. /\ f \in EventRecord /\ EventOrder(f) /\ f.at \in Element
        /\ IsCurrent(f)
    <3>1. EventTypes /\ BoundInv
      BY DEF EventsInv
    <3>2. f = [Event EXCEPT !.at = Event.at + 1, !.queue = HandlerQueue(Event.at + 1, Event.target, Event.namespace)]
      BY <2>2
    <3> QED BY <1>1, <1>2, <2>1, <3>1, <3>2, BubbleOrder, EventsAssumption
  <2> QED BY <1>1, <2>3, <2>4
<1> QED BY <1>3, <1>4

\* What off() removes.
LEMMA MatchingFacts ==
    ASSUME EventTypes, NEW n \in Element, NEW fns, NEW ns, NEW s
    PROVE  Matching(n, fns, ns, s) \subseteq ToSet(bound[n])
BY DEF Matching

LEMMA EventsStep == EventsInv /\ [EventsNext]_eventVars => EventsInv'
<1> SUFFICES ASSUME EventsInv, [EventsNext]_eventVars PROVE EventsInv'
  OBVIOUS
<1>1. /\ EventTypes /\ BoundInv /\ events \in Seq(EventRecord) /\ binds \in Nat
      /\ \A k \in 1..Len(events) : EventOrder(events[k])
  BY DEF EventsInv, EventTypes
<1>2. ASSUME UNCHANGED <<bound, delegateCount, binds>>, NEW e \in EventRecord, EventOrder(e), Holds(events', events, e)
      PROVE  EventsInv'
  <2>1. BoundInv'
    BY <1>1, <1>2 DEF BoundInv
  <2>2. EventTypes'
    BY <1>1, <1>2 DEF EventTypes, Holds
  <2>3. (\A k \in 1..Len(events) : EventOrder(events[k]))'
    BY <1>1, <1>2, EventsOrder
  <2> QED BY <2>1, <2>2, <2>3 DEF EventsInv
<1>3. ASSUME NEW n \in Element, On(n) PROVE EventsInv'
  <2>1. /\ bound' \in [Element -> Seq(Handle)] /\ delegateCount' \in [Element -> Nat]
        /\ binds' = binds + 1 /\ BoundInv'
    BY <1>1, <1>3, OnKeeps
  <2>2. events' = events /\ binds' \in Nat
    BY <1>1, <1>3, <2>1 DEF On
  <2> QED BY <1>1, <2>1, <2>2 DEF EventsInv, EventTypes
<1>4. ASSUME NEW n \in Element, Off(n) PROVE EventsInv'
  <2>1. PICK gone : gone \subseteq ToSet(bound[n]) /\ RemoveAll(n, gone)
    BY <1>1, <1>4, MatchingFacts DEF Off
  <2>2. events' = events /\ binds' \in Nat /\ binds <= binds'
    BY <1>1, <1>4 DEF Off, Bind
  <2>3. bound' \in [Element -> Seq(Handle)] /\ delegateCount' \in [Element -> Nat] /\ BoundInv'
    BY <1>1, <2>1, <2>2, RemoveAllKeeps
  <2> QED BY <1>1, <2>2, <2>3 DEF EventsInv, EventTypes
<1>5. ASSUME NEW n \in Element, Trigger(n) PROVE EventsInv'
  <2>1. PICK ns \in Space : events' = Append(events,
           [target |-> n, namespace |-> ns, at |-> n, queue |-> HandlerQueue(n, n, ns),
            stopped |-> FALSE, running |-> 0, called |-> <<>>])
    BY <1>5 DEF Trigger
  <2>2. PICK f : Fresh(f, n, ns) /\ events' = Append(events, f)
    BY <2>1 DEF Fresh
  <2>3. f \in EventRecord /\ EventOrder(f)
    BY <1>1, <2>2, FreshOrder
  <2>4. Holds(events', events, f)
    BY <1>1, <2>2, <2>3, AppendHolds
  <2> QED BY <1>2, <1>5, <2>3, <2>4 DEF Trigger
<1>6. CASE CallNext
  <2>1. PICK next : next = Head(Event.queue)
    OBVIOUS
  <2>2. PICK f : f = Call(Event, next)
    OBVIOUS
  <2>3. /\ events # <<>> /\ next.at \in Element /\ f \in EventRecord /\ EventOrder(f) /\ Becomes(f)
        /\ next.h.one =>
              RemoveAll(next.at, Matching(next.at, {next.h.fn}, next.h.namespace, next.h.selector))
        /\ ~next.h.one => UNCHANGED <<bound, delegateCount>>
    BY <1>6, <2>1, <2>2, CallNextFacts
  <2>4. Holds(events', events, f) /\ binds' = binds
    BY <1>1, <1>6, <2>3, BecomesHolds DEF CallNext
  <2>5. CASE ~next.h.one
    BY <1>2, <2>3, <2>4, <2>5
  <2>6. CASE next.h.one
    <3>1. PICK gone : gone \subseteq ToSet(bound[next.at]) /\ RemoveAll(next.at, gone)
      BY <1>1, <2>3, <2>6, MatchingFacts
    <3>2. binds' \in Nat /\ binds <= binds'
      BY <1>1, <2>4
    <3>3. bound' \in [Element -> Seq(Handle)] /\ delegateCount' \in [Element -> Nat] /\ BoundInv'
      BY <1>1, <2>3, <3>1, <3>2, RemoveAllKeeps
    <3>4. EventTypes'
      BY <2>4, <3>2, <3>3 DEF EventTypes, Holds
    <3>5. (\A k \in 1..Len(events) : EventOrder(events[k]))'
      BY <1>1, <2>3, <2>4, EventsOrder
    <3> QED BY <3>3, <3>4, <3>5 DEF EventsInv
  <2> QED BY <2>5, <2>6
<1>7. CASE HandlerReturns
  <2>1. PICK f \in EventRecord : events # <<>> /\ Becomes(f) /\ EventOrder(f)
    BY <1>7, HandlerReturnsFacts
  <2>2. Holds(events', events, f)
    BY <1>1, <2>1, BecomesHolds
  <2> QED BY <1>2, <1>7, <2>1, <2>2 DEF HandlerReturns
<1>8. CASE BubbleUp
  <2>1. UNCHANGED <<bound, delegateCount, binds>> /\ events # <<>>
    BY <1>8 DEF BubbleUp
  <2>2. CASE events' = Front(events)
    <3>1. /\ events' \in Seq(EventRecord) /\ Len(events') = Len(events) - 1
          /\ \A i \in 1..(Len(events) - 1) : i \in 1..Len(events) /\ events'[i] = events[i]
      BY <1>1, <2>1, <2>2, LastEventFacts
    <3>2. \A k \in 1..Len(events') : EventOrder(events'[k])
      BY <1>1, <3>1
    <3>3. BoundInv'
      BY <1>1, <2>1 DEF BoundInv
    <3> QED BY <1>1, <2>1, <3>1, <3>2, <3>3 DEF EventsInv, EventTypes
  <2>3. CASE \E f \in EventRecord : Becomes(f) /\ EventOrder(f)
    <3>1. PICK f \in EventRecord : Becomes(f) /\ EventOrder(f)
      BY <2>3
    <3>2. Holds(events', events, f)
      BY <1>1, <2>1, <3>1, BecomesHolds
    <3> QED BY <1>2, <2>1, <3>1, <3>2
  <2> QED BY <1>8, <2>2, <2>3, BubbleFacts
<1>9. CASE UNCHANGED eventVars
  BY <1>1, <1>9 DEF eventVars, EventsInv, EventTypes, BoundInv
<1> QED BY <1>3, <1>4, <1>5, <1>6, <1>7, <1>8, <1>9 DEF EventsNext

LEMMA EventsInvariant == EventsSpec => []EventsInv
<1> QED BY EventsStart, EventsStep, PTL DEF EventsSpec

\* An event calls the functions of inner elements before those of outer ones,
\* what is delegated before what is bound directly, else in the order of
\* binding, and nothing twice; whatever is bound and unbound meanwhile.
THEOREM EventsAlwaysBubble == EventsSpec => []EventsBubble
<1>1. EventsInv => EventsBubble
  <2> SUFFICES ASSUME EventsInv PROVE EventsBubble
    OBVIOUS
  <2>1. \A k \in DOMAIN events : events[k] \in EventRecord /\ EventOrder(events[k])
    <3>1. events \in Seq(EventRecord) /\ DOMAIN events = 1..Len(events)
      BY DEF EventsInv, EventTypes
    <3> QED BY <3>1 DEF EventsInv
  <2>2. ASSUME NEW k \in DOMAIN events
        PROVE  LET called == events[k].called
               IN  /\ \A i \in DOMAIN called : ForIsRight(called[i])
                   /\ \A i, j \in DOMAIN called : i < j => Before(called[i], called[j])
    <3>1. PICK c \in Seq(Entry) : c = events[k].called
      BY <2>1 DEF EventRecord
    <3>2. DOMAIN c = 1..Len(c)
      OBVIOUS
    <3> QED BY <2>1, <3>1, <3>2 DEF EventOrder, Ordered
  <2> QED BY <2>2, Zenon DEF EventsBubble, ForIsRight, Before
<1> QED BY <1>1, EventsInvariant, PTL

-----------------------------------------------------------------------------
\* The queue of one event.
LEMMA ThinnedQueue ==
    ASSUME NEW q, NEW b, NEW top, NEW sp, NEW ov, QueueInv(q, b, top, sp, ov),
           NEW p \in Seq(Entry), Thinned(p, q)
    PROVE  QueueInv(p, b, top, sp, ov)
<1>1. PICK at : /\ \A i \in 1..Len(p) : at[i] \in 1..Len(q) /\ p[i] = q[at[i]]
                /\ \A i, j \in 1..Len(p) : i < j => at[i] < at[j]
  BY DEF Thinned
<1>2. ASSUME NEW i \in 1..Len(p)
      PROVE  /\ p[i].h.id <= top
             /\ \A m \in Element : \A j \in 1..Len(b[m]) :
                   b[m][j].id = p[i].h.id => m = p[i].at /\ b[m][j] = p[i].h
             /\ p[i].h.one /\ p[i].h.id \in sp => p[i].h.id \in ov
  <2>1. PICK k \in 1..Len(q) : p[i] = q[k]
    BY <1>1
  <2> QED BY <2>1 DEF QueueInv
<1>3. ASSUME NEW i \in 1..Len(p), NEW j \in 1..Len(p), i < j PROVE p[i].h.id # p[j].h.id
  BY <1>1, <1>3 DEF QueueInv
<1> QED BY <1>2, <1>3 DEF QueueInv

LEMMA LaterQueue ==
    ASSUME NEW q \in Seq(Entry), NEW b, NEW top \in Nat, NEW sp, NEW ov, QueueInv(q, b, top, sp, ov),
           NEW c, NEW later \in Nat, top <= later,
           \A m \in Element : \A i \in 1..Len(c[m]) :
                 c[m][i].id = top + 1 \/ Among(c[m][i], b[m])
    PROVE  QueueInv(q, c, later, sp, ov)
<1>1. \A i \in 1..Len(q) : q[i].h.id \in Nat
  <2>1. \A i \in 1..Len(q) : q[i] \in Entry
    OBVIOUS
  <2> QED BY <2>1 DEF Entry, Handle
<1>2. ASSUME NEW i \in 1..Len(q)
      PROVE  /\ q[i].h.id <= later
             /\ \A m \in Element : \A j \in 1..Len(c[m]) :
                   c[m][j].id = q[i].h.id => m = q[i].at /\ c[m][j] = q[i].h
  <2>1. q[i].h.id \in Nat /\ q[i].h.id <= top
    BY <1>1 DEF QueueInv
  <2>2. ASSUME NEW m \in Element, NEW j \in 1..Len(c[m]), c[m][j].id = q[i].h.id
        PROVE  m = q[i].at /\ c[m][j] = q[i].h
    <3>1. c[m][j].id # top + 1
      BY <2>1, <2>2
    <3>2. PICK k \in 1..Len(b[m]) : c[m][j] = b[m][k]
      BY <3>1 DEF Among
    <3> QED BY <2>2, <3>2 DEF QueueInv
  <2>3. q[i].h.id <= later
    BY <2>1
  <2> QED BY <2>2, <2>3
<1> QED BY <1>2 DEF QueueInv

\* A queue that has just been made of what is bound.
LEMMA CurrentQueue ==
    ASSUME EventTypes, BoundInv, NEW f \in EventRecord, EventOrder(f), f.at \in Element, IsCurrent(f),
           NEW sp, IsUnbound(bound, sp), NEW ov
    PROVE  QueueInv(f.queue, bound, binds, sp, ov)
<1>1. PICK n \in Element : n = f.at
  OBVIOUS
<1>2. PICK b \in Seq(Handle) : b = bound[n]
  BY DEF EventTypes
<1>3. PICK q \in Seq(Entry) : q = f.queue
  BY DEF EventRecord
<1>4. ListInv(b, delegateCount[n], n, binds)
  BY <1>2 DEF BoundInv
<1>5. ASSUME NEW i \in 1..Len(q) PROVE \E j \in 1..Len(b) : q[i].h = b[j]
  BY <1>1, <1>2, <1>3 DEF IsCurrent
<1>6. \A i \in 1..Len(q) : q[i].at = n /\ ForIsRight(q[i])
  BY <1>1, <1>3 DEF EventOrder
<1>7. \A j, k \in 1..Len(b) : b[j].id = b[k].id => j = k
  <2>1. \A j, k \in 1..Len(b) : j < k => b[j].id # b[k].id
    BY <1>4 DEF ListInv
  <2> QED BY <2>1
<1>8. ASSUME NEW i \in 1..Len(q)
      PROVE  /\ q[i].h.id <= binds
             /\ \A m \in Element : \A j \in 1..Len(bound[m]) :
                   bound[m][j].id = q[i].h.id => m = q[i].at /\ bound[m][j] = q[i].h
             /\ q[i].h.one /\ q[i].h.id \in sp => q[i].h.id \in ov
  <2>1. PICK k \in 1..Len(b) : q[i].h = b[k]
    BY <1>5
  <2>2. b[k].id <= binds
    BY <1>4 DEF ListInv
  <2>3. b[k].id \notin sp
    BY <1>2 DEF IsUnbound
  <2>4. ASSUME NEW m \in Element, NEW j \in 1..Len(bound[m]), bound[m][j].id = b[k].id
        PROVE  m = n /\ bound[m][j] = b[k]
    <3>1. m = n
      BY <1>2, <2>4 DEF BoundInv
    <3> QED BY <1>2, <1>7, <2>4, <3>1
  <2> QED BY <1>6, <2>1, <2>2, <2>3, <2>4
<1>9. ASSUME NEW i \in 1..Len(q), NEW j \in 1..Len(q), i < j PROVE q[i].h.id # q[j].h.id
  <2> SUFFICES ASSUME q[i].h.id = q[j].h.id PROVE FALSE
    OBVIOUS
  <2>1. PICK ii \in 1..Len(b) : q[i].h = b[ii]
    BY <1>5
  <2>2. PICK jj \in 1..Len(b) : q[j].h = b[jj]
    BY <1>5
  <2>3. q[i].h = q[j].h
    BY <1>7, <2>1, <2>2
  <2>4. q[i].for = q[j].for /\ q[i].at = q[j].at
    BY <1>6, <2>3 DEF ForIsRight
  <2>5. Before(q[i], q[j])
    BY <1>3, <1>9 DEF EventOrder, Ordered
  <2>6. q[i].at \in Element /\ q[i].for \in Nat /\ q[i].h \in Handle
    <3>1. q[i] \in Entry
      OBVIOUS
    <3> QED BY <3>1 DEF Entry
  <2>7. q[i].at \in Nat /\ q[i].for \in Nat /\ q[i].h.id \in Nat
    <3>1. \A n1 \in Element : n1 \in Nat
      BY DEF Element
    <3>2. \A h \in Handle : h.id \in Nat
      BY DEF Handle
    <3> QED BY <2>6, <3>1, <3>2
  <2> QED BY <2>3, <2>4, <2>5, <2>7 DEF Before
<1> QED BY <1>3, <1>8, <1>9 DEF QueueInv

-----------------------------------------------------------------------------
LEMMA EventsOnce ==
    ASSUME \A k \in 1..Len(events) : QueueInv(events[k].queue, bound', binds', spent', overtaken'),
           NEW e, QueueInv(e.queue, bound', binds', spent', overtaken'), Holds(events', events, e)
    PROVE  \A k \in 1..Len(events') : QueueInv(events'[k].queue, bound', binds', spent', overtaken')
<1>1. \A k \in 1..Len(events') : k = Len(events') \/ k \in 1..(Len(events') - 1)
  BY DEF Holds
<1> QED BY <1>1 DEF Holds

\* A function for one call is called.
LEMMA OneIsCalled ==
    ASSUME EventsInv, OnceInv, CallNext, Head(Event.queue).h.one
    PROVE  OnceInv'
<1>1. PICK next : next = Head(Event.queue)
  OBVIOUS
<1>2. PICK f : f = Call(Event, next)
  OBVIOUS
<1>3. PICK id : id = next.h.id
  OBVIOUS
<1>4. EventTypes /\ BoundInv
  BY DEF EventsInv
<1>5. /\ bound \in [Element -> Seq(Handle)] /\ events \in Seq(EventRecord) /\ binds \in Nat
  BY <1>4 DEF EventTypes
<1>6. PICK q \in Seq(Entry) : q = Event.queue
  BY CallNextFacts
<1>7. /\ events # <<>> /\ Event = events[Len(events)] /\ q # <<>>
      /\ next = q[1] /\ next.h \in Handle /\ next.at \in Element
      /\ f \in EventRecord /\ f.queue = Tail(q) /\ Becomes(f) /\ Note(next.h)
      /\ RemoveAll(next.at, Matching(next.at, {next.h.fn}, next.h.namespace, next.h.selector))
  BY <1>1, <1>2, <1>6, CallNextFacts
<1>8. Len(events) \in 1..Len(events)
  BY <1>5, <1>7, LastEventFacts
<1>9. QueueInv(q, bound, binds, spent, overtaken)
  BY <1>6, <1>7, <1>8 DEF OnceInv
<1>10. 1 \in 1..Len(q) /\ \A i \in 1..Len(Tail(q)) : i + 1 \in 1..Len(q) /\ Tail(q)[i] = q[i + 1] /\ 1 < i + 1
  BY <1>7, RestOfQueue
<1>11. /\ spent' = spent \cup {id} /\ again' = again \cup ({id} \cap spent)
       /\ overtaken' = IF WaitsBelow(id) THEN overtaken \cup {id} ELSE overtaken
  BY <1>1, <1>3, <1>7 DEF Note
<1>12. binds' = binds
  BY DEF CallNext
<1>13. id <= binds /\ id \in Nat
  BY <1>3, <1>7, <1>9, <1>10 DEF QueueInv, Handle
<1>14. PICK gone : gone = Matching(next.at, {next.h.fn}, next.h.namespace, next.h.selector)
  OBVIOUS
<1>15. \A m \in Element : \A i \in 1..Len(bound'[m]) :
          /\ Among(bound'[m][i], bound[m])
          /\ m = next.at => bound'[m][i] \notin gone
  <2>1. gone \subseteq ToSet(bound[next.at])
    BY <1>4, <1>7, <1>14, MatchingFacts
  <2>2. binds' \in Nat /\ binds <= binds'
    BY <1>5, <1>12
  <2> QED BY <1>4, <1>7, <1>14, <2>1, <2>2, RemoveAllKeeps
<1>16. spent' \subseteq 0..binds'
  BY <1>11, <1>12, <1>13 DEF OnceInv
<1>17. again' \subseteq overtaken'
  <2>1. id \in spent => id \in overtaken
    BY <1>1, <1>3, <1>7, <1>9, <1>10 DEF QueueInv
  <2> QED BY <1>11, <2>1 DEF OnceInv
<1>18. IsUnbound(bound', spent')
  <2> SUFFICES ASSUME NEW m \in Element, NEW i \in 1..Len(bound'[m]) PROVE bound'[m][i].id \notin spent'
    BY DEF IsUnbound
  <2>1. PICK j \in 1..Len(bound[m]) : bound'[m][i] = bound[m][j]
    BY <1>15 DEF Among
  <2>2. bound[m][j].id \notin spent
    BY DEF OnceInv, IsUnbound
  <2>3. ASSUME bound[m][j].id = id PROVE FALSE
    <3>1. m = next.at /\ bound[m][j] = next.h
      BY <1>3, <1>7, <1>9, <1>10, <2>3 DEF QueueInv
    <3>2. next.h \in ToSet(bound[next.at])
      BY <1>5, <3>1 DEF ToSet
    <3>3. next.h \in gone
      BY <1>14, <3>2 DEF Matching
    <3> QED BY <1>15, <2>1, <3>1, <3>3
  <2> QED BY <1>11, <2>1, <2>2, <2>3
<1>19. ASSUME NEW p \in Seq(Entry), QueueInv(p, bound, binds, spent, overtaken),
              \A i \in 1..Len(p) : p[i].h.id = id => WaitsBelow(id)
       PROVE  QueueInv(p, bound', binds', spent', overtaken')
  <2>1. QueueInv(p, bound', binds', spent, overtaken)
    <3>1. binds' \in Nat /\ binds <= binds'
      BY <1>5, <1>12
    <3> QED BY <1>5, <1>15, <1>19, <3>1, LaterQueue
  <2>2. ASSUME NEW i \in 1..Len(p), p[i].h.one, p[i].h.id \in spent' PROVE p[i].h.id \in overtaken'
    <3>1. CASE p[i].h.id = id
      BY <1>11, <1>19, <3>1
    <3>2. CASE p[i].h.id # id
      BY <1>11, <1>19, <2>2, <3>2 DEF QueueInv
    <3> QED BY <3>1, <3>2
  <2> QED BY <2>1, <2>2 DEF QueueInv
<1>20. QueueInv(f.queue, bound', binds', spent', overtaken')
  <2>1. PICK p \in Seq(Entry) : p = f.queue /\ p = Tail(q)
    BY <1>7, RestOfQueue
  <2>2. QueueInv(p, bound, binds, spent, overtaken)
    BY <1>7, <1>9, <2>1, ThinnedFacts, ThinnedQueue
  <2>3. \A i \in 1..Len(p) : p[i].h.id # id
    <3> TAKE i \in 1..Len(p)
    <3>1. i + 1 \in 1..Len(q) /\ p[i] = q[i + 1] /\ 1 < i + 1
      BY <1>10, <2>1
    <3> QED BY <1>3, <1>7, <1>9, <1>10, <3>1 DEF QueueInv
  <2> QED BY <1>19, <2>1, <2>2, <2>3
<1>21. Holds(events', events, f) /\ Len(events') = Len(events)
  BY <1>5, <1>7, BecomesHolds
<1>22. ASSUME NEW k \in 1..(Len(events) - 1)
       PROVE  QueueInv(events[k].queue, bound', binds', spent', overtaken')
  <2>1. k \in 1..Len(events)
    BY <1>5, <1>7, LastEventFacts
  <2>2. PICK p \in Seq(Entry) : p = events[k].queue /\ DOMAIN p = 1..Len(p)
    <3>1. events[k] \in EventRecord
      BY <1>5, <2>1
    <3> QED BY <3>1 DEF EventRecord
  <2>3. QueueInv(p, bound, binds, spent, overtaken)
    BY <2>1, <2>2 DEF OnceInv
  <2>4. \A i \in 1..Len(p) : p[i].h.id = id => WaitsBelow(id)
    BY <2>2 DEF WaitsBelow
  <2> QED BY <1>19, <2>2, <2>3, <2>4
<1>23. \A k \in 1..Len(events') : QueueInv(events'[k].queue, bound', binds', spent', overtaken')
  <2>1. \A k \in 1..Len(events') : k = Len(events) \/ k \in 1..(Len(events) - 1)
    BY <1>8, <1>21
  <2> QED BY <1>20, <1>21, <1>22, <2>1 DEF Holds
<1> QED BY <1>16, <1>17, <1>18, <1>23 DEF OnceInv

LEMMA OnceStart == EventsInit => OnceInv
<1> SUFFICES ASSUME EventsInit PROVE OnceInv
  OBVIOUS
<1> USE DEF EventsInit
<1>1. \A i \in 1..Len(<<>>) : FALSE
  OBVIOUS
<1>2. \A n \in Element : bound[n] = <<>>
  OBVIOUS
<1>3. IsUnbound(bound, spent)
  BY DEF IsUnbound
<1> QED BY <1>1, <1>2, <1>3 DEF OnceInv

LEMMA OnceStep == EventsInv /\ OnceInv /\ [EventsNext]_eventVars => OnceInv'
<1> SUFFICES ASSUME EventsInv, OnceInv, [EventsNext]_eventVars PROVE OnceInv'
  OBVIOUS
<1>1. /\ EventTypes /\ BoundInv /\ events \in Seq(EventRecord) /\ binds \in Nat
  BY DEF EventsInv, EventTypes
<1>2. /\ spent \subseteq 0..binds /\ again \subseteq overtaken /\ IsUnbound(bound, spent)
      /\ \A k \in 1..Len(events) : QueueInv(events[k].queue, bound, binds, spent, overtaken)
  BY DEF OnceInv
<1>3. ASSUME UNCHANGED <<bound, binds, onceVars>>,
             NEW e, QueueInv(e.queue, bound, binds, spent, overtaken), Holds(events', events, e)
      PROVE  OnceInv'
  <2>1. bound' = bound /\ binds' = binds /\ spent' = spent /\ again' = again /\ overtaken' = overtaken
    BY <1>3 DEF onceVars
  <2>2. QueueInv(e.queue, bound', binds', spent', overtaken')
    BY <1>3, <2>1
  <2>3. \A k \in 1..Len(events) : QueueInv(events[k].queue, bound', binds', spent', overtaken')
    BY <1>2, <2>1
  <2>4. \A k \in 1..Len(events') : QueueInv(events'[k].queue, bound', binds', spent', overtaken')
    BY <1>3, <2>2, <2>3, EventsOnce
  <2>5. spent' \subseteq 0..binds' /\ again' \subseteq overtaken' /\ IsUnbound(bound', spent')
    BY <1>2, <2>1
  <2> QED BY <2>4, <2>5 DEF OnceInv
<1>4. ASSUME UNCHANGED <<events, onceVars>>, binds' = binds + 1,
             \A m \in Element : \A i \in 1..Len(bound'[m]) :
                bound'[m][i].id = binds + 1 \/ Among(bound'[m][i], bound[m])
      PROVE  OnceInv'
  <2>1. events' = events /\ spent' = spent /\ again' = again /\ overtaken' = overtaken
    BY <1>4 DEF onceVars
  <2>2. spent' \subseteq 0..binds' /\ again' \subseteq overtaken'
    BY <1>1, <1>2, <1>4, <2>1
  <2>3. IsUnbound(bound', spent')
    <3> SUFFICES ASSUME NEW m \in Element, NEW i \in 1..Len(bound'[m]) PROVE bound'[m][i].id \notin spent
      BY <2>1 DEF IsUnbound
    <3>1. CASE bound'[m][i].id = binds + 1
      BY <1>1, <1>2, <3>1
    <3>2. CASE Among(bound'[m][i], bound[m])
      BY <1>2, <3>2 DEF Among, IsUnbound
    <3> QED BY <1>4, <3>1, <3>2
  <2>4. ASSUME NEW k \in 1..Len(events)
        PROVE  QueueInv(events[k].queue, bound', binds', spent', overtaken')
    <3>1. PICK q \in Seq(Entry) : q = events[k].queue
      <4>1. events[k] \in EventRecord
        BY <1>1
      <4> QED BY <4>1 DEF EventRecord
    <3>2. QueueInv(q, bound, binds, spent, overtaken)
      BY <1>2, <3>1
    <3>3. binds' \in Nat /\ binds <= binds'
      BY <1>1, <1>4
    <3>4. QueueInv(q, bound', binds', spent, overtaken)
      BY <1>1, <1>4, <3>2, <3>3, LaterQueue
    <3> QED BY <2>1, <3>1, <3>4
  <2> QED BY <2>1, <2>2, <2>3, <2>4 DEF OnceInv
<1>5. ASSUME NEW n \in Element, On(n) PROVE OnceInv'
  <2>1. /\ binds' = binds + 1
        /\ \A m \in Element : \A i \in 1..Len(bound'[m]) :
              bound'[m][i].id = binds + 1 \/ Among(bound'[m][i], bound[m])
    BY <1>1, <1>5, OnKeeps
  <2>2. UNCHANGED <<events, onceVars>>
    BY <1>5 DEF On
  <2> QED BY <1>4, <2>1, <2>2
<1>6. ASSUME NEW n \in Element, Off(n) PROVE OnceInv'
  <2>1. PICK gone : gone \subseteq ToSet(bound[n]) /\ RemoveAll(n, gone)
    BY <1>1, <1>6, MatchingFacts DEF Off
  <2>2. UNCHANGED <<events, onceVars>> /\ binds' = binds + 1 /\ binds' \in Nat /\ binds <= binds'
    BY <1>1, <1>6 DEF Off, Bind
  <2>3. \A m \in Element : \A i \in 1..Len(bound'[m]) : Among(bound'[m][i], bound[m])
    BY <1>1, <2>1, <2>2, RemoveAllKeeps
  <2> QED BY <1>4, <2>2, <2>3
<1>7. ASSUME NEW n \in Element, Trigger(n) PROVE OnceInv'
  <2>1. PICK ns \in Space : events' = Append(events,
           [target |-> n, namespace |-> ns, at |-> n, queue |-> HandlerQueue(n, n, ns),
            stopped |-> FALSE, running |-> 0, called |-> <<>>])
    BY <1>7 DEF Trigger
  <2>2. PICK f : Fresh(f, n, ns) /\ events' = Append(events, f)
    BY <2>1 DEF Fresh
  <2>3. f \in EventRecord /\ EventOrder(f) /\ f.at \in Element /\ IsCurrent(f)
    BY <1>1, <2>2, FreshOrder
  <2>4. Holds(events', events, f)
    BY <1>1, <2>2, <2>3, AppendHolds
  <2>5. QueueInv(f.queue, bound, binds, spent, overtaken)
    BY <1>1, <1>2, <2>3, CurrentQueue
  <2> QED BY <1>3, <1>7, <2>4, <2>5 DEF Trigger
<1>8. CASE CallNext
  <2>1. PICK next : next = Head(Event.queue)
    OBVIOUS
  <2>2. PICK f : f = Call(Event, next)
    OBVIOUS
  <2>3. CASE next.h.one
    BY <1>8, <2>1, <2>3, OneIsCalled
  <2>4. CASE ~next.h.one
    <3>1. /\ events # <<>> /\ Event = events[Len(events)] /\ Event.queue # <<>> /\ Event.queue \in Seq(Entry)
          /\ f \in EventRecord /\ f.queue = Tail(Event.queue) /\ Becomes(f) /\ Note(next.h)
          /\ UNCHANGED <<bound, delegateCount>>
      BY <1>8, <2>1, <2>2, <2>4, CallNextFacts
    <3>2. UNCHANGED <<bound, binds, onceVars>>
      BY <1>8, <2>4, <3>1 DEF Note, CallNext
    <3>3. QueueInv(Event.queue, bound, binds, spent, overtaken)
      BY <1>1, <1>2, <3>1, LastEventFacts
    <3>4. f.queue \in Seq(Entry) /\ Thinned(f.queue, Event.queue)
      BY <3>1, RestOfQueue, ThinnedFacts
    <3>5. QueueInv(f.queue, bound, binds, spent, overtaken)
      BY <3>3, <3>4, ThinnedQueue
    <3>6. Holds(events', events, f)
      BY <1>1, <3>1, BecomesHolds
    <3> QED BY <1>3, <3>2, <3>5, <3>6
  <2> QED BY <2>3, <2>4
<1>9. CASE HandlerReturns
  <2>1. events # <<>> /\ Event = events[Len(events)]
    BY <1>9, HandlerReturnsFacts
  <2>2. PICK f \in EventRecord : Becomes(f) /\ Thinned(f.queue, Event.queue)
    BY <1>9, HandlerReturnsFacts
  <2>3. QueueInv(Event.queue, bound, binds, spent, overtaken)
    BY <1>1, <1>2, <2>1, LastEventFacts
  <2>4. QueueInv(f.queue, bound, binds, spent, overtaken)
    <3>1. f.queue \in Seq(Entry)
      BY DEF EventRecord
    <3> QED BY <2>2, <2>3, <3>1, ThinnedQueue
  <2>5. Holds(events', events, f)
    BY <1>1, <2>1, <2>2, BecomesHolds
  <2> QED BY <1>3, <1>9, <2>4, <2>5 DEF HandlerReturns
<1>10. CASE BubbleUp
  <2>1. UNCHANGED <<bound, delegateCount, binds, onceVars>> /\ events # <<>>
    BY <1>10 DEF BubbleUp
  <2>2. CASE events' = Front(events)
    <3>1. /\ Len(events') = Len(events) - 1
          /\ \A i \in 1..(Len(events) - 1) : i \in 1..Len(events) /\ events'[i] = events[i]
      BY <1>1, <2>1, <2>2, LastEventFacts
    <3> QED BY <1>2, <2>1, <3>1 DEF OnceInv, onceVars
  <2>3. CASE \E f \in EventRecord : Becomes(f) /\ EventOrder(f) /\ f.at \in Element /\ IsCurrent(f)
    <3>1. PICK f \in EventRecord : Becomes(f) /\ EventOrder(f) /\ f.at \in Element /\ IsCurrent(f)
      BY <2>3
    <3>2. Holds(events', events, f)
      BY <1>1, <2>1, <3>1, BecomesHolds
    <3>3. QueueInv(f.queue, bound, binds, spent, overtaken)
      BY <1>1, <1>2, <3>1, CurrentQueue
    <3> QED BY <1>3, <2>1, <3>2, <3>3
  <2> QED BY <1>10, <2>2, <2>3, BubbleFacts
<1>11. CASE UNCHANGED eventVars
  BY <1>11 DEF eventVars, onceVars, OnceInv
<1> QED BY <1>5, <1>6, <1>7, <1>8, <1>9, <1>10, <1>11 DEF EventsNext

\* A function bound for one call is called once, also by the events that it
\* triggers itself, unless another function triggers an event while the first
\* event still has it to call.
THEOREM OneIsAlwaysCalledOnce == EventsSpec => []OneIsCalledOnce
<1>1. OnceInv => OneIsCalledOnce
  BY DEF OnceInv, OneIsCalledOnce
<1>2. EventsInv /\ EventsInv' /\ OnceInv /\ [EventsNext]_eventVars => OnceInv'
  BY OnceStep
<1> QED BY <1>1, <1>2, EventsInvariant, OnceStart, PTL DEF EventsSpec
=============================================================================
