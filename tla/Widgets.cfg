CONSTANTS
    m1 = m1
    m2 = m2
    t1 = t1
    t2 = t2
    t3 = t3
    MaxDialogs = 3
    Message = {m1, m2}
    MaxShown = 3
    MaxHidden = 4
    Items = 3
    MaxWaiting = 3
    Panel = {1, 2, 3}
    Tab = {t1, t2, t3}
    MaxEnds = 2
    Text <- MCText
    Known <- MCKnown
    Match <- MCMatch
    MenuLength = 2
SPECIFICATION Spec
INVARIANTS
    OpenDialogListens
    AnswersArrive
    ModalAgrees
    TipAgrees
    CarouselAgrees
    CollapseAgrees
    TabsAgree
    TypeaheadAgrees
PROPERTIES
    HiddenDisappears
\* Users may stop at any time, and nothing is left to happen then.
CHECK_DEADLOCK FALSE
