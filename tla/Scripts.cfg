CONSTANTS
    r1 = r1
    r2 = r2
    handler1 = handler1
    MaxOps <- MCMaxOps
    Scripts = {"list", "deferred", "when"}
    Req = {r1, r2}
    MaxAborts = 1
    Added <- MCAdded
    Depth = 2
    Fn = {handler1}
    Space = {"none"}
    MaxEvents = 2
    MaxBinds = 3
    MaxCalls = 4
SPECIFICATION Spec
INVARIANTS
    LoopCallsWhatIsDue
    PromiseIsKept
    StartsAndStops
    EndsInOrder
    GetsWhatWasAsked
    EventsBubble
    OneIsCalledOnce
    OneEffectAtATime
    FadesRestore
PROPERTIES
    ValuesDoNotMix
    TimedRequestsEnd
    PromiseOfEffects
\* Scripts stop calling at their bounds, and everything has been called then.
CHECK_DEADLOCK FALSE
