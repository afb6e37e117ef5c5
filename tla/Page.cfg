CONSTANTS
    h1 = h1
    h2 = h2
    web = web
    old = old
    new = new
    Blank = Blank
    Entered = {new}
    NoRow = NoRow
    Handler = {h1, h2}
    Business = {web}
    Info = {old, new}
    MinPort = 2
    MaxPort = 3
    PortRange <- MCPortRange
    Requests <- MCRequests
    Stored <- MCStored
    MaxArrivals = 2
    MaxAsked = 1
SPECIFICATION PageSpec
INVARIANTS
    SubmitGoesToEditedTask
PROPERTIES
    ActsOnShownTask
    RowGoesWithItsTask
CONSTRAINT Bounded
