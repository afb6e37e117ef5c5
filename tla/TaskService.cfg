CONSTANTS
    h1 = h1
    h2 = h2
    mail = mail
    web = web
    old = old
    new = new
    Handler = {h1, h2}
    Business = {mail, web}
    Info = {old, new}
    MinPort = 2
    MaxPort = 7
    PortRange <- MCPortRange
    Requests <- MCRequests
    Stored <- MCStored
    MaxArrivals = 3
SPECIFICATION Spec
INVARIANTS
    TypeOK
    TasksDistinct
PROPERTIES
    AutoIsFirstFit
    TasksKeepTheirPort
    ExhaustedIsNearlyFull
\* Clients fall silent once MaxArrivals requests have been answered.
CHECK_DEADLOCK FALSE
