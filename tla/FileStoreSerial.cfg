CONSTANTS
    h1 = h1
    h2 = h2
    h3 = h3
    mail = mail
    old = old
    new = new
    Business = {mail}
    Info = {old, new}
    MinPort = 2
    MaxPort = 5
    PortRange <- MCPortRange
    Requests <- MCRequests
    Stored <- MCEveryStored
    Handler = {h1, h2}
    MaxArrivals = 3
SPECIFICATION SerialSpec
PROPERTIES
    ImplementsService
\* Users fall silent once MaxArrivals requests have been answered.
CHECK_DEADLOCK FALSE
