CONSTANTS
    h1 = h1
    h2 = h2
    h3 = h3
    mail = mail
    old = old
    new = new
    Business = {mail}
    Info = {old, new}
    MinPort = 2
    MaxPort = 5
    PortRange <- MCPortRange
    Requests <- MCInserts
    Stored <- MCStored
    Handler = {h1, h2}
    MaxArrivals = 2
SPECIFICATION Spec
PROPERTIES
    InsertOnlyAdds
