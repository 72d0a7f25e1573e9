CONSTANTS
    Now = 10000
    None = None
    Asset = "A"
    Malformed = Malformed
    Waiting = Waiting
    Lost = Lost
    Notional = 12
    Period = 60
    Limit = 5
    AllowedHosts = {"psx"}
    Volatility <- MCVolatility
    LogChange <- MCLogChange
    Wires <- MCWires
    Ages <- MCAges
    Statuses <- MCStatuses
    Requests <- FilingsOnly
    Pool <- Repeated
SPECIFICATION Spec
INVARIANT RepeatedFactsHarmless
