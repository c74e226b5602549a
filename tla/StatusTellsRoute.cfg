CONSTANTS
    p1 = p1
    p2 = p2
    d1 = d1
    d2 = d2
    i1 = i1
    i2 = i2
    None = None
    Patterns = {p1}
    Domains = {d1, d2}
    Ips = {i1, i2}
    Handlers = {h1}
    Matches <- MCMatches
    Mentions <- MCMentions
    Responses <- MCResponses
    MaxElem = 2
    MaxCommands = 2
    MaxFaults = 0
SPECIFICATION Spec
INVARIANT StatusTellsRoute
