CONSTANTS
    None = None
    Entries = {e1, e2}
    Members = {m1}
    Handlers = {h1, h2}
    Cap = 2
    MaxRestarts = 1
SPECIFICATION FairSpec
INVARIANTS TypeOK JSONCovered IPSetCovered
PROPERTIES HistoryKept CallsReturn EventuallySaved
