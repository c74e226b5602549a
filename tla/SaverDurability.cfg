CONSTANTS
    None = None
    Entries = {e1, e2}
    Members = {m1}
    Handlers = {h1}
    Cap = 1
    MaxRestarts = 1
SPECIFICATION Spec
PROPERTY HistorySurvivesRestart
