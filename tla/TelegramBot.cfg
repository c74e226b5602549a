CONSTANTS
    c1 = c1
    c2 = c2
    Chats <- MCChats
    Names = {n1}
    Handlers = {h1}
    Bot = Bot
    None = None
    Cap = 1
    MaxUpdates = 3
    MaxRestarts = 1
    Domains = {d1, d2}
    Ips = {i1, i2}
    NoPair = NoPair
    Header = 1
    Title = 1
    Line = 1
    More = 1
    MaxIPsToShow = 1
    MaxMessageSize = 5
    TelegramMax = 6
    MaxPatterns = 6
CHECK_DEADLOCK FALSE
CONSTRAINTS FirstIsC1 RowsFew
SPECIFICATION BothSpec
INVARIANTS TypeOK OnlyWithPassword SuccessLasts LossBounded DisplayTypeOK ShownOnce MessagesFit LabelsJustified NLShowsNL
PROPERTY MessagesHandled
