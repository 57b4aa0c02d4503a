CONSTANTS
    c1 = c1
    c2 = c2
    f1 = f1
    f2 = f2
    Client = {c1}
    Files = {f1}
    Chunks = 2
    MaxCommands = 3
    MaxLost = 2
    MaxOvertaken = 1
SPECIFICATION Spec
CHECK_DEADLOCK FALSE
INVARIANTS FileInv ReplyAnswers FilesArrive NothingLeftOver
PROPERTY CommandsEnd
