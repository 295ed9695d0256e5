SPECIFICATION Spec
CONSTANTS
    Callers = {"terminal", "agent", "git", "search"}
    MaxBytes = 3
    MaxOutput = 3
    PipeSize = 2
INVARIANTS OutputIsTrue AnswerIsFinal
PROPERTIES Answered
CHECK_DEADLOCK FALSE
