\* Six tokens: five fields and one more, typed in any order.
CONSTANT MaxTokens = 6

SPECIFICATION Spec

\* Typing stops at the bound.
CHECK_DEADLOCK FALSE
INVARIANT FormAcceptsSpecSchedules
