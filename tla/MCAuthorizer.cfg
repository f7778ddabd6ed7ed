SPECIFICATION AuthorizerSpec
CONSTANTS
    r1 = r1  r2 = r2
    Request <- MCRequests
    Question = {k}
    Nil = Nil
    CacheTTL = 2  Timeout = 1  Margin = 2  TokenTTL = 4  MaxTime = 5
CHECK_DEADLOCK FALSE
INVARIANTS
    AuthorizerTypeOK
    AnswerRecent
    TokenAlive
PROPERTIES
    Answered
