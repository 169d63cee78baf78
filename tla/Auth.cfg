SPECIFICATION Spec
CONSTANTS
    Threads = {t1, t2}
    Names = {"u1", "u2", "u3"}
    Passwords = {"p1", "p2"}
    Roles = {"r1", "r2"}
    UsersFile <- FileOfThree
    Asked <- SomeRequests
    NULL = NULL
    None = None
INVARIANTS
    TypeOK
    AnswersAreOfTheRequest
