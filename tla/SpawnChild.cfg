SPECIFICATION ChildSpec
CONSTANTS
    Files <- MCFiles
    HooksOf <- MCHooksOf
    Loopers = {"ace"}
    AsanModule = "asan"
INVARIANTS
    AnswerIsTrue
    FailureClears
