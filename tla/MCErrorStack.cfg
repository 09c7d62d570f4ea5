\* Two slots, and errors enough to push both of them out twice.
SPECIFICATION Spec
CONSTANTS
    Threads = {t1, t2}
    Char = {1, 2}
    NULL = NULL
    Errors <- MCErrors
    YA_ERROR_STACK_SIZE = 2
    YA_ERROR_MSG_SIZE = 3
    FileSize = 3
    FunctionSize = 2
    MaxReports = 4
INVARIANTS ErrorsKept MessagesTold
