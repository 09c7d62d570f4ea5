----------------------------- MODULE ErrorStack -----------------------------
(***************************************************************************)
(* The error stack of src/server/src/ya_error.c: every thread has a        *)
(* context of its own, allocated at its first use, that keeps the last     *)
(* errors it reported and the code of the last one.                        *)
(*                                                                         *)
(* A reported error is what the caller hands over: texts of any length, or *)
(* NULL.  A context is the C structure: an array of slots, of which the    *)
(* first stack_size are in use and the others keep what they held.         *)
(***************************************************************************)
EXTENDS Integers, Sequences

CONSTANTS
    Threads,
    Char,           \* what texts are made of
    NULL,
    Errors,         \* what callers may report
    YA_ERROR_STACK_SIZE,    \* 64
    YA_ERROR_MSG_SIZE,      \* 256
    FileSize,       \* room for a file's name, 256 bytes
    FunctionSize,   \* and for a function's, 64 bytes
    MaxReports      \* bound: errors a thread reports before it clears them

Text == Seq(Char)
MaybeText == Text \cup {NULL}

ASSUME ErrorStackAssumption ==
    /\ YA_ERROR_STACK_SIZE \in Nat \ {0} /\ YA_ERROR_MSG_SIZE \in Nat \ {0}
    /\ FileSize \in Nat \ {0} /\ FunctionSize \in Nat \ {0}
    /\ MaxReports \in Nat
    /\ Errors \subseteq [code : Int, message : MaybeText, file : MaybeText, line : Int,
                         function : MaybeText]

VARIABLES
    error_context,  \* of each thread: NULL or a context
    reported        \* the errors a thread's context took since it was new or cleared

vars == <<error_context, reported>>

---------------------------------------------------------------------------
(* Codes and messages. *)

\* ya_error_code_t in the order of error_code_to_index.
ya_error_code_t ==
    <<0, -1, -100, -101, -102, -103, -200, -201, -202, -300, -301, -302, -303, -400, -401,
      -402, -500, -501, -502, -503, -600, -601, -700, -701, -702>>

YA_OK == 0
YA_ERR_UNKNOWN == -1

ERROR_MESSAGE_COUNT == 30

\* Faulty variant: a code that is none counts as the last of the array.
error_code_to_index_Last(code) ==
    IF \E i \in DOMAIN ya_error_code_t : ya_error_code_t[i] = code
    THEN (CHOOSE i \in DOMAIN ya_error_code_t : ya_error_code_t[i] = code) - 1
    ELSE ERROR_MESSAGE_COUNT - 1

error_code_to_index(code) ==
    IF \E i \in DOMAIN ya_error_code_t : ya_error_code_t[i] = code
    THEN (CHOOSE i \in DOMAIN ya_error_code_t : ya_error_code_t[i] = code) - 1
    ELSE ERROR_MESSAGE_COUNT

\* The array; what it has no text for is NULL.
error_messages ==
    [i \in 0..ERROR_MESSAGE_COUNT - 1 |->
        IF i < 25 THEN
          <<"Success", "Unknown error",
            "Memory allocation failed", "Operation timed out", "System is busy",
            "Operation interrupted",
            "Invalid configuration", "Configuration item not found",
            "Configuration type mismatch",
            "Network error", "Connection error", "Socket error", "Protocol error",
            "Invalid session", "Session expired", "Session limit exceeded",
            "Invalid command", "Invalid command parameters", "Unsupported command",
            "Command execution failed",
            "Permission denied", "Authentication failed",
            "Resource is busy", "Resource limit exceeded", "Resource not found">>[i + 1]
        ELSE "NULL"]

ya_error_get_message(code) ==
    IF error_code_to_index(code) >= ERROR_MESSAGE_COUNT THEN "Invalid error code"
    ELSE error_messages[error_code_to_index(code)]

---------------------------------------------------------------------------
(* Contexts. *)

\* strncpy of a text, or of "" for NULL, into an array and its last byte cleared.
Copied(text, size) ==
    IF text = NULL THEN <<>>
    ELSE SubSeq(text, 1, IF Len(text) < size THEN Len(text) ELSE size - 1)

ya_error_info_t ==
    [code : Int, message : Text, file : Text, line : Int, function : Text]

Info(e) ==
    [code |-> e.code, message |-> Copied(e.message, YA_ERROR_MSG_SIZE),
     file |-> Copied(e.file, FileSize), line |-> e.line,
     function |-> Copied(e.function, FunctionSize)]

Slots == 1..YA_ERROR_STACK_SIZE

ya_error_context_t ==
    [stack : [Slots -> ya_error_info_t], stack_size : 0..YA_ERROR_STACK_SIZE, last_error : Int]

\* No structure is at the NULL address.
ASSUME NullAssumption == NULL \notin ya_error_context_t

\* What calloc returns.
Zeroed ==
    [stack |-> [i \in Slots |->
                   [code |-> 0, message |-> <<>>, file |-> <<>>, line |-> 0, function |-> <<>>]],
     stack_size |-> 0, last_error |-> YA_OK]

\* The contexts ya_error_init may leave: calloc may fail.
Allocated(context) == IF context = NULL THEN {NULL, Zeroed} ELSE {context}

\* Faulty variant: the entries do not move.
Room_Unmoved(context) ==
    IF context.stack_size >= YA_ERROR_STACK_SIZE
    THEN [context EXCEPT !.stack_size = YA_ERROR_STACK_SIZE - 1]
    ELSE context

\* A full stack loses its oldest error: memmove, whose last slot stays as it is.
Room(context) ==
    IF context.stack_size >= YA_ERROR_STACK_SIZE
    THEN [context EXCEPT
            !.stack = [i \in Slots |-> IF i = YA_ERROR_STACK_SIZE THEN context.stack[i]
                                       ELSE context.stack[i + 1]],
            !.stack_size = YA_ERROR_STACK_SIZE - 1]
    ELSE context

Pushed(context, e) ==
    LET room == Room(context)
    IN  [stack |-> [room.stack EXCEPT ![room.stack_size + 1] = Info(e)],
         stack_size |-> room.stack_size + 1,
         last_error |-> e.code]

---------------------------------------------------------------------------
(* What callers read. *)

ya_error_get_last(t) ==
    IF error_context[t] = NULL THEN YA_ERR_UNKNOWN ELSE error_context[t].last_error

\* The slots a caller may read, NULL with a size of 0 being no slot.
ya_error_get_stack(t) ==
    IF error_context[t] = NULL THEN <<>>
    ELSE [i \in 1..error_context[t].stack_size |-> error_context[t].stack[i]]

---------------------------------------------------------------------------
(* The operations. *)

Init ==
    /\ error_context = [t \in Threads |-> NULL]
    /\ reported = [t \in Threads |-> <<>>]

ya_error_init(t) ==
    /\ \E context \in Allocated(error_context[t]) :
          error_context' = [error_context EXCEPT ![t] = context]
    /\ UNCHANGED reported

ya_error_cleanup(t) ==
    /\ error_context' = [error_context EXCEPT ![t] = NULL]
    /\ reported' = [reported EXCEPT ![t] = <<>>]

ya_error_set(t, e) ==
    /\ Len(reported[t]) < MaxReports
    /\ \E context \in Allocated(error_context[t]) :
          \/ /\ context = NULL
             /\ UNCHANGED vars
          \/ /\ context # NULL
             /\ error_context' = [error_context EXCEPT ![t] = Pushed(context, e)]
             /\ reported' = [reported EXCEPT ![t] = Append(@, e)]

ya_error_clear(t) ==
    /\ error_context' =
          [error_context EXCEPT ![t] =
              IF @ = NULL THEN NULL ELSE [@ EXCEPT !.stack_size = 0, !.last_error = YA_OK]]
    /\ reported' = [reported EXCEPT ![t] = <<>>]

Next ==
    \E t \in Threads :
        \/ ya_error_init(t)
        \/ ya_error_cleanup(t)
        \/ \E e \in Errors : ya_error_set(t, e)
        \/ ya_error_clear(t)

Spec == Init /\ [][Next]_vars

---------------------------------------------------------------------------
(* Properties. *)

\* Every thread's context is missing or a well-formed structure.
TypeOK ==
    /\ error_context \in [Threads -> {NULL} \cup ya_error_context_t]
    /\ reported \in [Threads -> Seq(Errors)]

\* ya_error_set: a context that overflowed any number of times shows the newest
\* errors its thread reported since it was cleared, oldest first, each one once and
\* cut to the room of its fields, as many as the stack holds.
ErrorsKept ==
    \A t \in Threads :
        LET all  == reported[t]
            seen == ya_error_get_stack(t)
        IN  /\ Len(seen) = IF Len(all) < YA_ERROR_STACK_SIZE THEN Len(all)
                           ELSE YA_ERROR_STACK_SIZE
            /\ \A i \in 1..Len(seen) : seen[i] = Info(all[Len(all) - Len(seen) + i])

\* ya_error_get_last: the code it tells is that of the newest error on the stack, no
\* error only for a context without one, and unknown where there is no context.
LastTold ==
    \A t \in Threads :
        LET seen == ya_error_get_stack(t)
        IN  ya_error_get_last(t) =
                IF error_context[t] = NULL THEN YA_ERR_UNKNOWN
                ELSE IF seen = <<>> THEN YA_OK ELSE seen[Len(seen)].code

\* ya_error_get_message: an error that was kept has a text, one of its own if its code
\* is one of the server's, and never an entry of the array without one.
MessagesTold ==
    \A t \in Threads : \A i, j \in 1..Len(ya_error_get_stack(t)) :
        LET a == ya_error_get_stack(t)[i].code
            b == ya_error_get_stack(t)[j].code
            known == \E k \in DOMAIN ya_error_code_t : ya_error_code_t[k] = a
        IN  /\ ya_error_get_message(a) # "NULL"
            /\ known <=> ya_error_get_message(a) # "Invalid error code"
            /\ known /\ a # b => ya_error_get_message(a) # ya_error_get_message(b)
=============================================================================
