----------------------------- MODULE MCErrorStack -----------------------------
(* Errors with texts that fit, just fit, do not fit and are missing; codes of   *)
(* the server, its last one, and one of nobody's.                               *)
EXTENDS ErrorStack

E(code, message, file, line, function) ==
    [code |-> code, message |-> message, file |-> file, line |-> line, function |-> function]

MCErrors ==
    {E(-100, <<1, 2, 1>>, <<1>>, 1, <<2>>), E(-702, NULL, <<1, 1, 2>>, 2, NULL),
     E(0, <<2, 2>>, NULL, 3, <<2, 1, 2>>), E(9999, <<>>, <<2>>, -1, <<1>>)}
===============================================================================
