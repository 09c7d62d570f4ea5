-------------------------- MODULE ErrorStack_proofs --------------------------
(***************************************************************************)
(* Proofs about ErrorStack: for every number of threads, size of the stack *)
(* and text, a thread's context shows the newest errors it reported and    *)
(* tells the code of the newest.                                           *)
(***************************************************************************)
EXTENDS ErrorStack, TLAPS

\* What a context holds of the errors its thread reported.
Holds(context, all) ==
    /\ context.stack_size =
          IF Len(all) < YA_ERROR_STACK_SIZE THEN Len(all) ELSE YA_ERROR_STACK_SIZE
    /\ \A i \in 1..context.stack_size :
          context.stack[i] = Info(all[Len(all) - context.stack_size + i])
    /\ context.last_error =
          IF context.stack_size = 0 THEN YA_OK ELSE context.stack[context.stack_size].code

\* The inductive invariant.
Kept ==
    \A t \in Threads :
        IF error_context[t] = NULL THEN reported[t] = <<>>
        ELSE Holds(error_context[t], reported[t])

IInv == TypeOK /\ Kept

---------------------------------------------------------------------------
\* Copied (ya_error.c:125, strncpy and a terminator) makes a text of any caller's.
LEMMA CopiedIsText ==
    ASSUME NEW text \in MaybeText, NEW size \in Nat \ {0}
    PROVE  Copied(text, size) \in Text
<1>1. CASE text = NULL
  BY <1>1 DEF Copied, Text
<1>2. CASE text # NULL
  <2>1. text \in Seq(Char)
    BY <1>2 DEF MaybeText, Text
  <2> DEFINE n == IF Len(text) < size THEN Len(text) ELSE size - 1
  <2>2. n \in Nat /\ n <= Len(text)
    BY <2>1
  <2>3. SubSeq(text, 1, n) \in Seq(Char)
    BY <2>1, <2>2
  <2> QED
    BY <1>2, <2>3 DEF Copied, Text
<1> QED
  BY <1>1, <1>2

\* What ya_error_set stores is an entry of the stack.
LEMMA InfoIsEntry ==
    ASSUME NEW e \in Errors
    PROVE  Info(e) \in ya_error_info_t
<1>1. /\ e.code \in Int /\ e.line \in Int
      /\ e.message \in MaybeText /\ e.file \in MaybeText /\ e.function \in MaybeText
  BY ErrorStackAssumption
<1>2. /\ Copied(e.message, YA_ERROR_MSG_SIZE) \in Text
      /\ Copied(e.file, FileSize) \in Text
      /\ Copied(e.function, FunctionSize) \in Text
  BY <1>1, CopiedIsText, ErrorStackAssumption
<1> QED
  BY <1>1, <1>2 DEF Info, ya_error_info_t

\* calloc gives a context that holds no error.
LEMMA ZeroedHolds ==
    Zeroed \in ya_error_context_t /\ Holds(Zeroed, <<>>)
<1>1. <<>> \in Text
  BY DEF Text
<1>2. Zeroed \in ya_error_context_t
  BY <1>1, ErrorStackAssumption
  DEF Zeroed, ya_error_context_t, ya_error_info_t, YA_OK
<1>3. Holds(Zeroed, <<>>)
  BY ErrorStackAssumption DEF Zeroed, Holds
<1> QED
  BY <1>2, <1>3

\* After Room there is a slot free, and the errors left are the newest ones.
LEMMA RoomIsMade ==
    ASSUME NEW context \in ya_error_context_t, NEW all \in Seq(Errors), Holds(context, all)
    PROVE  LET room == Room(context)
           IN  /\ room \in ya_error_context_t
               /\ room.stack_size \in 0..YA_ERROR_STACK_SIZE - 1
               /\ room.stack_size = IF Len(all) < YA_ERROR_STACK_SIZE THEN Len(all)
                                    ELSE YA_ERROR_STACK_SIZE - 1
               /\ \A i \in 1..room.stack_size :
                     room.stack[i] = Info(all[Len(all) - room.stack_size + i])
<1> DEFINE N == YA_ERROR_STACK_SIZE
           Made(room) ==
               /\ room \in ya_error_context_t
               /\ room.stack_size \in 0..N - 1
               /\ room.stack_size = IF Len(all) < N THEN Len(all) ELSE N - 1
               /\ \A i \in 1..room.stack_size :
                     room.stack[i] = Info(all[Len(all) - room.stack_size + i])
<1> SUFFICES Made(Room(context))
  OBVIOUS
<1>1. N \in Nat \ {0} /\ Len(all) \in Nat
  BY ErrorStackAssumption
<1>2. /\ context.stack \in [Slots -> ya_error_info_t]
      /\ context.stack_size \in 0..N
      /\ context.last_error \in Int
  BY DEF ya_error_context_t
<1>3. CASE context.stack_size < N
  <2>1. Room(context) = context
    BY <1>1, <1>2, <1>3 DEF Room
  <2>2. Len(all) < N /\ context.stack_size = Len(all)
    BY <1>1, <1>3 DEF Holds
  <2> QED
    BY <1>1, <1>2, <2>1, <2>2 DEF Holds
<1>4. CASE context.stack_size >= N
  <2> DEFINE moved == [i \in Slots |-> IF i = N THEN context.stack[i] ELSE context.stack[i + 1]]
  <2>1. Room(context) = [context EXCEPT !.stack = moved, !.stack_size = N - 1]
    BY <1>4 DEF Room
  <2>a. context = [stack |-> context.stack, stack_size |-> context.stack_size,
                   last_error |-> context.last_error]
    BY DEF ya_error_context_t
  <2>2. context.stack_size = N /\ Len(all) >= N
    BY <1>1, <1>2, <1>4 DEF Holds
  <2>3. moved \in [Slots -> ya_error_info_t]
    BY <1>1, <1>2 DEF Slots
  <2>b. Room(context) = [stack |-> moved, stack_size |-> N - 1,
                         last_error |-> context.last_error]
    <3> HIDE DEF moved
    <3> QED
      BY <2>1, <2>a
  <2>c. N - 1 \in 0..N /\ N - 1 \in 0..N - 1
    BY <1>1
  <2>4. /\ Room(context).stack = moved
        /\ Room(context).stack_size = N - 1
        /\ Room(context) \in ya_error_context_t
    <3> HIDE DEF moved
    <3> QED
      BY <1>2, <2>b, <2>3, <2>c DEF ya_error_context_t
  <2>5. ASSUME NEW i \in 1..N - 1
        PROVE  moved[i] = Info(all[Len(all) - (N - 1) + i])
    <3>1. i \in Slots /\ i # N /\ i + 1 \in 1..N
      BY <1>1 DEF Slots
    <3>2. moved[i] = context.stack[i + 1]
      BY <3>1
    <3>3. context.stack[i + 1] = Info(all[Len(all) - N + (i + 1)])
      BY <2>2, <3>1 DEF Holds
    <3>4. Len(all) - N + (i + 1) = Len(all) - (N - 1) + i
      BY <1>1, <3>1
    <3> QED
      BY <3>2, <3>3, <3>4
  <2>6. ~ (Len(all) < N)
    BY <1>1, <2>2
  <2> HIDE DEF moved
  <2> QED
    BY <2>c, <2>4, <2>5, <2>6
<1>5. context.stack_size < N \/ context.stack_size >= N
  BY <1>1, <1>2
<1> QED
  BY <1>3, <1>4, <1>5

\* One more error: ya_error_set keeps what a context holds true.
LEMMA PushedHolds ==
    ASSUME NEW context \in ya_error_context_t, NEW all \in Seq(Errors), Holds(context, all),
           NEW e \in Errors
    PROVE  Pushed(context, e) \in ya_error_context_t /\ Holds(Pushed(context, e), Append(all, e))
<1> DEFINE N == YA_ERROR_STACK_SIZE
           room == Room(context)
           n == room.stack_size
           stack == [room.stack EXCEPT ![n + 1] = Info(e)]
           new == Append(all, e)
<1>1. N \in Nat \ {0} /\ Len(all) \in Nat /\ all \in Seq(Errors) /\ e \in Errors
  BY ErrorStackAssumption
<1>2. /\ room \in ya_error_context_t
      /\ n \in 0..N - 1
      /\ n = IF Len(all) < N THEN Len(all) ELSE N - 1
      /\ \A i \in 1..n : room.stack[i] = Info(all[Len(all) - n + i])
  BY RoomIsMade
<1>3. room.stack \in [Slots -> ya_error_info_t]
  BY <1>2 DEF ya_error_context_t
<1>4. n + 1 \in Slots
  BY <1>1, <1>2 DEF Slots
<1>5. Info(e) \in ya_error_info_t
  BY InfoIsEntry
<1>6. stack \in [Slots -> ya_error_info_t]
  BY <1>3, <1>4, <1>5
<1>7. e.code \in Int /\ Info(e).code = e.code
  BY ErrorStackAssumption DEF Info
<1>8. Pushed(context, e) = [stack |-> stack, stack_size |-> n + 1, last_error |-> e.code]
  BY DEF Pushed
<1>9. /\ Pushed(context, e).stack = stack
      /\ Pushed(context, e).stack_size = n + 1
      /\ Pushed(context, e).last_error = e.code
  BY <1>8
<1>10. Pushed(context, e) \in ya_error_context_t
  <2>1. n + 1 \in 0..N
    BY <1>1, <1>2
  <2> QED
    BY <1>6, <1>7, <1>8, <2>1 DEF ya_error_context_t
<1>11. Len(new) = Len(all) + 1 /\ new[Len(all) + 1] = e
       /\ \A j \in 1..Len(all) : new[j] = all[j]
  BY <1>1
<1>12. n + 1 = IF Len(new) < N THEN Len(new) ELSE N
  BY <1>1, <1>2, <1>11
<1>13. ASSUME NEW i \in 1..n + 1
       PROVE  stack[i] = Info(new[Len(new) - (n + 1) + i])
  <2>1. CASE i = n + 1
    <3>1. stack[i] = Info(e)
      BY <1>3, <1>4, <2>1
    <3>2. Len(new) - (n + 1) + i = Len(all) + 1
      <4>1. n \in Nat /\ Len(new) = Len(all) + 1 /\ Len(all) \in Nat /\ i = n + 1
        BY <1>1, <1>2, <1>11, <2>1
      <4> HIDE DEF n, new
      <4> QED
        BY <4>1
    <3> QED
      BY <1>11, <3>1, <3>2
  <2>2. CASE i # n + 1
    <3>1. i \in 1..n /\ i \in Slots
      BY <1>1, <1>2, <2>2 DEF Slots
    <3>2. stack[i] = room.stack[i]
      BY <1>3, <2>2, <3>1
    <3>3. room.stack[i] = Info(all[Len(all) - n + i])
      BY <1>2, <3>1
    <3>4. /\ Len(new) - (n + 1) + i = Len(all) - n + i
          /\ Len(all) - n + i \in 1..Len(all)
      BY <1>1, <1>2, <1>11, <3>1
    <3> QED
      BY <1>11, <3>2, <3>3, <3>4
  <2> QED
    BY <2>1, <2>2
<1>14. stack[n + 1].code = e.code
  BY <1>3, <1>4, <1>7
<1>15. n + 1 # 0
  BY <1>1, <1>2
<1>16. Holds(Pushed(context, e), new)
  <2> HIDE DEF n, stack, new
  <2> QED
    BY <1>9, <1>12, <1>13, <1>14, <1>15 DEF Holds
<1> QED
  BY <1>10, <1>16

---------------------------------------------------------------------------
\* No thread has a context to begin with.
LEMMA InitEstablishes == Init => IInv
  BY DEF Init, IInv, TypeOK, Kept

\* A call changes its thread's context and errors only.
LEMMA StepKeeps == IInv /\ [Next]_vars => IInv'
<1> SUFFICES ASSUME IInv, [Next]_vars PROVE IInv'
  OBVIOUS
<1>t. TypeOK /\ Kept
  BY DEF IInv
<1>s. ASSUME NEW t \in Threads,
             NEW context \in {NULL} \cup ya_error_context_t, NEW all \in Seq(Errors),
             error_context' = [error_context EXCEPT ![t] = context],
             reported' = [reported EXCEPT ![t] = all],
             IF context = NULL THEN all = <<>> ELSE Holds(context, all)
      PROVE  IInv'
  <2>1. TypeOK'
    BY <1>t, <1>s DEF TypeOK
  <2>2. ASSUME NEW u \in Threads
        PROVE  IF error_context'[u] = NULL THEN reported'[u] = <<>>
               ELSE Holds(error_context'[u], reported'[u])
    <3>1. CASE u = t
      <4>1. error_context'[u] = context /\ reported'[u] = all
        BY <1>t, <1>s, <3>1 DEF TypeOK
      <4> QED
        BY <1>s, <4>1
    <3>2. CASE u # t
      <4>1. error_context'[u] = error_context[u] /\ reported'[u] = reported[u]
        BY <1>t, <1>s, <3>2 DEF TypeOK
      <4> QED
        BY <1>t, <4>1 DEF Kept
    <3> QED
      BY <3>1, <3>2
  <2> QED
    BY <2>1, <2>2 DEF IInv, Kept
<1>a. ASSUME NEW t \in Threads
      PROVE  \A context \in Allocated(error_context[t]) :
                /\ context \in {NULL} \cup ya_error_context_t
                /\ reported[t] \in Seq(Errors)
                /\ IF context = NULL THEN reported[t] = <<>> ELSE Holds(context, reported[t])
  <2>1. CASE error_context[t] = NULL
    BY <1>t, <2>1, ZeroedHolds DEF Allocated, TypeOK, Kept
  <2>2. CASE error_context[t] # NULL
    BY <1>t, <2>2 DEF Allocated, TypeOK, Kept
  <2> QED
    BY <2>1, <2>2
<1>1. ASSUME NEW t \in Threads, ya_error_init(t)
      PROVE  IInv'
  <2>1. PICK context \in Allocated(error_context[t]) :
            error_context' = [error_context EXCEPT ![t] = context]
    BY <1>1 DEF ya_error_init
  <2>2. reported' = [reported EXCEPT ![t] = reported[t]]
    BY <1>t, <1>1 DEF ya_error_init, TypeOK
  <2> QED
    BY <1>a, <1>s, <2>1, <2>2
<1>2. ASSUME NEW t \in Threads, ya_error_cleanup(t)
      PROVE  IInv'
  <2>1. <<>> \in Seq(Errors)
    OBVIOUS
  <2> QED
    BY <1>2, <1>s, <2>1 DEF ya_error_cleanup
<1>3. ASSUME NEW t \in Threads, NEW e \in Errors, ya_error_set(t, e)
      PROVE  IInv'
  <2>1. PICK context \in Allocated(error_context[t]) :
            \/ context = NULL /\ UNCHANGED vars
            \/ /\ context # NULL
               /\ error_context' = [error_context EXCEPT ![t] = Pushed(context, e)]
               /\ reported' = [reported EXCEPT ![t] = Append(reported[t], e)]
    BY <1>3 DEF ya_error_set
  <2>2. CASE context = NULL /\ UNCHANGED vars
    BY <1>t, <2>2 DEF IInv, TypeOK, Kept, Holds, vars
  <2>3. CASE /\ context # NULL
             /\ error_context' = [error_context EXCEPT ![t] = Pushed(context, e)]
             /\ reported' = [reported EXCEPT ![t] = Append(reported[t], e)]
    <3>1. /\ context \in ya_error_context_t /\ reported[t] \in Seq(Errors)
          /\ Holds(context, reported[t])
      BY <1>a, <2>1, <2>3
    <3>2. /\ Pushed(context, e) \in ya_error_context_t
          /\ Holds(Pushed(context, e), Append(reported[t], e))
      BY <3>1, PushedHolds
    <3>3. Append(reported[t], e) \in Seq(Errors) /\ Append(reported[t], e) # <<>>
      BY <3>1
    <3>4. CASE Pushed(context, e) # NULL
      BY <1>s, <2>3, <3>2, <3>3, <3>4
    <3> QED
      BY <3>2, <3>4, NullAssumption
  <2> QED
    BY <2>1, <2>2, <2>3
<1>4. ASSUME NEW t \in Threads, ya_error_clear(t)
      PROVE  IInv'
  <2> DEFINE old == error_context[t]
             context == IF old = NULL THEN NULL
                        ELSE [old EXCEPT !.stack_size = 0, !.last_error = YA_OK]
  <2>1. /\ error_context' = [error_context EXCEPT ![t] = context]
        /\ reported' = [reported EXCEPT ![t] = <<>>]
    BY <1>4 DEF ya_error_clear
  <2>2. old \in {NULL} \cup ya_error_context_t
    BY <1>t DEF TypeOK
  <2>3. CASE old = NULL
    <3>1. context = NULL /\ <<>> \in Seq(Errors)
      BY <2>3
    <3> HIDE DEF context
    <3> QED
      BY <1>s, <2>1, <3>1
  <2>4. CASE old # NULL
    <3>1. old \in ya_error_context_t
      BY <2>2, <2>4
    <3>a. context = [stack |-> old.stack, stack_size |-> 0, last_error |-> YA_OK]
      BY <2>4, <3>1 DEF ya_error_context_t
    <3>2. /\ context \in ya_error_context_t
          /\ context.stack_size = 0 /\ context.last_error = YA_OK
      <4>1. old.stack \in [Slots -> ya_error_info_t] /\ YA_OK \in Int
        BY <3>1 DEF ya_error_context_t, YA_OK
      <4>2. 0 \in 0..YA_ERROR_STACK_SIZE
        BY ErrorStackAssumption
      <4> HIDE DEF context
      <4> QED
        BY <3>a, <4>1, <4>2 DEF ya_error_context_t
    <3>3. Holds(context, <<>>)
      BY <3>2, ErrorStackAssumption DEF Holds
    <3>4. <<>> \in Seq(Errors)
      OBVIOUS
    <3> HIDE DEF context
    <3> QED
      BY <1>s, <2>1, <3>2, <3>3, <3>4
  <2> QED
    BY <2>3, <2>4
<1>5. CASE UNCHANGED vars
  BY <1>t, <1>5 DEF IInv, TypeOK, Kept, Holds, vars
<1> QED
  BY <1>1, <1>2, <1>3, <1>4, <1>5 DEF Next

LEMMA Invariance == Spec => []IInv
  BY InitEstablishes, StepKeeps, PTL DEF Spec

---------------------------------------------------------------------------
\* ya_error.c keeps every context a well-formed structure, whatever is reported.
THEOREM TypeCorrect == Spec => []TypeOK
<1>1. IInv => TypeOK
  BY DEF IInv
<1> QED
  BY <1>1, Invariance, PTL

\* ya_error_set and ya_error_get_stack: the stack shows the newest errors of its
\* thread in their order, however often it overflowed.
THEOREM ErrorsAreKept == Spec => []ErrorsKept
<1>1. IInv => ErrorsKept
  <2> SUFFICES ASSUME IInv, NEW t \in Threads
               PROVE  /\ Len(ya_error_get_stack(t)) =
                            IF Len(reported[t]) < YA_ERROR_STACK_SIZE THEN Len(reported[t])
                            ELSE YA_ERROR_STACK_SIZE
                      /\ \A i \in 1..Len(ya_error_get_stack(t)) :
                            ya_error_get_stack(t)[i] =
                            Info(reported[t][Len(reported[t]) - Len(ya_error_get_stack(t)) + i])
    BY DEF ErrorsKept
  <2>1. CASE error_context[t] = NULL
    BY <2>1, ErrorStackAssumption DEF IInv, Kept, ya_error_get_stack
  <2>2. CASE error_context[t] # NULL
    <3> DEFINE n == error_context[t].stack_size
    <3>1. n \in Nat /\ Holds(error_context[t], reported[t])
      BY <2>2, ErrorStackAssumption DEF IInv, TypeOK, Kept, ya_error_context_t
    <3>2. ya_error_get_stack(t) = [i \in 1..n |-> error_context[t].stack[i]]
      BY <2>2 DEF ya_error_get_stack
    <3>3. Len(ya_error_get_stack(t)) = n
      BY <3>1, <3>2
    <3> QED
      BY <3>1, <3>2, <3>3 DEF Holds
  <2> QED
    BY <2>1, <2>2
<1> QED
  BY <1>1, Invariance, PTL

\* ya_error_get_last never disagrees with the stack.
THEOREM LastIsTold == Spec => []LastTold
<1>1. IInv => LastTold
  <2> SUFFICES ASSUME IInv, NEW t \in Threads
               PROVE  ya_error_get_last(t) =
                         IF error_context[t] = NULL THEN YA_ERR_UNKNOWN
                         ELSE IF ya_error_get_stack(t) = <<>> THEN YA_OK
                         ELSE ya_error_get_stack(t)[Len(ya_error_get_stack(t))].code
    BY DEF LastTold
  <2>1. CASE error_context[t] = NULL
    BY <2>1 DEF ya_error_get_last
  <2>2. CASE error_context[t] # NULL
    <3> DEFINE n == error_context[t].stack_size
               seen == ya_error_get_stack(t)
    <3>1. n \in Nat /\ Holds(error_context[t], reported[t])
      BY <2>2, ErrorStackAssumption DEF IInv, TypeOK, Kept, ya_error_context_t
    <3>2. seen = [i \in 1..n |-> error_context[t].stack[i]]
      BY <2>2 DEF ya_error_get_stack
    <3>3. Len(seen) = n /\ (seen = <<>> <=> n = 0)
      BY <3>1, <3>2
    <3>4. n # 0 => seen[n] = error_context[t].stack[n]
      BY <3>1, <3>2
    <3>5. ya_error_get_last(t) = error_context[t].last_error
      BY <2>2 DEF ya_error_get_last
    <3> QED
      BY <2>2, <3>1, <3>3, <3>4, <3>5 DEF Holds
  <2> QED
    BY <2>1, <2>2
<1> QED
  BY <1>1, Invariance, PTL

\* The texts error_messages starts with, one for each of the codes.
Messages ==
    <<"Success", "Unknown error",
      "Memory allocation failed", "Operation timed out", "System is busy",
      "Operation interrupted",
      "Invalid configuration", "Configuration item not found",
      "Configuration type mismatch",
      "Network error", "Connection error", "Socket error", "Protocol error",
      "Invalid session", "Session expired", "Session limit exceeded",
      "Invalid command", "Invalid command parameters", "Unsupported command",
      "Command execution failed",
      "Permission denied", "Authentication failed",
      "Resource is busy", "Resource limit exceeded", "Resource not found">>

\* No two codes and no two texts are the same, and none stands for a missing one.
LEMMA CodesDiffer ==
    /\ DOMAIN ya_error_code_t = 1..25
    /\ \A i, j \in 1..25 : ya_error_code_t[i] = ya_error_code_t[j] => i = j
BY DEF ya_error_code_t

LEMMA TextsDiffer ==
    /\ \A i, j \in 1..25 : Messages[i] = Messages[j] => i = j
    /\ \A i \in 1..25 : Messages[i] # "NULL" /\ Messages[i] # "Invalid error code"
BY DEF Messages

\* ya_error_get_message: the text of a code is the one at the code's place.
LEMMA MessageOfCode ==
    ASSUME NEW code
    PROVE  /\ \A i \in 1..25 : ya_error_code_t[i] = code => ya_error_get_message(code) = Messages[i]
           /\ (~ \E i \in 1..25 : ya_error_code_t[i] = code) =>
                 ya_error_get_message(code) = "Invalid error code"
<1>1. ASSUME NEW i \in 1..25, ya_error_code_t[i] = code
      PROVE  ya_error_get_message(code) = Messages[i]
  <2>1. (CHOOSE k \in DOMAIN ya_error_code_t : ya_error_code_t[k] = code) = i
    BY <1>1, CodesDiffer
  <2>2. error_code_to_index(code) = i - 1
    BY <1>1, <2>1, CodesDiffer DEF error_code_to_index
  <2>3. i - 1 \in 0..29 /\ i - 1 < 25 /\ (i - 1) + 1 = i /\ ~ (i - 1 >= 30)
    OBVIOUS
  <2>4. error_messages[i - 1] = Messages[i]
    <3>1. \A k \in 0..29 : error_messages[k] = IF k < 25 THEN Messages[k + 1] ELSE "NULL"
      <4>1. ERROR_MESSAGE_COUNT - 1 = 29
        BY DEF ERROR_MESSAGE_COUNT
      <4>2. error_messages =
               [m \in 0..ERROR_MESSAGE_COUNT - 1 |-> IF m < 25 THEN Messages[m + 1] ELSE "NULL"]
        BY Zenon DEF error_messages, Messages
      <4> QED
        BY <4>1, <4>2
    <3> QED
      BY <2>3, <3>1
  <2> QED
    BY <2>2, <2>3, <2>4 DEF ya_error_get_message, ERROR_MESSAGE_COUNT
<1>2. ASSUME ~ \E i \in 1..25 : ya_error_code_t[i] = code
      PROVE  ya_error_get_message(code) = "Invalid error code"
  <2>1. error_code_to_index(code) = ERROR_MESSAGE_COUNT
    BY <1>2, CodesDiffer DEF error_code_to_index
  <2> QED
    BY <2>1 DEF ya_error_get_message, ERROR_MESSAGE_COUNT
<1> QED
  BY <1>1, <1>2

\* Whatever codes callers report, an error on the stack never reads as a missing entry of
\* the array, and no two of the server's codes share a text (ya_error.c:45-113).
THEOREM MessagesAreTold == Spec => []MessagesTold
<1>1. MessagesTold
  <2> SUFFICES ASSUME NEW a, NEW b
               PROVE  LET known == \E k \in DOMAIN ya_error_code_t : ya_error_code_t[k] = a
                      IN  /\ ya_error_get_message(a) # "NULL"
                          /\ known <=> ya_error_get_message(a) # "Invalid error code"
                          /\ known /\ a # b => ya_error_get_message(a) # ya_error_get_message(b)
    BY Zenon DEF MessagesTold
  <2>1. CASE ~ \E k \in 1..25 : ya_error_code_t[k] = a
    BY <2>1, CodesDiffer, MessageOfCode
  <2>2. CASE \E k \in 1..25 : ya_error_code_t[k] = a
    <3>1. PICK k \in 1..25 : ya_error_code_t[k] = a
      BY <2>2
    <3>2. ya_error_get_message(a) = Messages[k]
      BY <3>1, MessageOfCode
    <3>3. ASSUME a # b
          PROVE  ya_error_get_message(b) # Messages[k]
      <4>1. CASE ~ \E l \in 1..25 : ya_error_code_t[l] = b
        BY <4>1, MessageOfCode, TextsDiffer
      <4>2. ASSUME NEW l \in 1..25, ya_error_code_t[l] = b
            PROVE  ya_error_get_message(b) # Messages[k]
        <5>1. l # k
          BY <3>1, <3>3, <4>2
        <5>2. Messages[l] # Messages[k]
          BY <5>1, TextsDiffer
        <5> QED
          BY <4>2, <5>2, MessageOfCode
      <4> QED
        BY <4>1, <4>2
    <3> QED
      BY <3>1, <3>2, <3>3, CodesDiffer, TextsDiffer
  <2> QED
    BY <2>1, <2>2
<1> QED
  BY <1>1, PTL
==============================================================================
