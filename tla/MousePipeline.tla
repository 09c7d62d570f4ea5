--------------------------- MODULE MousePipeline ---------------------------
(***************************************************************************)
(* From MOUSE_MOVE and MOUSE_STOP to the movement asked of the operating   *)
(* system: handle_mouse_move and handle_mouse_stop                         *)
(* (server/src/ya_server_handler.c), the throttle that all clients share   *)
(* (ya_mouse_throttle.c) and the filter that each client has of its own    *)
(* (ya_mouse_filter.c).                                                    *)
(*                                                                         *)
(* A phone of protocol 3 sends smoothed movement and the server only       *)
(* gathers fractions of a pixel; a phone of an older protocol also goes    *)
(* through the throttle and the acceleration of the filter.  In which      *)
(* order requests are handled, and which are lost, is CommandServer's      *)
(* matter: here any phone's request may be the next one.                   *)
(*                                                                         *)
(* Abstractions.  x and y are treated alike and one of them is modelled.   *)
(* Floats are whole numbers of units, kRecvScale of them to a pixel (the   *)
(* unit of transport): products are cut off to units.  algorithms_enabled  *)
(* is left out: it is TRUE from creation on.  A movement the system        *)
(* refuses is only logged, so moved is what was asked for.                 *)
(***************************************************************************)
EXTENDS Integers

CONSTANTS
    Phones,
    Version,    \* the protocol each phone names when it authorizes
    NoClient,   \* NULL
    Deltas,     \* movements a phone may send, in units
    Scales,     \* pointer scales a phone may ask for, in percent
    kRecvScale, \* units per pixel (100 in the code)
    MaxPending  \* bound: pixels that pile up in the throttle between two requests

ASSUME MouseAssumption ==
    /\ Version \in [Phones -> Nat]
    /\ Deltas \subseteq Int
    /\ Scales \subseteq Int
    /\ kRecvScale \in Nat \ {0}
    /\ MaxPending \in Nat

VARIABLES
    client,     \* the filter of each phone's client, NoClient while it has none
    accum,      \* the throttle's pending movement, in pixels
    sinceEmit,  \* time since the throttle last let something through
    moved,      \* pixels the last request moved the pointer by
    \* history, for the properties only:
    owed,       \* units handed to a phone's filter since its last reset and not moved yet
    unpassed,   \* pixels received from old phones and not handed to a filter yet
    pending,    \* phones that contributed to accum
    moving      \* phones that moved since their last MOUSE_STOP

vars == <<client, accum, sinceEmit, moved, owed, unpassed, pending, moving>>

throttle == <<accum, sinceEmit, unpassed, pending>>

\* has_last_emit is false; after that whole intervals of 4 ms, two of which
\* are as good as more: THROTTLE_INTERVAL_LOW_SPEED_MS is one of them,
\* THROTTLE_INTERVAL_HIGH_SPEED_MS is two.
Never == 3
LowSpeed == 1
HighSpeed == 2

Filter == [pointer_scale : Nat, ve : Int, frac : (1 - kRecvScale)..(kRecvScale - 1)]

ASSUME NoClientAssumption == NoClient \notin Filter

TypeOK ==
    /\ client \in [Phones -> Filter \cup {NoClient}]
    /\ accum \in Int
    /\ sinceEmit \in 0..Never
    /\ moved \in Int
    /\ owed \in [Phones -> Int]
    /\ unpassed \in Int
    /\ pending \subseteq Phones
    /\ moving \subseteq Phones

NewFilter == [pointer_scale |-> 100, ve |-> 0, frac |-> 0]

Init ==
    /\ client = [p \in Phones |-> NoClient]
    /\ accum = 0
    /\ sinceEmit = Never
    /\ moved = 0
    /\ owed = [p \in Phones |-> 0]
    /\ unpassed = 0
    /\ pending = {}
    /\ moving = {}

Known(p) == client[p] # NoClient

---------------------------------------------------------------------------
(* Numbers *)

Magnitude(n) == IF n >= 0 THEN n ELSE -n

\* Division that cuts off towards zero, like a cast to int, and like floorf
\* above zero and ceilf below.
Truncated(n, d) == IF n >= 0 THEN n \div d ELSE - ((-n) \div d)

\* (int)(fd >= 0.0 ? fd + 0.5 : fd - 0.5)
InPixels(d) ==
    IF d >= 0 THEN (2 * d + kRecvScale) \div (2 * kRecvScale)
              ELSE - ((kRecvScale - 2 * d) \div (2 * kRecvScale))

\* Faulty variant: what moves the pointer is rounded, what is kept is cut off.
Emitted_Rounded(frac) == InPixels(frac)

\* Whole pixels leave the fraction that is kept.
Emitted(frac) == Truncated(frac, kRecvScale)
Kept(frac) == frac - kRecvScale * Truncated(frac, kRecvScale)

\* Velocity: an average in which the latest movement has a weight of 0.3.
Averaged(ve, px) == Truncated(3 * kRecvScale * px + 7 * ve, 10)

\* Two hundredths for every pixel of velocity above two, up to threefold.
Gain(ve) ==
    LET excess == Magnitude(ve) - 2 * kRecvScale
        gain   == 100 + (2 * excess) \div kRecvScale
    IN  IF excess <= 0 THEN 100 ELSE IF gain > 300 THEN 300 ELSE gain

Accelerated(f, px) ==
    Truncated(px * kRecvScale * f.pointer_scale * Gain(Averaged(f.ve, px)), 10000)

---------------------------------------------------------------------------
(* The filter of phone p *)

\* units more for p's fraction; what makes a whole pixel moves the pointer
Gather(p, units, filter) ==
    LET frac == client[p].frac + units
    IN  /\ moved' = Emitted(frac)
        /\ client' = [client EXCEPT ![p] = [filter EXCEPT !.frac = Kept(frac)]]

\* As if `units' were handed to the filter of p: what it owes from now on.
Owes(p, units) == owed[p] + units - kRecvScale * moved'

ya_mouse_filter_process(p, px) ==
    Gather(p, Accelerated(client[p], px), [client[p] EXCEPT !.ve = Averaged(client[p].ve, px)])

\* Faulty variant: the fraction stays.
Reset_VelocityOnly(filter) == [filter EXCEPT !.ve = 0]

Reset(filter) == [filter EXCEPT !.ve = 0, !.frac = 0]

---------------------------------------------------------------------------
(* The throttle *)

Threshold(total) == IF Magnitude(total) < 3 THEN LowSpeed ELSE HighSpeed

Due(total) == sinceEmit = Never \/ sinceEmit >= Threshold(total)

\* The throttle hands all it has, px pixels, to a filter; `received' of them
\* have just arrived.
HandedOut(received, px) ==
    /\ accum' = 0
    /\ pending' = {}
    /\ unpassed' = unpassed + received - px

\* ya_mouse_throttle_collect returns false and keeps the movement, or has
\* none to hand out: movements of opposite directions cancel out.
Collected(p, px) ==
    LET total == accum + px
    IN  /\ ~ Due(total) \/ total = 0
        /\ Magnitude(total) <= MaxPending
        /\ accum' = total
        /\ sinceEmit' = IF Due(total) THEN 0 ELSE sinceEmit
        /\ pending' = IF total = 0 THEN {} ELSE IF px = 0 THEN pending ELSE pending \cup {p}
        /\ unpassed' = unpassed + px
        /\ moved' = 0
        /\ UNCHANGED <<client, owed>>

\* All that waits goes to the filter of the phone that stopped at once.
ya_mouse_throttle_flush == HandedOut(0, accum)

ya_mouse_throttle_reset == sinceEmit' = Never

\* ya_mouse_throttle_collect returns true.
LetThrough(p, px) ==
    LET total == accum + px
    IN  /\ Due(total) /\ total # 0
        /\ sinceEmit' = 0
        /\ HandedOut(px, total)
        /\ ya_mouse_filter_process(p, total)
        /\ owed' = [owed EXCEPT ![p] = Owes(p, Accelerated(client[p], total))]

---------------------------------------------------------------------------
(* The handlers *)

\* accept and AUTHORIZE: a client with a new filter.
Authorize(p) ==
    /\ ~ Known(p)
    /\ client' = [client EXCEPT ![p] = NewFilter]
    /\ moved' = 0
    /\ owed' = [owed EXCEPT ![p] = 0]
    /\ UNCHANGED <<throttle, moving>>

\* The connection ends: the uid is not found any more.
Disconnect(p) ==
    /\ Known(p)
    /\ client' = [client EXCEPT ![p] = NoClient]
    /\ moved' = 0
    /\ owed' = [owed EXCEPT ![p] = 0]
    /\ UNCHANGED <<throttle, moving>>

handle_session_option(p, scale) ==
    /\ Known(p)
    /\ client' = [client EXCEPT ![p].pointer_scale =
                     IF scale <= 0 THEN 100 ELSE IF scale < 10 THEN 10 ELSE scale]
    /\ moved' = 0
    /\ UNCHANGED <<throttle, owed, moving>>

\* handle_mouse_move from protocol 3 on
MoveSmoothed(p, d) ==
    /\ Known(p) /\ Version[p] >= 3
    /\ Gather(p, d, client[p])
    /\ owed' = [owed EXCEPT ![p] = Owes(p, d)]
    /\ moving' = moving \cup {p}
    /\ UNCHANGED throttle

\* handle_mouse_move before protocol 3
MoveRaw(p, d) ==
    /\ Known(p) /\ Version[p] < 3
    /\ moving' = moving \cup {p}
    /\ \/ Collected(p, InPixels(d))
       \/ LetThrough(p, InPixels(d))

\* handle_mouse_stop from protocol 3 on: the fraction is dropped.
StopSmoothed(p) ==
    /\ Known(p) /\ Version[p] >= 3
    /\ client' = [client EXCEPT ![p] = Reset(client[p])]
    /\ moved' = 0
    /\ owed' = [owed EXCEPT ![p] = 0]
    /\ moving' = moving \ {p}
    /\ UNCHANGED throttle

\* Faulty variant: the throttle is reset without having been flushed.
StopRaw_NoFlush(p) ==
    /\ Known(p) /\ Version[p] < 3
    /\ moved' = 0
    /\ client' = [client EXCEPT ![p] = Reset(client[p])]
    /\ HandedOut(0, 0)
    /\ sinceEmit' = Never
    /\ owed' = [owed EXCEPT ![p] = 0]
    /\ moving' = moving \ {p}

\* Faulty variant: the throttle is left alone.
StopRaw_FilterOnly(p) ==
    /\ Known(p) /\ Version[p] < 3
    /\ moved' = 0
    /\ client' = [client EXCEPT ![p] = Reset(client[p])]
    /\ owed' = [owed EXCEPT ![p] = 0]
    /\ moving' = moving \ {p}
    /\ UNCHANGED throttle

\* handle_mouse_stop before protocol 3: the flush, the filter if there is
\* something to filter, then both resets; accum is 0 already.
StopRaw(p) ==
    /\ Known(p) /\ Version[p] < 3
    /\ moved' = IF accum = 0 THEN 0 ELSE Emitted(client[p].frac + Accelerated(client[p], accum))
    /\ client' = [client EXCEPT ![p] = Reset(client[p])]
    /\ ya_mouse_throttle_flush
    /\ ya_mouse_throttle_reset
    /\ owed' = [owed EXCEPT ![p] = 0]
    /\ moving' = moving \ {p}

\* Time passes; only the throttle looks at the clock.
Elapse ==
    /\ sinceEmit < HighSpeed
    /\ sinceEmit' = sinceEmit + 1
    /\ UNCHANGED <<client, accum, moved, owed, unpassed, pending, moving>>

Next ==
    \/ \E p \in Phones :
        \/ Authorize(p)
        \/ Disconnect(p)
        \/ \E scale \in Scales : handle_session_option(p, scale)
        \/ \E d \in Deltas : MoveSmoothed(p, d) \/ MoveRaw(p, d)
        \/ StopSmoothed(p)
        \/ StopRaw(p)
    \/ Elapse

Spec == Init /\ [][Next]_vars

---------------------------------------------------------------------------
(* Properties *)

\* The pointer is never a whole pixel away from where the movement handed to a
\* phone's filter since its last reset should have brought it: truncation
\* (floorf, ceilf and what is taken off frac_x) lets no drift build up.
TracksFinger ==
    \A p \in Phones : owed[p] \in (1 - kRecvScale)..(kRecvScale - 1)

\* The pixels that old phones sent and no filter has been handed are the ones
\* in accum_dx: neither a full interval nor MOUSE_STOP, which flushes and then
\* resets the throttle for everyone, loses any or hands any out twice.
ThrottleLosesNothing == unpassed = accum

\* What waits in the throttle comes from phones that have not stopped: when
\* the flush of a phone's MOUSE_STOP is over, none of its movement is left to
\* make the pointer jump later.
PendingHasMover == pending \subseteq moving /\ (accum # 0 => pending # {})

\* The first movement after a stop or a new connection begins with neither
\* fraction nor velocity of an earlier gesture, although other phones'
\* requests pass through the same throttle meanwhile.
NoResidue ==
    \A p \in Phones :
        Known(p) /\ p \notin moving => client[p].frac = 0 /\ client[p].ve = 0

\* A movement never moves the pointer the other way, whatever fraction an
\* earlier one left: for an old phone the movement is what the throttle has.
NeverAgainstFinger ==
    [][\A p \in Phones, d \in Deltas :
           LET total == accum + InPixels(d)
           IN  /\ MoveSmoothed(p, d) => (d > 0 => moved' >= 0) /\ (d < 0 => moved' <= 0)
               /\ MoveRaw(p, d) => (total > 0 => moved' >= 0) /\ (total < 0 => moved' <= 0)]_vars

============================================================================
