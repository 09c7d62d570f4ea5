----------------------- MODULE MousePipeline_proofs -----------------------
(***************************************************************************)
(* Proofs about the mouse pipeline, for any number of phones of either     *)
(* protocol, any movements and any number of units to a pixel.             *)
(***************************************************************************)
EXTENDS MousePipeline, TLAPS

\* What truncation towards zero leaves is smaller than the divisor, and it
\* has the sign of what was divided.
LEMMA Truncation ==
    ASSUME NEW n \in Int, NEW d \in Nat \ {0}
    PROVE  /\ Truncated(n, d) \in Int
           /\ n - d * Truncated(n, d) \in (1 - d)..(d - 1)
           /\ n > -d => Truncated(n, d) >= 0
           /\ n < d => Truncated(n, d) <= 0
<1>1. CASE n >= 0
  <2>1. n \div d \in Int /\ n = d * (n \div d) + (n % d) /\ n % d \in 0..(d - 1)
    BY <1>1, SMT
  <2>2. n \div d >= 0
    BY <1>1, SMT
  <2>3. n < d => n \div d <= 0
    BY <1>1, <2>1, <2>2, SMT
  <2> QED
    BY <1>1, <2>1, <2>2, <2>3, SMT DEF Truncated
<1>2. CASE n < 0
  <2> DEFINE m == -n
  <2>0. m \in Int /\ m > 0 /\ n = -m
    BY <1>2, SMT
  <2> HIDE DEF m
  <2>1. m \div d \in Int /\ m = d * (m \div d) + (m % d) /\ m % d \in 0..(d - 1)
    BY <2>0, SMT
  <2>2. m \div d >= 0
    BY <2>0, SMT
  <2>3. m < d => m \div d <= 0
    BY <2>0, <2>1, <2>2, SMT
  <2>4. Truncated(n, d) = - (m \div d)
    BY <1>2 DEF Truncated, m
  <2>5. d * (-(m \div d)) = - (d * (m \div d))
    BY <2>1, SMT
  <2> QED
    BY <2>0, <2>1, <2>2, <2>3, <2>4, <2>5, SMT
<1> QED
  BY <1>1, <1>2, SMT

\* The shape of a step through the sub-pixel stage: less than a pixel stays,
\* and what leaves goes the way of what came.
LEMMA SubPixel ==
    ASSUME NEW f \in (1 - kRecvScale)..(kRecvScale - 1), NEW u \in Int
    PROVE  /\ Emitted(f + u) \in Int
           /\ Kept(f + u) \in (1 - kRecvScale)..(kRecvScale - 1)
           /\ Kept(f + u) = f + u - kRecvScale * Emitted(f + u)
           /\ u >= 0 => Emitted(f + u) >= 0
           /\ u <= 0 => Emitted(f + u) <= 0
<1>1. kRecvScale \in Nat \ {0} /\ f + u \in Int
  BY MouseAssumption, SMT
<1>2. (u >= 0 => f + u > -kRecvScale) /\ (u <= 0 => f + u < kRecvScale)
  BY <1>1, SMT
<1> QED
  BY <1>1, <1>2, Truncation DEF Emitted, Kept

LEMMA PixelsAreIntegers == ASSUME NEW d \in Int PROVE InPixels(d) \in Int
<1>1. kRecvScale \in Nat \ {0}
  BY MouseAssumption
<1>2. 2 * kRecvScale \in Nat \ {0}
  BY <1>1, SMT
<1>3. \A n \in Int : n \div (2 * kRecvScale) \in Int
  BY <1>2, SMT
<1> QED
  BY <1>1, <1>3, SMT DEF InPixels

\* Velocity and acceleration: integers, and acceleration keeps the direction.
LEMMA Acceleration ==
    ASSUME NEW f \in Filter, NEW px \in Int
    PROVE  /\ Averaged(f.ve, px) \in Int
           /\ Accelerated(f, px) \in Int
           /\ px >= 0 => Accelerated(f, px) >= 0
           /\ px <= 0 => Accelerated(f, px) <= 0
<1>1. kRecvScale \in Nat \ {0} /\ f.ve \in Int /\ f.pointer_scale \in Nat
  BY MouseAssumption DEF Filter
<1>2. Averaged(f.ve, px) \in Int
  <2>1. 3 * kRecvScale * px + 7 * f.ve \in Int
    BY <1>1, SMT
  <2> QED
    BY <2>1, Truncation DEF Averaged
<1>3. Gain(Averaged(f.ve, px)) \in Nat
  <2> DEFINE ve == Averaged(f.ve, px)
             excess == Magnitude(ve) - 2 * kRecvScale
  <2>1. ve \in Int
    BY <1>2
  <2> HIDE DEF ve
  <2>2. excess \in Int
    BY <1>1, <2>1, SMT DEF Magnitude
  <2>3. excess > 0 => (2 * excess) \div kRecvScale \in Nat
    <3> HIDE DEF excess
    <3> QED
      BY <1>1, <2>2, SMT
  <2>4. Gain(ve) \in Nat
    <3>1. Gain(ve) = IF excess <= 0 THEN 100
                     ELSE IF 100 + (2 * excess) \div kRecvScale > 300 THEN 300
                     ELSE 100 + (2 * excess) \div kRecvScale
      BY DEF Gain
    <3> HIDE DEF excess
    <3> QED
      BY <2>2, <2>3, <3>1, SMT
  <2> QED
    BY <2>4 DEF ve
<1> DEFINE factor == kRecvScale * f.pointer_scale * Gain(Averaged(f.ve, px))
<1>4. factor \in Nat
  BY <1>1, <1>3, SMT
<1>5. px * kRecvScale * f.pointer_scale * Gain(Averaged(f.ve, px)) = px * factor
  BY <1>1, <1>3, SMT
<1>6. Accelerated(f, px) = Truncated(px * factor, 10000)
  BY <1>5 DEF Accelerated
<1> HIDE DEF factor
<1>7. /\ px * factor \in Int
      /\ px >= 0 => px * factor >= 0
      /\ px <= 0 => px * factor <= 0
  BY <1>4, SMT
<1> DEFINE hundredths == 10000
<1>8. hundredths \in Nat \ {0} /\ 0 < hundredths /\ -hundredths < 0
  BY SMT
<1>9. Accelerated(f, px) = Truncated(px * factor, hundredths)
  BY <1>6
<1> HIDE DEF hundredths
<1> DEFINE n == px * factor
<1>10. /\ n \in Int
       /\ px >= 0 => n > -hundredths
       /\ px <= 0 => n < hundredths
  BY <1>7, <1>8, SMT
<1>11. Accelerated(f, px) = Truncated(n, hundredths)
  BY <1>9
<1> HIDE DEF n
<1>12. /\ Truncated(n, hundredths) \in Int
       /\ n > -hundredths => Truncated(n, hundredths) >= 0
       /\ n < hundredths => Truncated(n, hundredths) <= 0
  BY <1>8, <1>10, Truncation
<1> QED
  BY <1>2, <1>10, <1>11, <1>12

---------------------------------------------------------------------------
\* The fraction a filter keeps is exactly what it still owes; this is what
\* makes TracksFinger inductive.
FractionIsOwed ==
    \A p \in Phones : owed[p] = IF Known(p) THEN client[p].frac ELSE 0

\* Only phones of the old protocol have anything in the throttle, so that the
\* MOUSE_STOP of a new one, which does not flush it, leaves nothing of its own there.
PendingIsOld == \A p \in pending : Version[p] < 3

IInv == /\ TypeOK /\ FractionIsOwed /\ ThrottleLosesNothing
        /\ PendingHasMover /\ PendingIsOld /\ NoResidue

LEMMA InitIInv == Init => IInv
<1> SUFFICES ASSUME Init PROVE IInv
  OBVIOUS
<1>1. 0 \in Int /\ Never \in 0..Never
  BY SMT DEF Never
<1>2. TypeOK
  BY <1>1, Zenon DEF Init, TypeOK
<1>3. FractionIsOwed /\ NoResidue
  BY Zenon DEF Init, FractionIsOwed, NoResidue, Known
<1>4. ThrottleLosesNothing /\ PendingHasMover /\ PendingIsOld
  BY Zenon DEF Init, ThrottleLosesNothing, PendingHasMover, PendingIsOld
<1> QED
  BY <1>2, <1>3, <1>4 DEF IInv

\* What the sub-pixel stage does to the client and to what it owes.
LEMMA GatherKeeps ==
    ASSUME IInv, NEW p \in Phones, Known(p), NEW u \in Int, NEW flt \in Filter,
           Gather(p, u, flt), owed' = [owed EXCEPT ![p] = Owes(p, u)],
           p \in moving', moving \subseteq moving'
    PROVE  /\ client' \in [Phones -> Filter \cup {NoClient}]
           /\ moved' \in Int
           /\ owed' \in [Phones -> Int]
           /\ FractionIsOwed'
           /\ NoResidue'
<1>1. /\ client \in [Phones -> Filter \cup {NoClient}]
      /\ owed \in [Phones -> Int]
      /\ client[p] \in Filter
  BY DEF IInv, TypeOK, Known
<1>2. client[p].frac \in (1 - kRecvScale)..(kRecvScale - 1)
  BY <1>1 DEF Filter
<1> DEFINE f == client[p].frac
           new == [flt EXCEPT !.frac = Kept(f + u)]
<1>3. /\ moved' = Emitted(f + u)
      /\ client' = [client EXCEPT ![p] = new]
  BY DEF Gather
<1>4. /\ Emitted(f + u) \in Int
      /\ Kept(f + u) \in (1 - kRecvScale)..(kRecvScale - 1)
      /\ Kept(f + u) = f + u - kRecvScale * Emitted(f + u)
  BY <1>2, SubPixel
<1>5. new \in Filter /\ new.frac = Kept(f + u)
  BY <1>4, Zenon DEF Filter
<1>6. owed[p] = f
  BY Zenon DEF IInv, FractionIsOwed
<1>7. kRecvScale \in Int /\ f \in Int
  BY <1>2, MouseAssumption, SMT
<1>8. owed'[p] = Kept(f + u) /\ owed'[p] \in Int
  <2>1. owed'[p] = Owes(p, u)
    BY <1>1
  <2>2. Owes(p, u) = f + u - kRecvScale * Emitted(f + u)
    BY <1>3, <1>6 DEF Owes
  <2>3. Kept(f + u) \in Int
    BY <1>4, <1>7, SMT
  <2> QED
    BY <1>4, <2>1, <2>2, <2>3, Zenon
<1> HIDE DEF new, f
<1>9. client' \in [Phones -> Filter \cup {NoClient}] /\ client'[p] = new
  BY <1>1, <1>3, <1>5
<1>10. owed' \in [Phones -> Int]
  BY <1>1, <1>8
<1>11. FractionIsOwed'
  <2> SUFFICES ASSUME NEW q \in Phones
               PROVE  owed'[q] = IF client'[q] # NoClient THEN client'[q].frac ELSE 0
    BY DEF FractionIsOwed, Known
  <2>1. CASE q = p
    BY <1>5, <1>8, <1>9, <2>1, NoClientAssumption
  <2>2. CASE q # p
    <3>1. client'[q] = client[q] /\ owed'[q] = owed[q]
      BY <1>1, <1>3, <2>2
    <3> QED
      BY <3>1 DEF IInv, FractionIsOwed, Known
  <2> QED
    BY <2>1, <2>2
<1>12. NoResidue'
  <2> SUFFICES ASSUME NEW q \in Phones, client'[q] # NoClient, q \notin moving'
               PROVE  client'[q].frac = 0 /\ client'[q].ve = 0
    BY DEF NoResidue, Known
  <2>1. q # p /\ q \notin moving
    OBVIOUS
  <2>2. client'[q] = client[q]
    BY <1>1, <1>3, <2>1
  <2> QED
    BY <2>1, <2>2 DEF IInv, NoResidue, Known
<1> QED
  BY <1>3, <1>4, <1>9, <1>10, <1>11, <1>12

\* A new client, a lost one and a reset one: nothing is owed.
LEMMA CleanSlate ==
    ASSUME IInv, NEW p \in Phones,
           NEW flt, \/ flt = NoClient
                    \/ flt \in Filter /\ flt.frac = 0 /\ flt.ve = 0,
           client' = [client EXCEPT ![p] = flt], owed' = [owed EXCEPT ![p] = 0],
           moving \subseteq moving' \cup {p}
    PROVE  /\ client' \in [Phones -> Filter \cup {NoClient}]
           /\ owed' \in [Phones -> Int]
           /\ FractionIsOwed'
           /\ NoResidue'
<1>1. /\ client \in [Phones -> Filter \cup {NoClient}]
      /\ owed \in [Phones -> Int]
  BY DEF IInv, TypeOK
<1>2. client'[p] = flt /\ owed'[p] = 0
  BY <1>1
<1>3. \A q \in Phones : q # p => client'[q] = client[q] /\ owed'[q] = owed[q]
  BY <1>1
<1>4. FractionIsOwed'
  BY <1>2, <1>3 DEF IInv, FractionIsOwed, Known
<1>5. NoResidue'
  BY <1>2, <1>3 DEF IInv, NoResidue, Known
<1> QED
  BY <1>1, <1>4, <1>5, SMT

\* A step that leaves the throttle alone keeps the invariants about it as
\* long as no phone that has something in it comes to rest.
LEMMA ThrottleUntouched ==
    ASSUME IInv, UNCHANGED throttle, pending \subseteq moving'
    PROVE  /\ accum' \in Int /\ sinceEmit' \in 0..Never /\ unpassed' \in Int
           /\ pending' \subseteq Phones
           /\ ThrottleLosesNothing' /\ PendingHasMover' /\ PendingIsOld'
BY DEF IInv, TypeOK, throttle, ThrottleLosesNothing, PendingHasMover, PendingIsOld

\* The throttle after it has handed out all it had, which is all it received.
LEMMA HandedOutKeeps ==
    ASSUME IInv, NEW px \in Int, HandedOut(px, accum + px)
    PROVE  /\ accum' = 0 /\ unpassed' = 0 /\ pending' = {}
           /\ ThrottleLosesNothing' /\ PendingHasMover' /\ PendingIsOld'
<1>1. accum \in Int /\ unpassed = accum
  BY DEF IInv, TypeOK, ThrottleLosesNothing
<1>2. accum' = 0 /\ pending' = {} /\ unpassed' = unpassed + px - (accum + px)
  BY DEF HandedOut
<1>3. unpassed' = 0
  BY <1>1, <1>2, SMT
<1> QED
  BY <1>2, <1>3, Zenon DEF ThrottleLosesNothing, PendingHasMover, PendingIsOld

LEMMA NewFilterIsFilter == NewFilter \in Filter /\ NewFilter.frac = 0 /\ NewFilter.ve = 0
<1>1. kRecvScale \in Nat \ {0}
  BY MouseAssumption
<1>2. 0 \in (1 - kRecvScale)..(kRecvScale - 1)
  BY <1>1, SMT
<1>3. 100 \in Nat /\ 0 \in Int
  BY SMT
<1> QED
  BY <1>2, <1>3, SMT DEF NewFilter, Filter

LEMMA ResetIsFilter ==
    ASSUME NEW flt \in Filter
    PROVE  Reset(flt) \in Filter /\ Reset(flt).frac = 0 /\ Reset(flt).ve = 0
<1>1. 0 \in (1 - kRecvScale)..(kRecvScale - 1) /\ 0 \in Int
  BY NewFilterIsFilter, SMT DEF NewFilter, Filter
<1> QED
  BY <1>1, Zenon DEF Reset, Filter

LEMMA StepIInv == IInv /\ [Next]_vars => IInv'
<1> SUFFICES ASSUME IInv, [Next]_vars PROVE IInv'
  OBVIOUS
<1>0. /\ client \in [Phones -> Filter \cup {NoClient}]
      /\ accum \in Int /\ unpassed \in Int /\ sinceEmit \in 0..Never
      /\ moving \subseteq Phones /\ pending \subseteq Phones
      /\ pending \subseteq moving
  BY DEF IInv, TypeOK, PendingHasMover
<1>0a. 0 \in Int
  BY SMT
<1>1. ASSUME NEW p \in Phones, Authorize(p) PROVE IInv'
  <2>1. /\ client' = [client EXCEPT ![p] = NewFilter]
        /\ owed' = [owed EXCEPT ![p] = 0]
        /\ moved' = 0 /\ moving' = moving /\ UNCHANGED throttle
    BY <1>1 DEF Authorize
  <2> QED
    BY <1>0, <1>0a, <2>1, NewFilterIsFilter, CleanSlate, ThrottleUntouched DEF IInv, TypeOK
<1>2. ASSUME NEW p \in Phones, Disconnect(p) PROVE IInv'
  <2>1. /\ client' = [client EXCEPT ![p] = NoClient]
        /\ owed' = [owed EXCEPT ![p] = 0]
        /\ moved' = 0 /\ moving' = moving /\ UNCHANGED throttle
    BY <1>2 DEF Disconnect
  <2> QED
    BY <1>0, <1>0a, <2>1, CleanSlate, ThrottleUntouched DEF IInv, TypeOK
<1>3. ASSUME NEW p \in Phones, NEW scale \in Scales, handle_session_option(p, scale)
      PROVE IInv'
  <2> DEFINE new == IF scale <= 0 THEN 100 ELSE IF scale < 10 THEN 10 ELSE scale
  <2>1. new \in Nat
    BY MouseAssumption, SMT
  <2>2. client[p] \in Filter
    BY <1>0, <1>3 DEF handle_session_option, Known
  <2>3. client' = [client EXCEPT ![p].pointer_scale = new]
    BY <1>3 DEF handle_session_option
  <2> HIDE DEF new
  <2>4. /\ client'[p] \in Filter
        /\ client'[p].frac = client[p].frac /\ client'[p].ve = client[p].ve
        /\ \A q \in Phones : q # p => client'[q] = client[q]
        /\ client' \in [Phones -> Filter \cup {NoClient}]
    BY <1>0, <2>1, <2>2, <2>3 DEF Filter
  <2>5. moved' = 0 /\ owed' = owed /\ moving' = moving /\ UNCHANGED throttle
    BY <1>3 DEF handle_session_option
  <2>6. FractionIsOwed'
    BY <2>2, <2>4, <2>5, NoClientAssumption DEF IInv, FractionIsOwed, Known
  <2>7. NoResidue'
    BY <2>2, <2>4, <2>5, NoClientAssumption DEF IInv, NoResidue, Known
  <2> QED
    BY <1>0, <1>0a, <2>4, <2>5, <2>6, <2>7, ThrottleUntouched DEF IInv, TypeOK
<1>4. ASSUME NEW p \in Phones, NEW d \in Deltas, MoveSmoothed(p, d) PROVE IInv'
  <2>1. d \in Int /\ client[p] \in Filter
    BY <1>0, <1>4, MouseAssumption DEF MoveSmoothed, Known
  <2>2. /\ Known(p) /\ Gather(p, d, client[p])
        /\ owed' = [owed EXCEPT ![p] = Owes(p, d)]
        /\ moving' = moving \cup {p} /\ UNCHANGED throttle
    BY <1>4 DEF MoveSmoothed
  <2>3. p \in moving' /\ moving \subseteq moving' /\ moving' \subseteq Phones
        /\ pending \subseteq moving'
    BY <1>0, <2>2
  <2> QED
    BY <2>1, <2>2, <2>3, GatherKeeps, ThrottleUntouched DEF IInv, TypeOK
<1>5. ASSUME NEW p \in Phones, NEW d \in Deltas, MoveRaw(p, d) PROVE IInv'
  <2>1. InPixels(d) \in Int
    BY MouseAssumption, PixelsAreIntegers
  <2> DEFINE px == InPixels(d)
             total == accum + px
  <2>2. px \in Int /\ total \in Int
    BY <1>0, <2>1, SMT
  <2>3. Known(p) /\ client[p] \in Filter /\ Version[p] < 3
    BY <1>0, <1>5 DEF MoveRaw, Known
  <2>4. moving' = moving \cup {p} /\ moving' \subseteq Phones
    BY <1>0, <1>5 DEF MoveRaw
  <2>5. CASE Collected(p, px)
    <3>1. /\ accum' = total /\ unpassed' = unpassed + px /\ moved' = 0
          /\ pending' = IF total = 0 THEN {} ELSE IF px = 0 THEN pending ELSE pending \cup {p}
          /\ client' = client /\ owed' = owed
      BY <2>5, Zenon DEF Collected
    <3>2. sinceEmit' \in 0..Never
      <4>1. sinceEmit' = 0 \/ sinceEmit' = sinceEmit
        BY <2>5, Zenon DEF Collected
      <4> QED
        BY <1>0, <4>1, SMT DEF Never
    <3>3. accum' \in Int /\ unpassed' \in Int /\ ThrottleLosesNothing'
      BY <1>0, <2>2, <3>1 DEF IInv, ThrottleLosesNothing
    <3>4. PendingIsOld' /\ pending' \subseteq Phones
      BY <1>0, <2>3, <3>1 DEF IInv, PendingIsOld
    <3>5. PendingHasMover'
      <4>1. pending' \subseteq moving'
        BY <1>0, <2>4, <3>1
      <4>2. px = 0 => total = accum
        BY <1>0, SMT
      <4>3. total # 0 => pending' # {}
        BY <3>1, <4>2 DEF IInv, PendingHasMover
      <4> QED
        BY <3>1, <4>1, <4>3 DEF PendingHasMover
    <3>6. FractionIsOwed' /\ NoResidue'
      BY <2>4, <3>1 DEF IInv, FractionIsOwed, NoResidue, Known
    <3> QED
      BY <1>0, <1>0a, <2>4, <3>1, <3>2, <3>3, <3>4, <3>5, <3>6 DEF IInv, TypeOK
  <2>6. CASE LetThrough(p, px)
    <3> DEFINE u == Accelerated(client[p], total)
               flt == [client[p] EXCEPT !.ve = Averaged(client[p].ve, total)]
    <3>1. /\ sinceEmit' = 0 /\ HandedOut(px, total)
          /\ Gather(p, u, flt) /\ owed' = [owed EXCEPT ![p] = Owes(p, u)]
      BY <2>6 DEF LetThrough, ya_mouse_filter_process
    <3>2. u \in Int /\ Averaged(client[p].ve, total) \in Int
      BY <2>2, <2>3, Acceleration
    <3>3. flt \in Filter
      BY <2>3, <3>2, Zenon DEF Filter
    <3>4. p \in moving' /\ moving \subseteq moving'
      BY <2>4
    <3> HIDE DEF u, flt
    <3>5. /\ client' \in [Phones -> Filter \cup {NoClient}] /\ moved' \in Int
          /\ owed' \in [Phones -> Int] /\ FractionIsOwed' /\ NoResidue'
      BY <2>3, <3>1, <3>2, <3>3, <3>4, GatherKeeps
    <3>6. /\ accum' = 0 /\ unpassed' = 0 /\ pending' = {}
          /\ ThrottleLosesNothing' /\ PendingHasMover' /\ PendingIsOld'
      BY <2>2, <3>1, HandedOutKeeps
    <3>7. sinceEmit' \in 0..Never
      BY <3>1, SMT DEF Never
    <3> QED
      BY <1>0a, <2>4, <3>5, <3>6, <3>7, Zenon DEF IInv, TypeOK
  <2> QED
    BY <1>5, <2>5, <2>6 DEF MoveRaw
<1>6. ASSUME NEW p \in Phones, StopSmoothed(p) PROVE IInv'
  <2>1. client[p] \in Filter
    BY <1>0, <1>6 DEF StopSmoothed, Known
  <2>2. /\ client' = [client EXCEPT ![p] = Reset(client[p])]
        /\ owed' = [owed EXCEPT ![p] = 0]
        /\ moved' = 0 /\ moving' = moving \ {p} /\ UNCHANGED throttle
    BY <1>6 DEF StopSmoothed
  <2>3. p \notin pending
    <3>1. Version[p] \in Nat /\ Version[p] >= 3
      BY <1>6, MouseAssumption DEF StopSmoothed
    <3>2. ~ (Version[p] < 3)
      BY <3>1, SMT
    <3> QED
      BY <3>2, Zenon DEF IInv, PendingIsOld
  <2>4. pending \subseteq moving' /\ moving \subseteq moving' \cup {p} /\ moving' \subseteq Phones
    BY <1>0, <2>2, <2>3
  <2> QED
    BY <1>0a, <2>1, <2>2, <2>4, ResetIsFilter, CleanSlate, ThrottleUntouched DEF IInv, TypeOK
<1>7. ASSUME NEW p \in Phones, StopRaw(p) PROVE IInv'
  <2>1. client[p] \in Filter
    BY <1>0, <1>7 DEF StopRaw, Known
  <2>2. /\ client' = [client EXCEPT ![p] = Reset(client[p])]
        /\ owed' = [owed EXCEPT ![p] = 0]
        /\ moving' = moving \ {p} /\ HandedOut(0, accum) /\ sinceEmit' = Never
    BY <1>7 DEF StopRaw, ya_mouse_throttle_flush, ya_mouse_throttle_reset
  <2>3. moved' \in Int
    <3>1. Accelerated(client[p], accum) \in Int
      BY <1>0, <2>1, Acceleration
    <3>2. client[p].frac \in (1 - kRecvScale)..(kRecvScale - 1)
      BY <2>1 DEF Filter
    <3>3. Emitted(client[p].frac + Accelerated(client[p], accum)) \in Int
      BY <3>1, <3>2, SubPixel
    <3> QED
      BY <1>0a, <1>7, <3>3, Zenon DEF StopRaw
  <2>4. moving \subseteq moving' \cup {p} /\ moving' \subseteq Phones
    BY <1>0, <2>2
  <2>5. HandedOut(0, accum + 0)
    <3>1. accum + 0 = accum
      BY <1>0, SMT
    <3> QED
      BY <2>2, <3>1
  <2>6. sinceEmit' \in 0..Never
    BY <2>2, SMT DEF Never
  <2>7. /\ client' \in [Phones -> Filter \cup {NoClient}] /\ owed' \in [Phones -> Int]
        /\ FractionIsOwed' /\ NoResidue'
    BY <2>1, <2>2, <2>4, ResetIsFilter, CleanSlate
  <2>8. /\ accum' = 0 /\ unpassed' = 0 /\ pending' = {}
        /\ ThrottleLosesNothing' /\ PendingHasMover' /\ PendingIsOld'
    BY <1>0a, <2>5, HandedOutKeeps
  <2> QED
    BY <1>0a, <2>3, <2>4, <2>6, <2>7, <2>8, Zenon DEF IInv, TypeOK
<1>8. CASE Elapse
  <2>1. sinceEmit' \in 0..Never
    BY <1>0, <1>8, SMT DEF Elapse, Never, HighSpeed
  <2>2. UNCHANGED <<client, accum, moved, owed, unpassed, pending, moving>>
    BY <1>8 DEF Elapse
  <2> QED
    BY <2>1, <2>2 DEF IInv, TypeOK, FractionIsOwed, ThrottleLosesNothing, PendingHasMover,
                      PendingIsOld, NoResidue, Known
<1>9. CASE UNCHANGED vars
  BY <1>9 DEF vars, IInv, TypeOK, FractionIsOwed, ThrottleLosesNothing, PendingHasMover,
              PendingIsOld, NoResidue, Known
<1> QED
  BY <1>1, <1>2, <1>3, <1>4, <1>5, <1>6, <1>7, <1>8, <1>9, Zenon DEF Next

LEMMA Invariance == Spec => []IInv
BY InitIInv, StepIInv, PTL DEF Spec

---------------------------------------------------------------------------
\* handle_mouse_move and handle_mouse_stop keep the fractions below a pixel
\* and every number in its range.
THEOREM TypeCorrect == Spec => []TypeOK
BY Invariance, PTL DEF IInv

\* The quantisation of frac_x in handle_mouse_move and in
\* ya_mouse_filter_process lets no drift build up.
THEOREM FingerTracked == Spec => []TracksFinger
<1>1. IInv => TracksFinger
  <2> SUFFICES ASSUME IInv, NEW p \in Phones
               PROVE  owed[p] \in (1 - kRecvScale)..(kRecvScale - 1)
    BY DEF TracksFinger
  <2>1. CASE Known(p)
    <3>1. client[p] \in Filter
      BY <2>1 DEF IInv, TypeOK, Known
    <3> QED
      BY <2>1, <3>1 DEF IInv, FractionIsOwed, Filter
  <2>2. CASE ~ Known(p)
    <3>1. owed[p] = 0
      BY <2>2 DEF IInv, FractionIsOwed
    <3> QED
      BY <3>1, MouseAssumption, SMT
  <2> QED
    BY <2>1, <2>2
<1> QED
  BY <1>1, Invariance, PTL

\* ya_mouse_throttle_collect, _flush and _reset lose no pixel and hand none
\* out twice, however the phones' requests are mixed.
THEOREM ThrottleConserves == Spec => []ThrottleLosesNothing
BY Invariance, PTL DEF IInv

\* A MOUSE_STOP leaves none of its phone's movement in the shared throttle.
THEOREM StopEmptiesThrottle == Spec => []PendingHasMover
BY Invariance, PTL DEF IInv

\* ya_mouse_filter_reset_state and ya_mouse_filter_create give every gesture
\* a clean filter, whatever other phones do.
THEOREM GesturesStartClean == Spec => []NoResidue
BY Invariance, PTL DEF IInv

\* A movement never moves the pointer the other way.
THEOREM DirectionKept == Spec => NeverAgainstFinger
<1> DEFINE Kept1 ==
      \A p \in Phones, d \in Deltas :
         LET total == accum + InPixels(d)
         IN  /\ MoveSmoothed(p, d) => (d > 0 => moved' >= 0) /\ (d < 0 => moved' <= 0)
             /\ MoveRaw(p, d) => (total > 0 => moved' >= 0) /\ (total < 0 => moved' <= 0)
<1>1. IInv => Kept1
  <2> SUFFICES ASSUME IInv, NEW p \in Phones, NEW d \in Deltas
               PROVE  LET total == accum + InPixels(d)
                      IN  /\ MoveSmoothed(p, d) =>
                                (d > 0 => moved' >= 0) /\ (d < 0 => moved' <= 0)
                          /\ MoveRaw(p, d) =>
                                (total > 0 => moved' >= 0) /\ (total < 0 => moved' <= 0)
    OBVIOUS
  <2> DEFINE total == accum + InPixels(d)
  <2>1. d \in Int /\ total \in Int
    <3>1. d \in Int /\ InPixels(d) \in Int
      BY MouseAssumption, PixelsAreIntegers
    <3> QED
      BY <3>1, SMT DEF IInv, TypeOK
  <2>2. \A f \in Filter, u \in Int :
           /\ u > 0 => Emitted(f.frac + u) >= 0
           /\ u < 0 => Emitted(f.frac + u) <= 0
           /\ u >= 0 => Emitted(f.frac + u) >= 0
           /\ u <= 0 => Emitted(f.frac + u) <= 0
    <3> TAKE f \in Filter, u \in Int
    <3>1. f.frac \in (1 - kRecvScale)..(kRecvScale - 1)
      BY DEF Filter
    <3>2. (u > 0 => u >= 0) /\ (u < 0 => u <= 0)
      BY SMT
    <3> QED
      BY <3>1, <3>2, SubPixel
  <2>3. ASSUME MoveSmoothed(p, d)
        PROVE  (d > 0 => moved' >= 0) /\ (d < 0 => moved' <= 0)
    <3>1. client[p] \in Filter /\ moved' = Emitted(client[p].frac + d)
      BY <2>3 DEF MoveSmoothed, Gather, IInv, TypeOK, Known
    <3> QED
      BY <2>1, <2>2, <3>1
  <2>4. ASSUME MoveRaw(p, d)
        PROVE  (total > 0 => moved' >= 0) /\ (total < 0 => moved' <= 0)
    <3>1. client[p] \in Filter
      BY <2>4 DEF MoveRaw, IInv, TypeOK, Known
    <3>2. CASE Collected(p, InPixels(d))
      <4>1. moved' = 0
        BY <3>2 DEF Collected
      <4> QED
        BY <4>1, SMT
    <3>3. CASE LetThrough(p, InPixels(d))
      <4>1. moved' = Emitted(client[p].frac + Accelerated(client[p], total))
        BY <3>3 DEF LetThrough, ya_mouse_filter_process, Gather
      <4> HIDE DEF total
      <4>2. /\ Accelerated(client[p], total) \in Int
            /\ total >= 0 => Accelerated(client[p], total) >= 0
            /\ total <= 0 => Accelerated(client[p], total) <= 0
        BY <2>1, <3>1, Acceleration
      <4>3. (total > 0 => total >= 0) /\ (total < 0 => total <= 0)
        BY <2>1, SMT
      <4> QED
        BY <2>2, <3>1, <4>1, <4>2, <4>3
    <3> QED
      BY <2>4, <3>2, <3>3 DEF MoveRaw
  <2> QED
    BY <2>3, <2>4
<1>2. IInv /\ [Next]_vars => [Kept1]_vars
  BY <1>1
<1> QED
  BY <1>2, Invariance, PTL DEF Spec, NeverAgainstFinger
============================================================================
