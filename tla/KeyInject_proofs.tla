-------------------------- MODULE KeyInject_proofs --------------------------
(***************************************************************************)
(* Proofs about keys, text and the clipboard, for any keyboard layouts, any *)
(* set of keys the device announces, any number of requests and of calls    *)
(* that fail.  Injected is inductive.                                       *)
(***************************************************************************)
EXTENDS KeyInject, WellFoundedInduction, SequenceTheorems, TLAPS

Stages ==
    {"idle", "press", "split", "release", "type", "backup", "shortcut", "paste", "unshift",
     "restore", "get", "select", "copy", "undo", "drop", "deselect", "answer", "double",
     "button", "scroll"}

Text == Texts \cup Chars \cup {Found, Copied, Field, NoText}

Job ==
    [stage : Stages, chord : Seq(Modifiers), down : Nat, key : Keys \cup {NoKey},
     op : Directions, split : BOOLEAN, text : Text, backup : Text, ok : BOOLEAN,
     plain : BOOLEAN, steps : Int]

TypeOK ==
    /\ uinput \in BOOLEAN /\ layout \in Layouts
    /\ keymap \in Layouts \cup {NoLayout} /\ (~ uinput => keymap = UsLayout)
    /\ held \subseteq Announced
    /\ job \in Job
    /\ job.down <= Len(job.chord)
    /\ job.split => job.op = "Click"
    /\ job.stage = "double" => job.op = "Click"
    /\ clipboard \in Text

\* The request in hand has pressed k and will release it, or is about to
\* release what its phone pressed before.
Holds(k) ==
    \/ job.stage \in {"press", "split", "release"} /\ \E i \in 1..job.down : k = job.chord[i]
    \/ job.stage \in {"press", "button"} /\ job.op = "Release" /\ k = job.key
    \/ job.stage = "split" /\ k = job.key
    \/ job.stage \in {"paste", "unshift"} /\ k = PasteModifier
    \/ job.stage \in {"select", "copy", "undo", "drop"} /\ k = "Control"

\* Whatever is down is a phone's, was left by a call that failed, or is the
\* request's; and a key that is pressed to stay down was asked for.
Explained ==
    /\ \A k \in held : k \in asked \/ k \in hit \/ Holds(k)
    /\ job.stage \in {"press", "button"} /\ job.op = "Press" =>
          job.key \in asked \/ job.key \notin Announced

\* With uinput the modifiers counted as down are down.
ChordDown ==
    uinput /\ job.stage = "press" => \A i \in 1..job.down : job.chord[i] \in held

\* During a paste that can give the clipboard back, the backup is what the user
\* had; otherwise the clipboard is.
ClipboardKept ==
    /\ job.stage \in Window /\ ~ intruded => clipboard = job.text
    /\ job.stage \in Window /\ ~ spoiled => ~ intruded /\ job.backup = own /\ job.backup # NoText
    /\ job.stage \notin Window /\ ~ spoiled => clipboard = own

\* A plain character is under its levels in the layout's table; until its key goes
\* down nothing but its chord is down, and from then on it is typed.
Meant ==
    job.plain /\ job.text # NoText =>
        /\ job.stage = "press" =>
              /\ job.key \in Range(MainKeys) /\ job.op # "Release"
              /\ Range(job.chord) \subseteq Levels
              /\ Table[layout][<<job.key, Range(job.chord)>>] = job.text
              /\ held = {job.chord[i] : i \in 1..job.down}
        /\ job.stage \in {"split", "release"} /\ job.ok /\ job.key \in Announced =>
              typed = job.text

Injected ==
    TypeOK /\ Explained /\ ChordDown /\ ClipboardKept /\ Meant

---------------------------------------------------------------------------
(* The layout cache: build_cache is a loop over Scan. *)

\* A set of naturals that is not empty has a least element.
LEMMA LeastElement ==
    ASSUME NEW T \in SUBSET Nat, T # {}
    PROVE  \E m \in T : \A k \in T : m <= k
<1>1. T \subseteq Nat /\ T # {}
  OBVIOUS
<1>2. PICK x \in T : \A y \in T : ~ (<<y, x>> \in OpToRel(<, Nat))
  BY <1>1, NatLessThanWellFounded, WFMin
<1>3. ASSUME NEW y \in T PROVE x <= y
  <2>1. ~ (y < x)
    BY <1>1, <1>2 DEF OpToRel
  <2> QED BY <2>1
<1> QED BY <1>2, <1>3

\* Max is what a fold takes an argument's indices by.
LEMMA MaxOfIndices ==
    ASSUME NEW n \in Nat, NEW S \in SUBSET (1..n), S # {}
    PROVE  Max(S) \in S /\ \A y \in S : Max(S) >= y
<1> DEFINE T == {n - k : k \in S}
<1>1. T \in SUBSET Nat /\ T # {}
  <2>1. \A k \in S : n - k \in Nat
    OBVIOUS
  <2>2. PICK k : k \in S
    OBVIOUS
  <2>3. n - k \in T
    BY <2>2
  <2> QED BY <2>1, <2>3
<1>2. PICK m \in T : \A k \in T : m <= k
  <2> HIDE DEF T
  <2> QED BY <1>1, LeastElement
<1>3. PICK x \in S : m = n - x
  BY <1>2
<1>4. ASSUME NEW y \in S PROVE x >= y
  <2>1. n - y \in T
    OBVIOUS
  <2>2. n - x <= n - y
    BY <1>2, <1>3, <2>1
  <2> QED BY <2>2
<1>5. \E z \in S : \A y \in S : z >= y
  BY <1>4
<1> QED BY <1>5, Zenon DEF Max

\* What the loop has in its cache after each place of Scan: the fold that defines
\* build_cache, unfolded.
LEMMA CacheSteps ==
    ASSUME NEW l, NEW S, Scan \in Seq(S)
    PROVE  \E F : /\ F[0] = <<>>
                  /\ \A k \in 1..Len(Scan) : F[k] = Taken(l, F[k - 1], Scan[k])
                  /\ build_cache(l) = F[Len(Scan)]
<1> DEFINE n == Len(Scan)
           Built(s, g) == IF s = {} THEN <<>> ELSE Taken(l, g[s \ {Max(s)}], Scan[Max(s)])
           Fix(g, m) == g = [s \in SUBSET (1..m) |-> Built(s, g)]
           iter == CHOOSE it :
                      it = [s \in SUBSET DOMAIN Scan |->
                              IF s = {} THEN <<>> ELSE Taken(l, it[s \ {Max(s)}], Scan[Max(s)])]
<1>0. n \in Nat /\ DOMAIN Scan = 1..n
  OBVIOUS
<1>1. build_cache(l) = iter[DOMAIN Scan]
  BY DEF build_cache, FoldLeft, MapThenFoldSet
<1>2. ASSUME NEW g, Fix(g, n) PROVE Fix(iter, n)
  BY <1>0, <1>2 DEF iter
<1> HIDE DEF n, iter
<1>3. ASSUME NEW m \in Nat, NEW g, Fix(g, m)
      PROVE \E h : Fix(h, m + 1)
  <2> DEFINE h == [s \in SUBSET (1..m+1) |-> Built(s, g)]
  <2>1. ASSUME NEW s \in SUBSET (1..m+1), s # {} PROVE s \ {Max(s)} \in SUBSET (1..m)
    <3>0. m + 1 \in Nat
      OBVIOUS
    <3>1. Max(s) \in s /\ \A y \in s : Max(s) >= y
      BY <2>1, <3>0, MaxOfIndices
    <3>2. ASSUME NEW x \in s \ {Max(s)} PROVE x \in 1..m
      <4>1. x \in 1..m+1 /\ x # Max(s) /\ Max(s) >= x /\ Max(s) \in 1..m+1
        BY <3>1
      <4> QED BY <4>1
    <3> QED BY <3>2
  <2>2. ASSUME NEW t \in SUBSET (1..m) PROVE h[t] = g[t]
    <3>1. t \in SUBSET (1..m+1)
      OBVIOUS
    <3>2. g[t] = Built(t, g)
      BY <1>3
    <3> QED BY <3>1, <3>2
  <2>3. ASSUME NEW s \in SUBSET (1..m+1) PROVE Built(s, h) = Built(s, g)
    <3>1. CASE s = {}
      BY <3>1
    <3>2. CASE s # {}
      <4>1. h[s \ {Max(s)}] = g[s \ {Max(s)}]
        BY <2>1, <2>2, <3>2
      <4> HIDE DEF h
      <4> QED BY <4>1, <3>2
    <3> QED BY <3>1, <3>2
  <2> HIDE DEF Built
  <2>4. Fix(h, m + 1)
    BY <2>3
  <2> QED BY <2>4
<1>4. \E g : Fix(g, 0)
  <2> DEFINE g == [s \in SUBSET (1..0) |-> <<>>]
  <2>1. \A s \in SUBSET (1..0) : s = {}
    OBVIOUS
  <2>2. Fix(g, 0)
    BY <2>1
  <2> QED BY <2>2
<1>5. \E g : Fix(g, n)
  <2> DEFINE T == {m \in Nat : ~ \E g : Fix(g, m)}
  <2> HIDE DEF Fix
  <2>1. SUFFICES ASSUME T # {} PROVE FALSE
    BY <1>0
  <2>2. PICK m \in T : \A k \in T : m <= k
    BY <2>1, LeastElement
  <2>3. m # 0
    BY <1>4, <2>2
  <2>4. m - 1 \in Nat /\ m - 1 \notin T
    BY <2>2, <2>3
  <2>5. PICK g : Fix(g, m - 1)
    BY <2>4
  <2>6. \E h : Fix(h, m - 1 + 1)
    BY <1>3, <2>4, <2>5
  <2>7. m - 1 + 1 = m
    BY <2>2
  <2> QED BY <2>2, <2>6, <2>7
<1>6. Fix(iter, n)
  BY <1>2, <1>5
<1> DEFINE F == [k \in 0..n |-> iter[1..k]]
<1>7. F[0] = <<>>
  <2>1. F[0] = iter[{}]
    BY <1>0
  <2>2. iter[{}] = <<>>
    BY <1>6, <1>0
  <2> QED BY <2>1, <2>2
<1>8. ASSUME NEW k \in 1..n PROVE F[k] = Taken(l, F[k - 1], Scan[k])
  <2>1. Max(1..k) = k /\ 1..k \in SUBSET (1..n) /\ 1..k # {}
    <3>1. k \in Nat /\ k \in 1..k
      BY <1>0
    <3>2. Max(1..k) \in 1..k /\ \A y \in 1..k : Max(1..k) >= y
      BY <3>1, MaxOfIndices
    <3> QED BY <3>1, <3>2, <1>0
  <2>2. (1..k) \ {k} = 1..(k - 1)
    BY <1>0
  <2>3. iter[1..k] = Taken(l, iter[1..(k - 1)], Scan[k])
    <3>1. iter[1..k] = Built(1..k, iter)
      <4> HIDE DEF Built
      <4> QED BY <1>6, <2>1
    <3> QED BY <3>1, <2>1, <2>2
  <2> QED BY <2>3, <1>0
<1>9. build_cache(l) = F[n]
  BY <1>0, <1>1
<1> HIDE DEF F
<1> QED BY <1>7, <1>8, <1>9 DEF n

\* The places of Scan: each key under the four combinations; a combination with
\* AltGr comes two places after the same one without.
LEMMA ScanPlaces ==
    /\ Len(MainKeys) \in Nat
    /\ Scan \in Seq([key : Range(MainKeys), levels : SUBSET Levels])
    /\ \A n \in 1..Len(Scan) :
          "AltGr" \in Scan[n].levels =>
              /\ n - 2 \in 1..Len(Scan)
              /\ Scan[n - 2].key = Scan[n].key
              /\ Scan[n - 2].levels \ {"AltGr"} = Scan[n].levels \ {"AltGr"}
<1> DEFINE L == Len(MainKeys)
           key(n) == MainKeys[(n - 1) \div 4 + 1]
           levels(n) == Combos[((n - 1) % 4) + 1]
<1>0. L \in Nat /\ \A i \in 1..L : MainKeys[i] \in Range(MainKeys)
  BY MainKeysAssumption DEF Range
<1> HIDE DEF L
<1>1. ASSUME NEW n \in 1..4 * L
      PROVE  /\ (n - 1) \div 4 + 1 \in 1..L
             /\ (n - 1) % 4 \in {0, 1, 2, 3}
             /\ (n - 1) % 4 \in {2, 3} =>
                   /\ n - 2 \in 1..4 * L
                   /\ (n - 3) \div 4 = (n - 1) \div 4
                   /\ (n - 3) % 4 = ((n - 1) % 4) - 2
  BY <1>0
<1>2. ASSUME NEW n \in 1..4 * L
      PROVE  levels(n) \in SUBSET Levels /\ ("AltGr" \in levels(n) <=> (n - 1) % 4 \in {2, 3})
  <2>1. (n - 1) % 4 \in {0, 1, 2, 3}
    BY <1>1
  <2>2. CASE (n - 1) % 4 = 0
    BY <2>2 DEF Combos, Levels
  <2>3. CASE (n - 1) % 4 = 1
    BY <2>3 DEF Combos, Levels
  <2>4. CASE (n - 1) % 4 = 2
    BY <2>4 DEF Combos, Levels
  <2>5. CASE (n - 1) % 4 = 3
    BY <2>5 DEF Combos, Levels
  <2> QED BY <2>1, <2>2, <2>3, <2>4, <2>5
<1>3. Scan = [n \in 1..4 * L |-> [key |-> key(n), levels |-> levels(n)]]
  BY Zenon DEF Scan, L
<1>4. Scan \in [1..4 * L -> [key : Range(MainKeys), levels : SUBSET Levels]] /\ 4 * L \in Nat
  <2>1. \A n \in 1..4 * L : key(n) \in Range(MainKeys)
    BY <1>0, <1>1
  <2>2. \A n \in 1..4 * L : levels(n) \in SUBSET Levels
    BY <1>2
  <2> HIDE DEF key, levels
  <2> QED BY <1>0, <1>3, <2>1, <2>2
<1>5. Scan \in Seq([key : Range(MainKeys), levels : SUBSET Levels]) /\ Len(Scan) = 4 * L
  <2> DEFINE V == [key : Range(MainKeys), levels : SUBSET Levels]
             N == 4 * L
  <2>1. Scan \in [1..N -> V] /\ N \in Nat
    BY <1>4
  <2> HIDE DEF V, N
  <2>2. Scan \in Seq(V) /\ Len(Scan) = N
    BY <2>1
  <2> QED BY <2>2 DEF V, N
<1>6. ASSUME NEW n \in 1..4 * L, "AltGr" \in Scan[n].levels
      PROVE  /\ n - 2 \in 1..4 * L
             /\ Scan[n - 2].key = Scan[n].key
             /\ Scan[n - 2].levels \ {"AltGr"} = Scan[n].levels \ {"AltGr"}
  <2>1. (n - 1) % 4 \in {2, 3}
    BY <1>2, <1>3, <1>6
  <2>2. n - 2 \in 1..4 * L /\ n - 2 - 1 = n - 3
    BY <1>1, <2>1
  <2>3. key(n - 2) = key(n)
    BY <1>1, <2>1, <2>2
  <2>4. levels(n - 2) \ {"AltGr"} = levels(n) \ {"AltGr"}
    BY <1>1, <2>1, <2>2 DEF Combos, Levels
  <2> HIDE DEF key, levels
  <2> QED BY <1>3, <2>2, <2>3, <2>4
<1> QED BY <1>0, <1>5, <1>6 DEF L

\* A symbol that is skipped stays so while the cache grows, and is skipped once
\* it is there.
LEMMA SkippedStays ==
    ASSUME NEW V, NEW c \in Seq(V), NEW e \in V, NEW x
    PROVE  /\ Skipped(c, x) => Skipped(Append(c, e), x)
           /\ Skipped(Append(c, e), e.char)
<1> DEFINE d == Append(c, e)
<1>1. /\ d \in Seq(V) /\ Len(d) = Len(c) + 1 /\ d[Len(c) + 1] = e
      /\ \A i \in 1..Len(c) : d[i] = c[i]
  OBVIOUS
<1>2. DOMAIN c = 1..Len(c) /\ DOMAIN d = 1..Len(c) + 1 /\ Len(c) \in Nat
  BY <1>1
<1> HIDE DEF d
<1>3. ASSUME x \in {c[i].char : i \in DOMAIN c}
      PROVE x \in {d[i].char : i \in DOMAIN d}
  <2>1. PICK i \in 1..Len(c) : x = c[i].char
    BY <1>2, <1>3
  <2>2. i \in DOMAIN d /\ x = d[i].char
    BY <1>1, <1>2, <2>1
  <2> QED BY <2>2
<1>4. e.char \in {d[i].char : i \in DOMAIN d}
  <2>1. Len(c) + 1 \in DOMAIN d /\ e.char = d[Len(c) + 1].char
    BY <1>1, <1>2
  <2> QED BY <2>1
<1>5. Len(c) >= kCapacity => Len(d) >= kCapacity
  BY <1>1, <1>2, KeyInjectAssumption
<1> QED BY <1>3, <1>4, <1>5 DEF Skipped, d

\* What build_cache keeps for a character is a key of the layout and levels under
\* which the layout has that character, also where the keymap does not know
\* AltGr: such a combination is read without it, and then the same key without
\* AltGr came first (xkb_mapper.c:76-139).
LEMMA CacheSound ==
    ASSUME NEW l, NEW e \in Range(build_cache(l))
    PROVE  e.key \in Range(MainKeys) /\ e.levels \in SUBSET Levels /\ Table[l][<<e.key, e.levels>>] = e.char
<1> DEFINE n == Len(Scan)
           Places == [key : Range(MainKeys), levels : SUBSET Levels]
           V == [char : {Symbol(l, Scan[j]) : j \in 1..n}, key : Range(MainKeys), levels : SUBSET Levels]
           Sound(c) == \A i \in DOMAIN c :
                          /\ Symbol(l, c[i]) = c[i].char
                          /\ ~ Level3Known => "AltGr" \notin c[i].levels
           Seen(c, k) == \A j \in 1..k : Skipped(c, Symbol(l, Scan[j]))
<1>1. Scan \in Seq(Places) /\ n \in Nat
  BY ScanPlaces
<1>2. PICK F : /\ F[0] = <<>>
               /\ \A k \in 1..n : F[k] = Taken(l, F[k - 1], Scan[k])
               /\ build_cache(l) = F[n]
  <2> HIDE DEF Places
  <2> QED BY <1>1, CacheSteps
<1> DEFINE Inv(k) == F[k] \in Seq(V) /\ Sound(F[k]) /\ Seen(F[k], k)
<1> HIDE DEF n
<1>3. Inv(0)
  <2>1. F[0] \in Seq(V)
    <3> HIDE DEF V
    <3> QED BY <1>2
  <2>2. DOMAIN F[0] = {} /\ 1..0 = {}
    BY <1>2
  <2> QED BY <2>1, <2>2
<1>4. ASSUME NEW k \in 1..n, Inv(k - 1) PROVE Inv(k)
  <2> DEFINE c == F[k - 1]
             at == Scan[k]
             sym == Symbol(l, at)
             new == [char |-> sym, key |-> at.key, levels |-> at.levels]
             d == Append(c, new)
  <2>0. k - 1 \in Nat /\ F[k] = Taken(l, c, at) /\ 1..k = 1..(k - 1) \cup {k}
    BY <1>1, <1>2
  <2>1. CASE Skipped(c, sym)
    <3>1. F[k] = c
      BY <2>0, <2>1 DEF Taken
    <3> HIDE DEF c, sym, Sound
    <3> QED BY <1>4, <2>0, <2>1, <3>1 DEF c, sym
  <2>2. CASE ~ Skipped(c, sym)
    <3>1. F[k] = d
      BY <2>0, <2>2 DEF Taken
    <3>2. at \in Places
      <4> HIDE DEF Places
      <4> QED BY <1>1 DEF n
    <3>3. new \in V /\ c \in Seq(V)
      <4>1. sym \in {Symbol(l, Scan[j]) : j \in 1..n}
        OBVIOUS
      <4> HIDE DEF sym
      <4> QED BY <1>4, <3>2, <4>1
    <3>4. Symbol(l, new) = sym
      BY DEF Symbol
    <3>5. ~ Level3Known => "AltGr" \notin at.levels
      <4>1. SUFFICES ASSUME ~ Level3Known, "AltGr" \in at.levels PROVE FALSE
        OBVIOUS
      <4>2. k - 2 \in 1..n /\ Scan[k - 2].key = at.key /\ Scan[k - 2].levels \ {"AltGr"} = at.levels \ {"AltGr"}
        BY <4>1, ScanPlaces DEF n
      <4>3. Symbol(l, Scan[k - 2]) = sym
        BY <4>1, <4>2 DEF Symbol
      <4>4. k - 2 \in 1..(k - 1)
        BY <1>1, <4>2
      <4> QED BY <1>4, <2>2, <4>3, <4>4
    <3>6. Seen(d, k)
      <4>1. \A x : (Skipped(c, x) => Skipped(d, x)) /\ Skipped(d, new.char)
        <5> HIDE DEF new, V, c
        <5> QED BY <3>3, SkippedStays
      <4> HIDE DEF c, d, sym
      <4> QED BY <1>4, <2>0, <4>1 DEF c, sym
    <3>7. d \in Seq(V) /\ Len(d) = Len(c) + 1 /\ d[Len(c) + 1] = new
          /\ DOMAIN c = 1..Len(c) /\ DOMAIN d = 1..Len(c) + 1 /\ Len(c) \in Nat
          /\ \A i \in 1..Len(c) : d[i] = c[i]
      <4> HIDE DEF new, V, c
      <4> QED BY <3>3
    <3>8. Sound(d)
      <4> SUFFICES ASSUME NEW i \in DOMAIN d
                   PROVE  /\ Symbol(l, d[i]) = d[i].char
                          /\ ~ Level3Known => "AltGr" \notin d[i].levels
        OBVIOUS
      <4>1. CASE i = Len(c) + 1
        <5>1. d[i] = new
          BY <3>7, <4>1
        <5>2. new.char = sym /\ new.levels = at.levels
          OBVIOUS
        <5> HIDE DEF new, sym, d
        <5> QED BY <3>4, <3>5, <5>1, <5>2
      <4>2. CASE i # Len(c) + 1
        <5>1. i \in DOMAIN c /\ d[i] = c[i]
          <6> HIDE DEF c, d
          <6> QED BY <3>7, <4>2
        <5> HIDE DEF c, d
        <5> QED BY <1>4, <5>1 DEF c
      <4> QED BY <4>1, <4>2
    <3> HIDE DEF d, Sound, Seen
    <3> QED BY <3>1, <3>6, <3>7, <3>8
  <2> QED BY <2>1, <2>2
<1>5. Inv(n)
  <2> DEFINE T == {k \in 0..n : ~ Inv(k)}
  <2> HIDE DEF Inv
  <2>1. SUFFICES ASSUME T # {} PROVE FALSE
    BY <1>1
  <2>2. T \in SUBSET Nat
    BY <1>1
  <2>3. PICK m \in T : \A k \in T : m <= k
    <3> HIDE DEF T
    <3> QED BY <2>1, <2>2, LeastElement
  <2>4. m # 0
    BY <1>3, <2>3
  <2>5. m \in 1..n /\ m - 1 \in 0..n /\ m - 1 \notin T
    BY <1>1, <2>3, <2>4
  <2> QED BY <1>4, <2>3, <2>5
<1>6. PICK i \in DOMAIN F[n] : e = F[n][i]
  BY <1>2 DEF Range
<1>7. e \in V
  <2> HIDE DEF V
  <2> QED BY <1>5, <1>6
<1>8. Symbol(l, e) = e.char /\ (~ Level3Known => e.levels \ {"AltGr"} = e.levels)
  BY <1>5, <1>6
<1>9. Table[l][<<e.key, e.levels>>] = e.char
  <2>1. CASE Level3Known
    BY <1>8, <2>1 DEF Symbol
  <2>2. CASE ~ Level3Known
    BY <1>8, <2>2 DEF Symbol
  <2> QED BY <2>1, <2>2
<1> QED BY <1>7, <1>9

---------------------------------------------------------------------------
(* The chord of a request *)

LEMMA RangeOfConcat ==
    ASSUME NEW S, NEW s \in Seq(S), NEW t \in Seq(S)
    PROVE  s \o t \in Seq(S) /\ Range(s \o t) = Range(s) \cup Range(t)
<1> DEFINE st == s \o t
<1>1. /\ st \in Seq(S) /\ Len(st) = Len(s) + Len(t)
      /\ \A i \in 1..Len(s) : st[i] = s[i]
      /\ \A i \in 1..Len(t) : st[Len(s) + i] = t[i]
      /\ DOMAIN s = 1..Len(s) /\ DOMAIN t = 1..Len(t) /\ DOMAIN st = 1..Len(s) + Len(t)
      /\ Len(s) \in Nat /\ Len(t) \in Nat
  OBVIOUS
<1> HIDE DEF st
<1>2. ASSUME NEW x \in Range(st) PROVE x \in Range(s) \cup Range(t)
  <2>1. PICK i \in 1..Len(s) + Len(t) : x = st[i]
    BY <1>1 DEF Range
  <2>2. CASE i \in 1..Len(s)
    BY <1>1, <2>1, <2>2 DEF Range
  <2>3. CASE i \notin 1..Len(s)
    <3>1. i - Len(s) \in 1..Len(t) /\ x = t[i - Len(s)]
      <4>1. i - Len(s) \in 1..Len(t) /\ Len(s) + (i - Len(s)) = i
        BY <1>1, <2>3
      <4> QED BY <1>1, <2>1, <4>1
    <3> QED BY <1>1, <3>1 DEF Range
  <2> QED BY <2>2, <2>3
<1>3. ASSUME NEW x \in Range(s) PROVE x \in Range(st)
  <2>1. PICK i \in 1..Len(s) : x = s[i]
    BY <1>1, <1>3 DEF Range
  <2>2. i \in DOMAIN st /\ x = st[i]
    BY <1>1, <2>1
  <2> QED BY <2>2 DEF Range
<1>4. ASSUME NEW x \in Range(t) PROVE x \in Range(st)
  <2>1. PICK i \in 1..Len(t) : x = t[i]
    BY <1>1, <1>4 DEF Range
  <2>2. Len(s) + i \in DOMAIN st /\ x = st[Len(s) + i]
    BY <1>1, <2>1
  <2> QED BY <2>2 DEF Range
<1>5. Range(st) = Range(s) \cup Range(t)
  BY <1>2, <1>3, <1>4
<1> QED BY <1>1, <1>5 DEF st

\* One key of a chord.
LEMMA OnlyOne ==
    ASSUME NEW S, NEW k \in S, NEW wanted
    PROVE  Only(k, wanted) \in Seq(S) /\ Range(Only(k, wanted)) = {k} \cap wanted
<1>1. CASE k \in wanted
  <2>1. Only(k, wanted) = <<k>>
    BY <1>1 DEF Only
  <2>2. <<k>> \in Seq(S) /\ DOMAIN <<k>> = {1} /\ <<k>>[1] = k
    OBVIOUS
  <2>3. Range(<<k>>) = {k}
    BY <2>2 DEF Range
  <2> QED BY <1>1, <2>1, <2>2, <2>3
<1>2. CASE k \notin wanted
  <2>1. Only(k, wanted) = <<>>
    BY <1>2 DEF Only
  <2>2. <<>> \in Seq(S) /\ DOMAIN <<>> = {}
    OBVIOUS
  <2>3. Range(<<>>) = {}
    BY <2>2 DEF Range
  <2> QED BY <1>2, <2>1, <2>2, <2>3
<1> QED BY <1>1, <1>2

\* A chord is made of modifiers, and of all that the user and the layout want; the
\* library gets no AltGr.
LEMMA ChordKeys ==
    ASSUME NEW mods, NEW levels \in SUBSET Levels
    PROVE  /\ Chord(mods, levels) \in Seq(Modifiers)
           /\ uinput \/ levels \subseteq {"Shift"} => Range(Chord({}, levels)) = levels
<1>1. /\ "Shift" \in Modifiers /\ "AltGr" \in Modifiers /\ "Control" \in Modifiers
      /\ "Meta" \in Modifiers /\ "Alt" \in Modifiers
  BY DEF Modifiers, Levels
<1>0. \A s, t \in Seq(Modifiers) : s \o t \in Seq(Modifiers) /\ Range(s \o t) = Range(s) \cup Range(t)
  BY RangeOfConcat, Zenon
<1>2. ASSUME NEW m, uinput
      PROVE  /\ Chord(m, levels) \in Seq(Modifiers)
             /\ Range(Chord(m, levels)) = {"Shift", "AltGr", "Control", "Meta", "Alt"} \cap (m \cup levels)
  <2> DEFINE w == m \cup levels
             s1 == Only("Shift", w)   s2 == Only("AltGr", w)  s3 == Only("Control", w)
             s4 == Only("Meta", w)    s5 == Only("Alt", w)
  <2>1. Chord(m, levels) = s1 \o s2 \o s3 \o s4 \o s5
    BY <1>2, Zenon DEF Chord
  <2>2. /\ s1 \in Seq(Modifiers) /\ s2 \in Seq(Modifiers) /\ s3 \in Seq(Modifiers)
        /\ s4 \in Seq(Modifiers) /\ s5 \in Seq(Modifiers)
        /\ Range(s1) = {"Shift"} \cap w /\ Range(s2) = {"AltGr"} \cap w /\ Range(s3) = {"Control"} \cap w
        /\ Range(s4) = {"Meta"} \cap w /\ Range(s5) = {"Alt"} \cap w
    BY <1>1, OnlyOne
  <2> HIDE DEF s1, s2, s3, s4, s5
  <2>6. /\ s1 \in Seq(Modifiers) /\ s2 \in Seq(Modifiers) /\ s3 \in Seq(Modifiers)
        /\ s4 \in Seq(Modifiers) /\ s5 \in Seq(Modifiers)
    BY <2>2, Zenon
  <2>3. /\ s1 \o s2 \o s3 \o s4 \o s5 \in Seq(Modifiers)
        /\ Range(s1 \o s2 \o s3 \o s4 \o s5)
             = Range(s1) \cup Range(s2) \cup Range(s3) \cup Range(s4) \cup Range(s5)
    <3>1. s1 \o s2 \in Seq(Modifiers) /\ Range(s1 \o s2) = Range(s1) \cup Range(s2)
      BY <1>0, <2>6, Zenon
    <3>2. s1 \o s2 \o s3 \in Seq(Modifiers) /\ Range(s1 \o s2 \o s3) = Range(s1 \o s2) \cup Range(s3)
      BY <1>0, <2>6, <3>1, Zenon
    <3>3. /\ s1 \o s2 \o s3 \o s4 \in Seq(Modifiers)
          /\ Range(s1 \o s2 \o s3 \o s4) = Range(s1 \o s2 \o s3) \cup Range(s4)
      BY <1>0, <2>6, <3>2, Zenon
    <3>4. /\ s1 \o s2 \o s3 \o s4 \o s5 \in Seq(Modifiers)
          /\ Range(s1 \o s2 \o s3 \o s4 \o s5) = Range(s1 \o s2 \o s3 \o s4) \cup Range(s5)
      BY <1>0, <2>6, <3>3, Zenon
    <3> QED BY <3>1, <3>2, <3>3, <3>4, Zenon
  <2>4. Range(s1) \cup Range(s2) \cup Range(s3) \cup Range(s4) \cup Range(s5)
          = {"Shift", "AltGr", "Control", "Meta", "Alt"} \cap w
    BY <2>2
  <2> HIDE DEF w
  <2>5. /\ Chord(m, levels) \in Seq(Modifiers)
        /\ Range(Chord(m, levels)) = {"Shift", "AltGr", "Control", "Meta", "Alt"} \cap w
    BY <2>1, <2>3, <2>4, Zenon
  <2> QED BY <2>5 DEF w
<1>3. ASSUME NEW m, ~ uinput
      PROVE  /\ Chord(m, levels) \in Seq(Modifiers)
             /\ Range(Chord(m, levels))
                  = ({"Shift", "Control", "Alt", "Meta"} \cap m) \cup ({"Shift"} \cap (levels \ m))
  <2> DEFINE s1 == Only("Shift", m)   s2 == Only("Control", m)  s3 == Only("Alt", m)
             s4 == Only("Meta", m)    s5 == Only("Shift", levels \ m)
  <2>1. Chord(m, levels) = s1 \o s2 \o s3 \o s4 \o s5
    BY <1>3, Zenon DEF Chord
  <2>2. /\ s1 \in Seq(Modifiers) /\ s2 \in Seq(Modifiers) /\ s3 \in Seq(Modifiers)
        /\ s4 \in Seq(Modifiers) /\ s5 \in Seq(Modifiers)
        /\ Range(s1) = {"Shift"} \cap m /\ Range(s2) = {"Control"} \cap m /\ Range(s3) = {"Alt"} \cap m
        /\ Range(s4) = {"Meta"} \cap m /\ Range(s5) = {"Shift"} \cap (levels \ m)
    BY <1>1, OnlyOne
  <2> HIDE DEF s1, s2, s3, s4, s5
  <2>6. /\ s1 \in Seq(Modifiers) /\ s2 \in Seq(Modifiers) /\ s3 \in Seq(Modifiers)
        /\ s4 \in Seq(Modifiers) /\ s5 \in Seq(Modifiers)
    BY <2>2, Zenon
  <2>3. /\ s1 \o s2 \o s3 \o s4 \o s5 \in Seq(Modifiers)
        /\ Range(s1 \o s2 \o s3 \o s4 \o s5)
             = Range(s1) \cup Range(s2) \cup Range(s3) \cup Range(s4) \cup Range(s5)
    <3>1. s1 \o s2 \in Seq(Modifiers) /\ Range(s1 \o s2) = Range(s1) \cup Range(s2)
      BY <1>0, <2>6, Zenon
    <3>2. s1 \o s2 \o s3 \in Seq(Modifiers) /\ Range(s1 \o s2 \o s3) = Range(s1 \o s2) \cup Range(s3)
      BY <1>0, <2>6, <3>1, Zenon
    <3>3. /\ s1 \o s2 \o s3 \o s4 \in Seq(Modifiers)
          /\ Range(s1 \o s2 \o s3 \o s4) = Range(s1 \o s2 \o s3) \cup Range(s4)
      BY <1>0, <2>6, <3>2, Zenon
    <3>4. /\ s1 \o s2 \o s3 \o s4 \o s5 \in Seq(Modifiers)
          /\ Range(s1 \o s2 \o s3 \o s4 \o s5) = Range(s1 \o s2 \o s3 \o s4) \cup Range(s5)
      BY <1>0, <2>6, <3>3, Zenon
    <3> QED BY <3>1, <3>2, <3>3, <3>4, Zenon
  <2>4. Range(s1) \cup Range(s2) \cup Range(s3) \cup Range(s4) \cup Range(s5)
          = ({"Shift", "Control", "Alt", "Meta"} \cap m) \cup ({"Shift"} \cap (levels \ m))
    BY <2>2
  <2> QED BY <2>1, <2>3, <2>4, Zenon
<1>4. Chord(mods, levels) \in Seq(Modifiers)
  BY <1>2, <1>3, Zenon
<1>5. ASSUME uinput PROVE Range(Chord({}, levels)) = levels
  <2>1. Range(Chord({}, levels)) = {"Shift", "AltGr", "Control", "Meta", "Alt"} \cap ({} \cup levels)
    BY <1>2, <1>5, Zenon
  <2>2. {"Shift", "AltGr", "Control", "Meta", "Alt"} \cap ({} \cup levels) = levels
    BY DEF Levels
  <2> QED BY <2>1, <2>2, Zenon
<1>6. ASSUME ~ uinput, levels \subseteq {"Shift"} PROVE Range(Chord({}, levels)) = levels
  <2>1. Range(Chord({}, levels)) = ({"Shift", "Control", "Alt", "Meta"} \cap {}) \cup ({"Shift"} \cap (levels \ {}))
    BY <1>3, <1>6, Zenon
  <2>2. ({"Shift", "Control", "Alt", "Meta"} \cap {}) \cup ({"Shift"} \cap (levels \ {})) = levels
    BY <1>6
  <2> QED BY <2>1, <2>2, Zenon
<1> QED BY <1>4, <1>5, <1>6, Zenon

\* A mapping of a character is a way to type it, on the layout the cache was built
\* from; the library's needs no AltGr.
LEMMA MappingSound ==
    ASSUME TypeOK, NEW c, NEW e \in Mapping(c)
    PROVE  /\ e.key \in Range(MainKeys) /\ e.levels \in SUBSET Levels
           /\ uinput \/ e.levels \subseteq {"Shift"}
           /\ keymap = layout => Table[layout][<<e.key, e.levels>>] = c
<1>1. ASSUME NEW l \in Layouts \cup {NoLayout}, e \in Entries(l)
      PROVE  /\ e.key \in Range(MainKeys) /\ e.levels \in SUBSET Levels
             /\ Table[l][<<e.key, e.levels>>] = e.char
  <2>1. l # NoLayout /\ e \in Range(Cache[l])
    BY <1>1 DEF Entries
  <2>2. Cache[l] = build_cache(l)
    BY <2>1 DEF Cache
  <2> QED BY <2>1, <2>2, CacheSound
<1>2. CASE uinput
  <2>1. e \in Entries(keymap) /\ e.char = c
    BY <1>2 DEF Mapping, xkbmap_map_utf8_to_evdev
  <2> QED BY <1>1, <1>2, <2>1 DEF TypeOK
<1>3. CASE ~ uinput
  <2>1. e \in Entries(UsLayout) /\ e.char = c /\ e.levels \subseteq {"Shift"}
    BY <1>3 DEF Mapping, map_char_to_platform
  <2> QED BY <1>1, <1>3, <2>1, KeyInjectAssumption DEF TypeOK
<1> QED BY <1>2, <1>3

---------------------------------------------------------------------------
(* One call of the input device *)

\* The call did what it was for.
Worked(k, dir) ==
    /\ hit' = hit \ {k}
    /\ held' = IF dir = "Press" THEN held \cup ({k} \cap Announced) ELSE held \ {k}
    /\ dir # "Release" /\ k \in (Range(MainKeys) \cap Announced) \ held =>
          typed' = Table[layout][<<k, held \cap Levels>>]

\* Some of it may have been done, and what is down is noted.
Failed(k) ==
    /\ hit' = hit \cup (({k} \cup Abandoned) \cap held')
    /\ held' \in {held, held \cup {k}, held \ {k}}

\* A call disturbs no key but its own, whether it works or fails half way
\* (linux_uinput.c:345-420).
LEMMA CallEffect ==
    ASSUME TypeOK, NEW k, NEW dir \in Directions, NEW done, NEW failed, Call(k, dir, done, failed)
    PROVE  /\ uinput' = uinput /\ keymap' = keymap /\ layout' = layout /\ asked' = asked
           /\ device' = device /\ config' = config
           /\ held' \subseteq Announced
           /\ dir = "Release" => typed' = typed
           /\ held' \in {held, held \cup {k}, held \ {k}}
           /\ \/ job' = done /\ Worked(k, dir)
              \/ job' = failed /\ Failed(k)
<1>1. PICK written \in Written(k, dir) :
        LET ok == written = Writes(dir) IN
        /\ held' = After(k, dir, written)
        /\ job' = IF ok THEN done ELSE failed
        /\ hit' = IF ok THEN hit \ {k} ELSE hit \cup (({k} \cup Abandoned) \cap held')
        /\ typed' = IF k \in (Range(MainKeys) \cap Announced) \ held /\ dir # "Release" /\ written > 0
                    THEN Table[layout][<<k, held \cap Levels>>] ELSE typed
        /\ UNCHANGED <<setup, layout, asked, requests>>
  BY Zenon DEF Call
<1>2. held' \in {held, held \cup {k}, held \ {k}} /\ held' \subseteq Announced
  BY <1>1 DEF After, TypeOK
<1>3. CASE written = Writes(dir)
  <2>1. written > 0 /\ written # 0 /\ ~ (dir = "Click" /\ written <= 2)
    BY <1>3 DEF Writes, Directions
  <2>2. held' = IF dir = "Press" THEN held \cup ({k} \cap Announced) ELSE held \ {k}
    <3>1. CASE k \in Announced
      BY <1>1, <2>1, <3>1 DEF After
    <3>2. CASE k \notin Announced
      BY <1>1, <3>2 DEF After, TypeOK
    <3> QED BY <3>1, <3>2
  <2>3. Worked(k, dir) /\ job' = done
    BY <1>1, <1>3, <2>1, <2>2 DEF Worked
  <2> QED BY <1>1, <1>2, <2>3 DEF setup
<1>4. CASE written # Writes(dir)
  <2>1. Failed(k) /\ job' = failed
    BY <1>1, <1>2, <1>4 DEF Failed
  <2> QED BY <1>1, <1>2, <2>1 DEF setup
<1> QED BY <1>3, <1>4

---------------------------------------------------------------------------
(* Injected is inductive. *)

LEMMA InitInjected == Init => Injected
<1> SUFFICES ASSUME Init PROVE Injected
  OBVIOUS
<1>1. NoJob \in Job /\ NoJob.stage = "idle" /\ NoJob.down = 0 /\ NoJob.plain = FALSE
      /\ Len(NoJob.chord) = 0 /\ ~ NoJob.split
  BY DEF NoJob, Job, Stages, Text, Directions
<1>2. TypeOK
  BY <1>1, KeyInjectAssumption DEF Init, TypeOK, xkbmap_init_auto, Text
<1>3. Explained /\ ChordDown /\ ClipboardKept /\ Meant
  BY <1>1 DEF Init, Explained, ChordDown, ClipboardKept, Meant, Window
<1> QED BY <1>2, <1>3 DEF Injected

\* PressModifier: the next modifier of the chord goes down; with uinput one that
\* fails sends those before it up again.
LEMMA PressModifierStep ==
    ASSUME Injected, PressModifier PROVE Injected'
<1> DEFINE k == job.chord[job.down + 1]
           done == [job EXCEPT !.down = @ + 1]
<1>1. /\ job.stage = "press" /\ job.down < Len(job.chord)
      /\ Call(k, "Press", done, Rollback)
      /\ UNCHANGED <<clips, wheel>>
  BY DEF PressModifier, CallOnly
<1>2. k \in Modifiers /\ k \in Announced /\ job.down + 1 \in 1..Len(job.chord)
  BY <1>1, KeyInjectAssumption DEF Injected, TypeOK, Job
<1> HIDE DEF k, done
<1>3. /\ uinput' = uinput /\ keymap' = keymap /\ layout' = layout /\ asked' = asked /\ config' = config
      /\ held' \subseteq Announced
      /\ held' \in {held, held \cup {k}, held \ {k}}
      /\ \/ job' = done /\ Worked(k, "Press")
         \/ job' = Rollback /\ Failed(k)
  BY <1>1, CallEffect DEF Injected, Directions
<1>4. /\ clipboard' = clipboard /\ own' = own /\ intruded' = intruded /\ spoiled' = spoiled
  BY <1>1 DEF clips
<1>5. CASE job' = done /\ Worked(k, "Press")
  <2>1. TypeOK'
    BY <1>1, <1>2, <1>3, <1>4, <1>5 DEF Injected, TypeOK, Job, done
  <2>2. Explained'
    BY <1>1, <1>2, <1>3, <1>5 DEF Injected, Explained, Holds, TypeOK, Job, Worked, done, k
  <2>3. ChordDown'
    BY <1>1, <1>2, <1>3, <1>5 DEF Injected, ChordDown, TypeOK, Job, Worked, done, k
  <2>4. ClipboardKept'
    BY <1>1, <1>4, <1>5 DEF Injected, ClipboardKept, TypeOK, Job, done, Window
  <2>5. Meant'
    BY <1>1, <1>2, <1>3, <1>5 DEF Injected, Meant, TypeOK, Job, Worked, done, k
  <2> QED BY <2>1, <2>2, <2>3, <2>4, <2>5 DEF Injected
<1>6. CASE job' = Rollback /\ Failed(k)
  <2>1. TypeOK'
    <3>1. CASE uinput
      BY <1>1, <1>3, <1>4, <1>6, <3>1 DEF Injected, TypeOK, Job, Rollback, Stages
    <3>2. CASE ~ uinput
      <4>1. job' = [job EXCEPT !.down = job.down + 1, !.plain = FALSE]
        BY <1>6, <3>2, Zenon DEF Rollback
      <4>2. job \in Job /\ job.down + 1 \in Nat /\ job.down + 1 <= Len(job.chord)
        BY <1>1, <1>2 DEF Injected, TypeOK, Job
      <4>3. job' \in Job /\ job'.stage = "press" /\ job'.down = job.down + 1 /\ job'.chord = job.chord
            /\ job'.split = job.split /\ job'.op = job.op
        BY <1>1, <4>1, <4>2 DEF Job
      <4> QED BY <1>3, <1>4, <4>2, <4>3 DEF Injected, TypeOK
    <3> QED BY <3>1, <3>2
  <2>2. Explained'
    BY <1>1, <1>2, <1>3, <1>6 DEF Injected, Explained, Holds, TypeOK, Job, Failed, Abandoned, Rollback, k
  <2>3. ChordDown'
    BY <1>1, <1>2, <1>3, <1>6 DEF Injected, ChordDown, TypeOK, Job, Rollback
  <2>4. ClipboardKept'
    BY <1>1, <1>4, <1>6 DEF Injected, ClipboardKept, TypeOK, Job, Rollback, Window
  <2>5. Meant'
    BY <1>1, <1>2, <1>3, <1>6 DEF Injected, Meant, TypeOK, Job, Rollback
  <2> QED BY <2>1, <2>2, <2>3, <2>4, <2>5 DEF Injected
<1> QED BY <1>3, <1>5, <1>6

\* MainKey: the key of the request, under its chord.
LEMMA MainKeyStep ==
    ASSUME Injected, MainKey PROVE Injected'
<1> DEFINE k == job.key
           dir == IF job.split THEN "Press" ELSE job.op
           done == At(IF job.split THEN "split" ELSE "release")
           failed == [job EXCEPT !.stage = "release", !.ok = FALSE]
<1>1. /\ job.stage = "press" /\ job.down = Len(job.chord)
      /\ Call(k, dir, done, failed)
      /\ UNCHANGED <<clips, wheel>>
  BY Zenon DEF MainKey, CallOnly
<1>2. dir \in Directions /\ (job.split => job.op = "Click" /\ dir = "Press") /\ (~ job.split => dir = job.op)
  BY DEF Injected, TypeOK, Job, Directions
<1>5. /\ done \in Job /\ done.stage = (IF job.split THEN "split" ELSE "release")
      /\ done.down = job.down /\ done.chord = job.chord /\ done.split = job.split /\ done.key = job.key
      /\ done.op = job.op /\ done.text = job.text /\ done.plain = job.plain /\ done.ok = job.ok
  BY DEF Injected, TypeOK, Job, Stages, At
<1>6. /\ failed \in Job /\ failed.stage = "release" /\ failed.ok = FALSE
      /\ failed.down = job.down /\ failed.chord = job.chord /\ failed.split = job.split
      /\ failed.op = job.op
  BY DEF Injected, TypeOK, Job, Stages
<1> HIDE DEF dir, done, failed
<1>3. /\ uinput' = uinput /\ keymap' = keymap /\ layout' = layout /\ asked' = asked /\ config' = config
      /\ held' \subseteq Announced
      /\ held' \in {held, held \cup {k}, held \ {k}}
      /\ \/ job' = done /\ Worked(k, dir)
         \/ job' = failed /\ Failed(k)
  BY <1>1, <1>2, CallEffect DEF Injected
<1>4. /\ clipboard' = clipboard /\ own' = own /\ intruded' = intruded /\ spoiled' = spoiled
  BY <1>1 DEF clips
<1> HIDE DEF k
<1>7. CASE job' = done /\ Worked(k, dir)
  <2>1. TypeOK'
    BY <1>1, <1>3, <1>4, <1>5, <1>7 DEF Injected, TypeOK
  <2>2. Explained'
    BY <1>1, <1>2, <1>3, <1>5, <1>7 DEF Injected, Explained, Holds, TypeOK, Worked, k
  <2>3. ChordDown'
    BY <1>5, <1>7 DEF ChordDown
  <2>4. ClipboardKept'
    BY <1>1, <1>4, <1>5, <1>7 DEF Injected, ClipboardKept, Window
  <2>5. Meant'
    <3>1. SUFFICES ASSUME job'.plain, job'.text # NoText, job.key \in Announced PROVE typed' = job.text
      BY <1>5, <1>7 DEF Meant
    <3>2. /\ job.key \in Range(MainKeys) /\ job.op # "Release"
          /\ Range(job.chord) \subseteq Levels
          /\ Table[layout][<<job.key, Range(job.chord)>>] = job.text
          /\ held = {job.chord[i] : i \in 1..job.down}
      BY <1>1, <1>5, <1>7, <3>1 DEF Injected, Meant
    <3>3. Range(job.chord) = held
      <4>1. DOMAIN job.chord = 1..job.down
        BY <1>1 DEF Injected, TypeOK, Job
      <4> QED BY <3>2, <4>1 DEF Range
    <3>4. job.key \notin held /\ held \cap Levels = Range(job.chord) /\ dir # "Release"
      BY <1>2, <3>2, <3>3, MainKeysAssumption DEF Modifiers
    <3> QED BY <1>7, <3>1, <3>2, <3>4 DEF Worked, k
  <2> QED BY <2>1, <2>2, <2>3, <2>4, <2>5 DEF Injected
<1>8. CASE job' = failed /\ Failed(k)
  <2>1. TypeOK'
    BY <1>1, <1>3, <1>4, <1>6, <1>8 DEF Injected, TypeOK
  <2>2. Explained'
    BY <1>1, <1>2, <1>3, <1>6, <1>8 DEF Injected, Explained, Holds, TypeOK, Failed, Abandoned, k
  <2>3. ChordDown'
    BY <1>6, <1>8 DEF ChordDown
  <2>4. ClipboardKept'
    BY <1>1, <1>4, <1>6, <1>8 DEF Injected, ClipboardKept, Window
  <2>5. Meant'
    BY <1>6, <1>8 DEF Meant
  <2> QED BY <2>1, <2>2, <2>3, <2>4, <2>5 DEF Injected
<1> QED BY <1>3, <1>7, <1>8

\* ReleaseMainKey: the second half of a click under modifiers.
LEMMA ReleaseMainKeyStep ==
    ASSUME Injected, ReleaseMainKey PROVE Injected'
<1> DEFINE k == job.key
           done == At("release")
           failed == [job EXCEPT !.stage = "release", !.ok = FALSE]
<1>1. /\ job.stage = "split"
      /\ Call(k, "Release", done, failed)
      /\ UNCHANGED <<clips, wheel>>
  BY Zenon DEF ReleaseMainKey, CallOnly
<1>5. /\ done \in Job /\ done.stage = "release" /\ done.ok = job.ok
      /\ done.down = job.down /\ done.chord = job.chord /\ done.split = job.split /\ done.key = job.key
      /\ done.op = job.op /\ done.text = job.text /\ done.plain = job.plain
  BY DEF Injected, TypeOK, Job, Stages, At
<1>6. /\ failed \in Job /\ failed.stage = "release" /\ failed.ok = FALSE
      /\ failed.down = job.down /\ failed.chord = job.chord /\ failed.split = job.split
      /\ failed.op = job.op
  BY DEF Injected, TypeOK, Job, Stages
<1> HIDE DEF done, failed
<1>3. /\ uinput' = uinput /\ keymap' = keymap /\ layout' = layout /\ asked' = asked /\ config' = config
      /\ held' \subseteq Announced
      /\ held' \in {held, held \cup {k}, held \ {k}}
      /\ typed' = typed
      /\ \/ job' = done /\ Worked(k, "Release")
         \/ job' = failed /\ Failed(k)
  BY <1>1, CallEffect DEF Injected, Directions
<1>4. /\ clipboard' = clipboard /\ own' = own /\ intruded' = intruded /\ spoiled' = spoiled
  BY <1>1 DEF clips
<1> HIDE DEF k
<1>8. TypeOK'
  BY <1>1, <1>3, <1>4, <1>5, <1>6 DEF Injected, TypeOK
<1>9. Explained'
  <2>1. CASE job' = done /\ Worked(k, "Release")
    BY <1>1, <1>3, <1>5, <2>1 DEF Injected, Explained, Holds, TypeOK, Worked, k
  <2>2. CASE job' = failed /\ Failed(k)
    BY <1>1, <1>3, <1>6, <2>2 DEF Injected, Explained, Holds, TypeOK, Failed, k
  <2> QED BY <1>3, <2>1, <2>2
<1>10. ChordDown'
  BY <1>3, <1>5, <1>6 DEF ChordDown
<1>11. ClipboardKept'
  BY <1>1, <1>3, <1>4, <1>5, <1>6 DEF Injected, ClipboardKept, Window
<1>12. Meant'
  BY <1>1, <1>3, <1>5, <1>6 DEF Injected, Meant
<1> QED BY <1>8, <1>9, <1>10, <1>11, <1>12 DEF Injected

\* ReleaseModifier: the chord goes up in reverse, whether or not it works.
LEMMA ReleaseModifierStep ==
    ASSUME Injected, ReleaseModifier PROVE Injected'
<1> DEFINE k == job.chord[job.down]
           done == [job EXCEPT !.down = @ - 1]
           failed == done
<1>1. /\ job.stage = "release" /\ job.down > 0
      /\ Call(k, "Release", done, failed)
      /\ UNCHANGED <<clips, wheel>>
  BY Zenon DEF ReleaseModifier, CallOnly
<1>5. /\ done \in Job /\ done.stage = "release" /\ done.ok = job.ok /\ job.down \in Nat
      /\ done.down = job.down - 1 /\ done.chord = job.chord /\ done.split = job.split /\ done.key = job.key
      /\ done.op = job.op /\ done.text = job.text /\ done.plain = job.plain
      /\ Len(job.chord) \in Nat /\ job.down <= Len(job.chord)
  BY <1>1 DEF Injected, TypeOK, Job, Stages
<1> HIDE DEF done
<1>3. /\ uinput' = uinput /\ keymap' = keymap /\ layout' = layout /\ asked' = asked /\ config' = config
      /\ held' \subseteq Announced
      /\ held' \in {held, held \cup {k}, held \ {k}}
      /\ typed' = typed
      /\ \/ job' = done /\ Worked(k, "Release")
         \/ job' = failed /\ Failed(k)
  BY <1>1, CallEffect DEF Injected, Directions
<1>4. /\ clipboard' = clipboard /\ own' = own /\ intruded' = intruded /\ spoiled' = spoiled
  BY <1>1 DEF clips
<1> HIDE DEF k
<1>8. TypeOK'
  BY <1>1, <1>3, <1>4, <1>5 DEF Injected, TypeOK
<1>9. Explained'
  <2>1. \A i \in 1..job.down : i \in 1..(job.down - 1) \/ job.chord[i] = k
    BY <1>1, <1>5 DEF k
  <2>2. CASE job' = done /\ Worked(k, "Release")
    BY <1>1, <1>3, <1>5, <2>1, <2>2 DEF Injected, Explained, Holds, TypeOK, Worked
  <2>3. CASE job' = failed /\ Failed(k)
    BY <1>1, <1>3, <1>5, <2>1, <2>3 DEF Injected, Explained, Holds, TypeOK, Failed
  <2> QED BY <1>3, <2>2, <2>3
<1>10. ChordDown'
  BY <1>3, <1>5 DEF ChordDown
<1>11. ClipboardKept'
  BY <1>1, <1>3, <1>4, <1>5 DEF Injected, ClipboardKept, Window
<1>12. Meant'
  BY <1>1, <1>3, <1>5 DEF Injected, Meant
<1> QED BY <1>8, <1>9, <1>10, <1>11, <1>12 DEF Injected


\* A state of the request outside a chord, on the same side of a paste as before.
Fits(j) ==
    /\ j \in Job /\ j.down <= Len(j.chord) /\ (j.split => j.op = "Click")
    /\ j.stage \notin {"press", "split", "release", "double"}
    /\ j.stage \in Window <=> job.stage \in Window
    /\ j.stage \in Window => j.text = job.text /\ j.backup = job.backup

LEMMA FitsAt ==
    ASSUME Injected, NEW stage \in Stages \ {"press", "split", "release", "double"},
           stage \in Window <=> job.stage \in Window
    PROVE  Fits(At(stage)) /\ At(stage).stage = stage /\ At(stage).op = job.op /\ At(stage).key = job.key
  BY DEF Injected, TypeOK, Job, At, Fits

LEMMA FitsIdle ==
    /\ NoJob \in Job /\ NoJob.stage = "idle" /\ NoJob.plain = FALSE /\ NoJob.op = "Click" /\ ~ NoJob.split
    /\ NoJob.down = 0 /\ Len(NoJob.chord) = 0 /\ NoJob.chord = <<>>
    /\ job.stage \notin Window => Fits(NoJob)
<1>1. NoJob \in Job /\ NoJob.stage = "idle" /\ NoJob.plain = FALSE /\ NoJob.op = "Click" /\ ~ NoJob.split
      /\ NoJob.down = 0 /\ Len(NoJob.chord) = 0 /\ NoJob.chord = <<>>
  BY DEF NoJob, Job, Stages, Text, Directions
<1> QED BY <1>1 DEF Fits, Window

LEMMA FallbackJob ==
    ASSUME NEW c \in Text
    PROVE  /\ Fallback(c) \in Job /\ Fallback(c).stage \in {"backup", "type"}
           /\ Fallback(c).down = 0 /\ Fallback(c).chord = <<>> /\ ~ Fallback(c).split /\ ~ Fallback(c).plain
<1>1. PICK s : s = (IF uinput THEN "backup" ELSE "type")
  OBVIOUS
<1>2. s \in Stages /\ s \in {"backup", "type"}
  BY <1>1 DEF Stages
<1>3. Fallback(c) = [NoJob EXCEPT !.stage = s, !.text = c]
  BY <1>1, Zenon DEF Fallback
<1> QED BY <1>2, <1>3, FitsIdle DEF Job

\* A call outside a chord: what is left to show is who holds what is down.
LEMMA OtherCall ==
    ASSUME Injected, NEW k, NEW dir \in Directions, NEW done, NEW failed, Call(k, dir, done, failed),
           clipboard' = clipboard, own' = own, intruded' = intruded, spoiled' = spoiled,
           Fits(done), Fits(failed)
    PROVE  /\ Explained' => Injected'
           /\ asked' = asked /\ config' = config /\ held' \subseteq Announced
           /\ \/ job' = done /\ Worked(k, dir)
              \/ job' = failed /\ Failed(k)
<1>1. /\ uinput' = uinput /\ keymap' = keymap /\ layout' = layout /\ asked' = asked /\ config' = config
      /\ held' \subseteq Announced
      /\ \/ job' = done /\ Worked(k, dir)
         \/ job' = failed /\ Failed(k)
  BY CallEffect DEF Injected
<1>2. TypeOK'
  BY <1>1 DEF Injected, TypeOK, Fits
<1>3. ChordDown'
  BY <1>1 DEF ChordDown, Fits
<1>4. ClipboardKept'
  BY <1>1 DEF Injected, ClipboardKept, Fits
<1>5. Meant'
  BY <1>1 DEF Meant, Fits
<1> QED BY <1>1, <1>2, <1>3, <1>4, <1>5 DEF Injected

\* A step that touches no key, of a request that holds none.
LEMMA NoCall ==
    ASSUME Injected, \A k : ~ Holds(k),
           uinput' = uinput, keymap' = keymap, layout' = layout, held' = held, asked' = asked, hit' = hit,
           job' \in Job, job'.down <= Len(job'.chord), job'.split => job'.op = "Click",
           job'.stage \notin {"press", "split", "release", "double", "button"},
           clipboard' \in Text, ClipboardKept'
    PROVE  Injected'
<1>1. TypeOK'
  BY DEF Injected, TypeOK
<1>2. Explained'
  BY DEF Injected, Explained
<1>3. ChordDown' /\ Meant'
  BY DEF ChordDown, Meant
<1> QED BY <1>1, <1>2, <1>3 DEF Injected

\* ChordDone: with uinput what could not be typed is going to be pasted.
LEMMA ChordDoneStep ==
    ASSUME Injected, ChordDone PROVE Injected'
<1>1. /\ job.stage = "release" /\ job.down = 0
      /\ job' = Fallback(job.text) \/ job' = NoJob
      /\ UNCHANGED <<setup, layout, keys, clips>>
  BY Zenon DEF ChordDone
<1>2. uinput' = uinput /\ keymap' = keymap /\ layout' = layout /\ held' = held /\ asked' = asked /\ hit' = hit
      /\ clipboard' = clipboard /\ own' = own /\ intruded' = intruded /\ spoiled' = spoiled
  BY <1>1 DEF setup, keys, clips
<1>3. \A k : ~ Holds(k)
  BY <1>1 DEF Holds
<1>5. /\ job' \in Job /\ job'.down = 0 /\ job'.chord = <<>> /\ ~ job'.split
      /\ job'.stage \in {"idle", "backup", "type"}
  BY <1>1, FallbackJob, FitsIdle DEF Injected, TypeOK, Job
<1>6. ClipboardKept'
  BY <1>1, <1>2, <1>5 DEF Injected, ClipboardKept, Window
<1> QED BY <1>2, <1>3, <1>5, <1>6, NoCall DEF Injected, TypeOK

\* Type: the library may enter the text, or leave it to the clipboard.
LEMMA TypeStep ==
    ASSUME Injected, Type PROVE Injected'
<1>1. /\ job.stage = "type" /\ job' \in {NoJob, At("backup")}
      /\ UNCHANGED <<setup, layout, keys, clips>>
  BY DEF Type
<1>2. uinput' = uinput /\ keymap' = keymap /\ layout' = layout /\ held' = held /\ asked' = asked /\ hit' = hit
      /\ clipboard' = clipboard /\ own' = own /\ intruded' = intruded /\ spoiled' = spoiled
  BY <1>1 DEF setup, keys, clips
<1>3. \A k : ~ Holds(k)
  BY <1>1 DEF Holds
<1>4. Fits(job') /\ job'.stage \in {"idle", "backup"}
  BY <1>1, FitsIdle, FitsAt DEF Stages, Window
<1>5. ClipboardKept'
  BY <1>1, <1>2, <1>4 DEF Injected, ClipboardKept, Window
<1> QED BY <1>2, <1>3, <1>4, <1>5, NoCall DEF Injected, TypeOK, Fits


\* BackUp: from here to Restore the clipboard holds the text, if anybody's.
LEMMA BackUpStep ==
    ASSUME Injected, BackUp PROVE Injected'
<1>1. /\ job.stage = "backup"
      /\ UNCHANGED <<setup, layout, keys, copying, own>>
      /\ \/ job' = NoJob /\ UNCHANGED <<clipboard, intruded, spoiled>>
         \/ \E backup \in {clipboard, NoText} :
               /\ clipboard' = job.text /\ intruded' = FALSE
               /\ spoiled' = (spoiled \/ backup = NoText)
               /\ job' = [job EXCEPT !.stage = "shortcut", !.backup = backup]
  BY DEF BackUp
<1>2. uinput' = uinput /\ keymap' = keymap /\ layout' = layout /\ held' = held /\ asked' = asked /\ hit' = hit
      /\ own' = own
  BY <1>1 DEF setup, keys
<1>3. \A k : ~ Holds(k)
  BY <1>1 DEF Holds
<1>4. CASE job' = NoJob /\ UNCHANGED <<clipboard, intruded, spoiled>>
  <2>1. ClipboardKept'
    BY <1>1, <1>2, <1>4, FitsIdle DEF Injected, ClipboardKept, Window
  <2> QED BY <1>2, <1>3, <1>4, <2>1, NoCall, FitsIdle DEF Injected, TypeOK
<1>5. ASSUME NEW backup \in {clipboard, NoText},
             clipboard' = job.text, intruded' = FALSE,
             spoiled' = (spoiled \/ backup = NoText),
             job' = [job EXCEPT !.stage = "shortcut", !.backup = backup]
      PROVE  Injected'
  <2>1. backup \in Text /\ job \in Job /\ job.text \in Text
    BY DEF Injected, TypeOK, Text, Job
  <2>2. /\ job' \in Job /\ job'.stage = "shortcut" /\ job'.down = job.down /\ job'.chord = job.chord
        /\ job'.split = job.split /\ job'.op = job.op /\ job'.text = job.text /\ job'.backup = backup
    BY <1>5, <2>1 DEF Job, Stages
  <2>3. ClipboardKept'
    <3>1. ~ spoiled => clipboard = own
      BY <1>1 DEF Injected, ClipboardKept, Window
    <3>2. ~ spoiled' => ~ spoiled /\ backup = clipboard /\ backup # NoText
      BY <1>5
    <3> QED BY <1>2, <1>5, <2>2, <3>1, <3>2 DEF ClipboardKept, Window
  <2> QED BY <1>2, <1>3, <1>5, <2>1, <2>2, <2>3, NoCall DEF Injected, TypeOK
<1> QED BY <1>1, <1>4, <1>5

\* Restore: the user has the clipboard again, if it can be given back.
LEMMA RestoreStep ==
    ASSUME Injected, Restore PROVE Injected'
<1>1. /\ job.stage = "restore" /\ job' = NoJob
      /\ UNCHANGED <<setup, layout, keys, copying, own>>
      /\ \/ /\ clipboard' = IF job.backup = NoText THEN clipboard ELSE job.backup
            /\ spoiled' = (spoiled \/ intruded)
         \/ spoiled' = TRUE /\ UNCHANGED clipboard
  BY DEF Restore
<1>2. uinput' = uinput /\ keymap' = keymap /\ layout' = layout /\ held' = held /\ asked' = asked /\ hit' = hit
      /\ own' = own
  BY <1>1 DEF setup, keys
<1>3. \A k : ~ Holds(k)
  BY <1>1 DEF Holds
<1>4. clipboard' \in Text
  BY <1>1 DEF Injected, TypeOK, Job
<1>5. ClipboardKept'
  BY <1>1, <1>2, FitsIdle DEF Injected, ClipboardKept, Window
<1> QED BY <1>1, <1>2, <1>3, <1>4, <1>5, NoCall, FitsIdle

\* Answer: the request is over.
LEMMA AnswerStep ==
    ASSUME Injected, Answer PROVE Injected'
<1>1. /\ job.stage = "answer" /\ job' = NoJob
      /\ UNCHANGED <<setup, layout, keys, clips>>
  BY DEF Answer
<1>2. uinput' = uinput /\ keymap' = keymap /\ layout' = layout /\ held' = held /\ asked' = asked /\ hit' = hit
      /\ clipboard' = clipboard /\ own' = own /\ intruded' = intruded /\ spoiled' = spoiled
  BY <1>1 DEF setup, keys, clips
<1>3. \A k : ~ Holds(k)
  BY <1>1 DEF Holds
<1>4. ClipboardKept'
  BY <1>1, <1>2, FitsIdle DEF Injected, ClipboardKept, Window
<1> QED BY <1>1, <1>2, <1>3, <1>4, NoCall, FitsIdle DEF Injected, TypeOK

\* Scroll and Scrolled: the wheel has no part in what is down.
LEMMA ScrollStep ==
    ASSUME Injected, Scroll \/ Scrolled PROVE Injected'
<1>1. /\ job.stage = "scroll" /\ job' \in {job, NoJob}
      /\ UNCHANGED <<setup, layout, keys, clips>>
  BY DEF Scroll, Scrolled
<1>2. uinput' = uinput /\ keymap' = keymap /\ layout' = layout /\ held' = held /\ asked' = asked /\ hit' = hit
      /\ clipboard' = clipboard /\ own' = own /\ intruded' = intruded /\ spoiled' = spoiled
  BY <1>1 DEF setup, keys, clips
<1>3. \A k : ~ Holds(k)
  BY <1>1 DEF Holds
<1>4. job' \in Job /\ job'.down <= Len(job'.chord) /\ (job'.split => job'.op = "Click")
      /\ job'.stage \in {"idle", "scroll"}
  BY <1>1, FitsIdle DEF Injected, TypeOK
<1>5. ClipboardKept'
  BY <1>1, <1>2, <1>4 DEF Injected, ClipboardKept, Window
<1> QED BY <1>2, <1>3, <1>4, <1>5, NoCall DEF Injected, TypeOK

\* Shortcut: the modifier of the paste goes down.
LEMMA ShortcutStep ==
    ASSUME Injected, Shortcut PROVE Injected'
<1> DEFINE k == PasteModifier
           done == At("paste")
           failed == At("restore")
<1>1. /\ job.stage = "shortcut"
      /\ Call(k, "Press", done, failed)
      /\ clipboard' = clipboard /\ own' = own /\ intruded' = intruded /\ spoiled' = spoiled
  BY DEF Shortcut, CallOnly, clips
<1>2. Fits(done) /\ Fits(failed) /\ done.stage = "paste" /\ failed.stage = "restore"
  BY <1>1, FitsIdle, FitsAt DEF Stages, Window
<1>3. "Press" \in Directions
  BY DEF Directions
<1> HIDE DEF done, failed
<1>4. /\ Explained' => Injected'
      /\ asked' = asked /\ config' = config /\ held' \subseteq Announced
      /\ \/ job' = done /\ Worked(k, "Press")
         \/ job' = failed /\ Failed(k)
  BY <1>1, <1>2, <1>3, OtherCall
<1> HIDE DEF k
<1>5. CASE job' = done /\ Worked(k, "Press")
  BY <1>1, <1>2, <1>3, <1>4, <1>5 DEF Injected, Explained, Holds, Worked, PasteModifier, k
<1>6. CASE job' = failed /\ Failed(k)
  BY <1>1, <1>2, <1>3, <1>4, <1>6 DEF Injected, Explained, Holds, Failed, Abandoned, PasteModifier, k
<1> QED BY <1>4, <1>5, <1>6

\* Paste: a paste that fails leaves its modifier down.
LEMMA PasteStep ==
    ASSUME Injected, Paste PROVE Injected'
<1> DEFINE k == PasteKey
           done == At("unshift")
           failed == At("restore")
<1>1. /\ job.stage = "paste"
      /\ Call(k, "Click", done, failed)
      /\ clipboard' = clipboard /\ own' = own /\ intruded' = intruded /\ spoiled' = spoiled
  BY DEF Paste, CallOnly, clips
<1>2. Fits(done) /\ Fits(failed) /\ done.stage = "unshift" /\ failed.stage = "restore"
  BY <1>1, FitsIdle, FitsAt DEF Stages, Window
<1>3. "Click" \in Directions
  BY DEF Directions
<1> HIDE DEF done, failed
<1>4. /\ Explained' => Injected'
      /\ asked' = asked /\ config' = config /\ held' \subseteq Announced
      /\ \/ job' = done /\ Worked(k, "Click")
         \/ job' = failed /\ Failed(k)
  BY <1>1, <1>2, <1>3, OtherCall
<1> HIDE DEF k
<1>5. CASE job' = done /\ Worked(k, "Click")
  BY <1>1, <1>2, <1>3, <1>4, <1>5 DEF Injected, Explained, Holds, Worked, PasteModifier, k
<1>6. CASE job' = failed /\ Failed(k)
  BY <1>1, <1>2, <1>3, <1>4, <1>6 DEF Injected, Explained, Holds, Failed, Abandoned, PasteModifier, k
<1> QED BY <1>4, <1>5, <1>6

\* Unshift: the modifier of the paste goes up.
LEMMA UnshiftStep ==
    ASSUME Injected, Unshift PROVE Injected'
<1> DEFINE k == PasteModifier
           done == At("restore")
           failed == At("restore")
<1>1. /\ job.stage = "unshift"
      /\ Call(k, "Release", done, failed)
      /\ clipboard' = clipboard /\ own' = own /\ intruded' = intruded /\ spoiled' = spoiled
  BY DEF Unshift, CallOnly, clips
<1>2. Fits(done) /\ Fits(failed) /\ done.stage = "restore" /\ failed.stage = "restore"
  BY <1>1, FitsIdle, FitsAt DEF Stages, Window
<1>3. "Release" \in Directions
  BY DEF Directions
<1> HIDE DEF done, failed
<1>4. /\ Explained' => Injected'
      /\ asked' = asked /\ config' = config /\ held' \subseteq Announced
      /\ \/ job' = done /\ Worked(k, "Release")
         \/ job' = failed /\ Failed(k)
  BY <1>1, <1>2, <1>3, OtherCall
<1> HIDE DEF k
<1>5. CASE job' = done /\ Worked(k, "Release")
  BY <1>1, <1>2, <1>3, <1>4, <1>5 DEF Injected, Explained, Holds, Worked, PasteModifier, k
<1>6. CASE job' = failed /\ Failed(k)
  BY <1>1, <1>2, <1>3, <1>4, <1>6 DEF Injected, Explained, Holds, Failed, Abandoned, PasteModifier, k
<1> QED BY <1>4, <1>5, <1>6

\* Get: Control goes down for all of the copying.
LEMMA GetStep ==
    ASSUME Injected, Get PROVE Injected'
<1> DEFINE k == "Control"
           done == At("select")
           failed == NoJob
<1>1. /\ job.stage = "get"
      /\ Call(k, "Press", done, failed)
      /\ clipboard' = clipboard /\ own' = own /\ intruded' = intruded /\ spoiled' = spoiled
  BY DEF Get, CallOnly, clips
<1>2. Fits(done) /\ Fits(failed) /\ done.stage = "select" /\ failed.stage = "idle"
  BY <1>1, FitsIdle, FitsAt DEF Stages, Window
<1>3. "Press" \in Directions
  BY DEF Directions
<1> HIDE DEF done, failed
<1>4. /\ Explained' => Injected'
      /\ asked' = asked /\ config' = config /\ held' \subseteq Announced
      /\ \/ job' = done /\ Worked(k, "Press")
         \/ job' = failed /\ Failed(k)
  BY <1>1, <1>2, <1>3, OtherCall
<1> HIDE DEF k
<1>5. CASE job' = done /\ Worked(k, "Press")
  BY <1>1, <1>2, <1>3, <1>4, <1>5 DEF Injected, Explained, Holds, Worked, k
<1>6. CASE job' = failed /\ Failed(k)
  BY <1>1, <1>2, <1>3, <1>4, <1>6 DEF Injected, Explained, Holds, Failed, Abandoned, k
<1> QED BY <1>4, <1>5, <1>6

\* SelectAll: under Control; whatever becomes of it, Control goes up.
LEMMA SelectAllStep ==
    ASSUME Injected, SelectAll PROVE Injected'
<1> DEFINE k == "A"
           done == At("copy")
           failed == At("undo")
<1>1. /\ job.stage = "select"
      /\ Call(k, "Click", done, failed)
      /\ clipboard' = clipboard /\ own' = own /\ intruded' = intruded /\ spoiled' = spoiled
  BY DEF SelectAll, CallOnly, clips
<1>2. Fits(done) /\ Fits(failed) /\ done.stage = "copy" /\ failed.stage = "undo"
  BY <1>1, FitsIdle, FitsAt DEF Stages, Window
<1>3. "Click" \in Directions
  BY DEF Directions
<1> HIDE DEF done, failed
<1>4. /\ Explained' => Injected'
      /\ asked' = asked /\ config' = config /\ held' \subseteq Announced
      /\ \/ job' = done /\ Worked(k, "Click")
         \/ job' = failed /\ Failed(k)
  BY <1>1, <1>2, <1>3, OtherCall
<1> HIDE DEF k
<1>5. CASE job' = done /\ Worked(k, "Click")
  BY <1>1, <1>2, <1>3, <1>4, <1>5 DEF Injected, Explained, Holds, Worked, k
<1>6. CASE job' = failed /\ Failed(k)
  BY <1>1, <1>2, <1>3, <1>4, <1>6 DEF Injected, Explained, Holds, Failed, Abandoned, k
<1> QED BY <1>4, <1>5, <1>6

\* Copy: an application may begin to serve the copy.
LEMMA CopyStep ==
    ASSUME Injected, Copy PROVE Injected'
<1> DEFINE k == "C"
           done == At("drop")
           failed == At("undo")
<1>1. /\ job.stage = "copy"
      /\ Call(k, "Click", done, failed)
      /\ clipboard' = clipboard /\ own' = own /\ intruded' = intruded /\ spoiled' = spoiled
  BY DEF Copy
<1>2. Fits(done) /\ Fits(failed) /\ done.stage = "drop" /\ failed.stage = "undo"
  BY <1>1, FitsIdle, FitsAt DEF Stages, Window
<1>3. "Click" \in Directions
  BY DEF Directions
<1> HIDE DEF done, failed
<1>4. /\ Explained' => Injected'
      /\ asked' = asked /\ config' = config /\ held' \subseteq Announced
      /\ \/ job' = done /\ Worked(k, "Click")
         \/ job' = failed /\ Failed(k)
  BY <1>1, <1>2, <1>3, OtherCall
<1> HIDE DEF k
<1>5. CASE job' = done /\ Worked(k, "Click")
  BY <1>1, <1>2, <1>3, <1>4, <1>5 DEF Injected, Explained, Holds, Worked, k
<1>6. CASE job' = failed /\ Failed(k)
  BY <1>1, <1>2, <1>3, <1>4, <1>6 DEF Injected, Explained, Holds, Failed, Abandoned, k
<1> QED BY <1>4, <1>5, <1>6

\* Undo: Control goes up after a call that failed.
LEMMA UndoStep ==
    ASSUME Injected, Undo PROVE Injected'
<1> DEFINE k == "Control"
           done == NoJob
           failed == NoJob
<1>1. /\ job.stage = "undo"
      /\ Call(k, "Release", done, failed)
      /\ clipboard' = clipboard /\ own' = own /\ intruded' = intruded /\ spoiled' = spoiled
  BY DEF Undo, CallOnly, clips
<1>2. Fits(done) /\ Fits(failed) /\ done.stage = "idle" /\ failed.stage = "idle"
  BY <1>1, FitsIdle, FitsAt DEF Stages, Window
<1>3. "Release" \in Directions
  BY DEF Directions
<1> HIDE DEF done, failed
<1>4. /\ Explained' => Injected'
      /\ asked' = asked /\ config' = config /\ held' \subseteq Announced
      /\ \/ job' = done /\ Worked(k, "Release")
         \/ job' = failed /\ Failed(k)
  BY <1>1, <1>2, <1>3, OtherCall
<1> HIDE DEF k
<1>5. CASE job' = done /\ Worked(k, "Release")
  BY <1>1, <1>2, <1>3, <1>4, <1>5 DEF Injected, Explained, Holds, Worked, k
<1>6. CASE job' = failed /\ Failed(k)
  BY <1>1, <1>2, <1>3, <1>4, <1>6 DEF Injected, Explained, Holds, Failed, Abandoned, k
<1> QED BY <1>4, <1>5, <1>6

\* Drop: Control goes up.
LEMMA DropStep ==
    ASSUME Injected, Drop PROVE Injected'
<1> DEFINE k == "Control"
           done == At("deselect")
           failed == NoJob
<1>1. /\ job.stage = "drop"
      /\ Call(k, "Release", done, failed)
      /\ clipboard' = clipboard /\ own' = own /\ intruded' = intruded /\ spoiled' = spoiled
  BY DEF Drop, CallOnly, clips
<1>2. Fits(done) /\ Fits(failed) /\ done.stage = "deselect" /\ failed.stage = "idle"
  BY <1>1, FitsIdle, FitsAt DEF Stages, Window
<1>3. "Release" \in Directions
  BY DEF Directions
<1> HIDE DEF done, failed
<1>4. /\ Explained' => Injected'
      /\ asked' = asked /\ config' = config /\ held' \subseteq Announced
      /\ \/ job' = done /\ Worked(k, "Release")
         \/ job' = failed /\ Failed(k)
  BY <1>1, <1>2, <1>3, OtherCall
<1> HIDE DEF k
<1>5. CASE job' = done /\ Worked(k, "Release")
  BY <1>1, <1>2, <1>3, <1>4, <1>5 DEF Injected, Explained, Holds, Worked, k
<1>6. CASE job' = failed /\ Failed(k)
  BY <1>1, <1>2, <1>3, <1>4, <1>6 DEF Injected, Explained, Holds, Failed, Abandoned, k
<1> QED BY <1>4, <1>5, <1>6

\* Deselect: an arrow, under nothing.
LEMMA DeselectStep ==
    ASSUME Injected, Deselect PROVE Injected'
<1> DEFINE k == "Left"
           done == At("answer")
           failed == NoJob
<1>1. /\ job.stage = "deselect"
      /\ Call(k, "Click", done, failed)
      /\ clipboard' = clipboard /\ own' = own /\ intruded' = intruded /\ spoiled' = spoiled
  BY DEF Deselect, CallOnly, clips
<1>2. Fits(done) /\ Fits(failed) /\ done.stage = "answer" /\ failed.stage = "idle"
  BY <1>1, FitsIdle, FitsAt DEF Stages, Window
<1>3. "Click" \in Directions
  BY DEF Directions
<1> HIDE DEF done, failed
<1>4. /\ Explained' => Injected'
      /\ asked' = asked /\ config' = config /\ held' \subseteq Announced
      /\ \/ job' = done /\ Worked(k, "Click")
         \/ job' = failed /\ Failed(k)
  BY <1>1, <1>2, <1>3, OtherCall
<1> HIDE DEF k
<1>5. CASE job' = done /\ Worked(k, "Click")
  BY <1>1, <1>2, <1>3, <1>4, <1>5 DEF Injected, Explained, Holds, Worked, k
<1>6. CASE job' = failed /\ Failed(k)
  BY <1>1, <1>2, <1>3, <1>4, <1>6 DEF Injected, Explained, Holds, Failed, Abandoned, k
<1> QED BY <1>4, <1>5, <1>6

\* FirstClick: the second click follows only a first that worked.
LEMMA FirstClickStep ==
    ASSUME Injected, FirstClick PROVE Injected'
<1> DEFINE k == job.key
           done == At("button")
           failed == NoJob
<1>1. /\ job.stage = "double"
      /\ Call(k, "Click", done, failed)
      /\ clipboard' = clipboard /\ own' = own /\ intruded' = intruded /\ spoiled' = spoiled
  BY DEF FirstClick, CallOnly, clips
<1>2. Fits(done) /\ Fits(failed) /\ done.stage = "button" /\ failed.stage = "idle" /\ done.op = job.op
  BY <1>1, FitsIdle, FitsAt DEF Stages, Window
<1>3. "Click" \in Directions /\ job.op = "Click"
  BY <1>1 DEF Injected, TypeOK, Directions
<1> HIDE DEF done, failed
<1>4. /\ Explained' => Injected'
      /\ asked' = asked /\ config' = config /\ held' \subseteq Announced
      /\ \/ job' = done /\ Worked(k, "Click")
         \/ job' = failed /\ Failed(k)
  BY <1>1, <1>2, <1>3, OtherCall
<1> HIDE DEF k
<1>5. CASE job' = done /\ Worked(k, "Click")
  BY <1>1, <1>2, <1>3, <1>4, <1>5 DEF Injected, Explained, Holds, Worked, k
<1>6. CASE job' = failed /\ Failed(k)
  BY <1>1, <1>2, <1>3, <1>4, <1>6 DEF Injected, Explained, Holds, Failed, Abandoned, k
<1> QED BY <1>4, <1>5, <1>6

\* Button: a button goes down, up or both.
LEMMA ButtonStep ==
    ASSUME Injected, Button PROVE Injected'
<1> DEFINE k == job.key
           done == NoJob
           failed == NoJob
<1>1. /\ job.stage = "button"
      /\ Call(k, job.op, done, failed)
      /\ clipboard' = clipboard /\ own' = own /\ intruded' = intruded /\ spoiled' = spoiled
  BY DEF Button, CallOnly, clips
<1>2. Fits(done) /\ Fits(failed) /\ done.stage = "idle" /\ failed.stage = "idle"
  BY <1>1, FitsIdle, FitsAt DEF Stages, Window
<1>3. job.op \in Directions
  BY DEF Injected, TypeOK, Job
<1> HIDE DEF done, failed
<1>4. /\ Explained' => Injected'
      /\ asked' = asked /\ config' = config /\ held' \subseteq Announced
      /\ \/ job' = done /\ Worked(k, job.op)
         \/ job' = failed /\ Failed(k)
  BY <1>1, <1>2, <1>3, OtherCall
<1> HIDE DEF k
<1>5. CASE job' = done /\ Worked(k, job.op)
  BY <1>1, <1>2, <1>3, <1>4, <1>5 DEF Injected, Explained, Holds, Worked, k
<1>6. CASE job' = failed /\ Failed(k)
  BY <1>1, <1>2, <1>3, <1>4, <1>6 DEF Injected, Explained, Holds, Failed, Abandoned, k
<1> QED BY <1>4, <1>5, <1>6


\* A request begins: what it presses to stay is asked for, what it releases is its
\* own to account for, and a plain one comes with nothing down.
LEMMA BeginStep ==
    ASSUME Injected, NEW j \in Job, Begin(j),
           j.down = 0, j.split => j.op = "Click", j.stage = "double" => j.op = "Click",
           j.stage \notin Window \cup {"split", "release"},
           \/ asked' = asked /\ j.stage \notin {"press", "button"}
           \/ Asking(j.key, j.op) /\ j.stage \in {"press", "button", "double"},
           j.plain => /\ j.op # "Release" /\ held = {} /\ j.key \in Range(MainKeys)
                      /\ Range(j.chord) \subseteq Levels
                      /\ Table[layout][<<j.key, Range(j.chord)>>] = j.text
    PROVE  Injected'
<1>1. /\ job = NoJob /\ job' = j
      /\ UNCHANGED <<setup, layout, held, hit, clips>>
  BY DEF Begin
<1>2. uinput' = uinput /\ keymap' = keymap /\ layout' = layout /\ held' = held /\ hit' = hit
      /\ clipboard' = clipboard /\ own' = own /\ intruded' = intruded /\ spoiled' = spoiled
  BY <1>1 DEF setup, clips
<1>3. job.stage = "idle"
  BY <1>1, FitsIdle
<1>4. TypeOK'
  <2>1. Len(j.chord) \in Nat
    BY DEF Job
  <2>2. 0 <= Len(j.chord)
    BY <2>1
  <2> QED BY <1>1, <1>2, <2>2 DEF Injected, TypeOK
<1>5. Explained'
  <2>1. \A k \in held : k \in asked \/ k \in hit
    BY <1>3 DEF Injected, Explained, Holds
  <2>2. CASE asked' = asked /\ j.stage \notin {"press", "button"}
    BY <1>1, <1>2, <2>1, <2>2 DEF Explained
  <2>3. CASE Asking(j.key, j.op) /\ j.stage \in {"press", "button", "double"}
    <3>1. CASE j.op = "Press"
      <4>1. asked' = asked \cup ({j.key} \cap Announced)
        BY <2>3, <3>1 DEF Asking
      <4> QED BY <1>1, <1>2, <2>1, <2>3, <4>1 DEF Explained
    <3>2. CASE j.op = "Release"
      <4>1. asked' = asked \ {j.key} /\ j.stage \in {"press", "button"}
        BY <2>3, <3>2 DEF Asking
      <4> QED BY <1>1, <1>2, <2>1, <3>2, <4>1 DEF Explained, Holds
    <3>3. CASE j.op = "Click"
      <4>1. asked' = asked
        BY <2>3, <3>3 DEF Asking
      <4> QED BY <1>1, <1>2, <2>1, <3>3, <4>1 DEF Explained
    <3> QED BY <3>1, <3>2, <3>3 DEF Job, Directions
  <2> QED BY <2>2, <2>3
<1>6. ChordDown'
  BY <1>1 DEF ChordDown
<1>7. ClipboardKept'
  BY <1>1, <1>2, <1>3 DEF Injected, ClipboardKept, Window
<1>8. Meant'
  BY <1>1, <1>2 DEF Meant
<1> QED BY <1>4, <1>5, <1>6, <1>7, <1>8 DEF Injected

\* handle_keyboard with a character.
LEMMA CharacterStep ==
    ASSUME Injected, NEW c \in Chars, NEW mods, NEW dir \in Directions, keyboard_char(c, mods, dir)
    PROVE  Injected'
<1>0. c \in Text
  BY DEF Text
<1>1. CASE Begin(Fallback(c)) /\ asked' = asked
  BY <1>0, <1>1, FallbackJob, BeginStep DEF Window
<1>2. ASSUME NEW e \in Mapping(c),
             Begin([NoJob EXCEPT
                !.stage = "press", !.chord = Chord(mods, e.levels), !.key = e.key, !.op = dir,
                !.split = Split(mods, e.levels, dir), !.text = c,
                !.plain = mods = {} /\ held = {} /\ dir # "Release" /\ keymap = layout]),
             Asking(e.key, dir)
      PROVE  Injected'
  <2>1. PICK chord, split, plain :
          /\ chord = Chord(mods, e.levels) /\ split = Split(mods, e.levels, dir)
          /\ plain = (mods = {} /\ held = {} /\ dir # "Release" /\ keymap = layout)
    OBVIOUS
  <2> DEFINE j == [NoJob EXCEPT !.stage = "press", !.chord = chord, !.key = e.key, !.op = dir,
                                !.split = split, !.text = c, !.plain = plain]
  <2>2. Begin(j)
    BY <1>2, <2>1, Zenon
  <2>3. /\ e.key \in Range(MainKeys) /\ e.levels \in SUBSET Levels
        /\ uinput \/ e.levels \subseteq {"Shift"}
        /\ keymap = layout => Table[layout][<<e.key, e.levels>>] = c
    BY MappingSound DEF Injected
  <2>4. chord \in Seq(Modifiers)
        /\ (uinput \/ e.levels \subseteq {"Shift"} => (mods = {} => Range(chord) = e.levels))
    BY <2>1, <2>3, ChordKeys, Zenon
  <2>5. split \in BOOLEAN /\ plain \in BOOLEAN /\ (split => dir = "Click")
    BY <2>1 DEF Split, Injected, TypeOK
  <2>6. e.key \in Keys \cup {NoKey}
    BY <2>3 DEF Keys
  <2>7. /\ j \in Job /\ j.down = 0 /\ j.split = split /\ j.op = dir /\ j.stage = "press" /\ j.key = e.key
        /\ j.chord = chord /\ j.text = c /\ j.plain = plain
    <3>1. NoJob \in Job /\ NoJob.down = 0
      BY FitsIdle
    <3>2. "press" \in Stages
      BY DEF Stages
    <3> QED BY <1>0, <2>4, <2>5, <2>6, <3>1, <3>2 DEF Job
  <2> HIDE DEF j
  <2>8. plain => /\ dir # "Release" /\ held = {} /\ e.key \in Range(MainKeys)
                 /\ Range(chord) \subseteq Levels
                 /\ Table[layout][<<e.key, Range(chord)>>] = c
    BY <2>1, <2>3, <2>4, Zenon
  <2> QED BY <1>2, <2>2, <2>5, <2>7, <2>8, BeginStep DEF Window
<1> QED BY <1>1, <1>2, Zenon DEF keyboard_char

\* handle_keyboard with a key of the YA_* range.
LEMMA FunctionKeyStep ==
    ASSUME Injected, NEW k \in FunctionKeys, NEW mods, NEW dir \in Directions, keyboard_function_key(k, mods, dir)
    PROVE  Injected'
<1>1. PICK chord : chord = Chord(mods, {})
  OBVIOUS
<1> DEFINE j == [NoJob EXCEPT !.stage = "press", !.chord = chord, !.key = k, !.op = dir]
<1>2. Begin(j) /\ Asking(k, dir)
  BY <1>1, Zenon DEF keyboard_function_key
<1>3. chord \in Seq(Modifiers)
  BY <1>1, ChordKeys
<1>4. k \in Keys \cup {NoKey} /\ "press" \in Stages
  BY DEF Keys, Stages
<1>5. NoJob \in Job /\ NoJob.down = 0 /\ ~ NoJob.split /\ ~ NoJob.plain
  BY FitsIdle
<1>6. /\ j \in Job /\ j.down = 0 /\ ~ j.split /\ j.op = dir /\ j.stage = "press" /\ j.key = k /\ ~ j.plain
  BY <1>3, <1>4, <1>5 DEF Job
<1> HIDE DEF j
<1> QED BY <1>2, <1>6, BeginStep DEF Window

\* handle_mouse_click, handle_mouse_scroll, handle_input_text and handle_input_get.
LEMMA MouseClickStep ==
    ASSUME Injected, NEW b \in Buttons, NEW double \in BOOLEAN, NEW dir \in Directions,
           handle_mouse_click(b, double, dir)
    PROVE  Injected'
<1>1. PICK stage, op : /\ stage = (IF double THEN "double" ELSE "button")
                       /\ op = (IF double THEN "Click" ELSE dir)
  OBVIOUS
<1> DEFINE j == [NoJob EXCEPT !.stage = stage, !.key = b, !.op = op]
<1>2. Begin(j) /\ Asking(b, op)
  BY <1>1, Zenon DEF handle_mouse_click
<1>3. stage \in Stages /\ stage \in {"double", "button"} /\ op \in Directions /\ (stage = "double" => op = "Click")
  BY <1>1 DEF Stages, Directions
<1>4. b \in Keys \cup {NoKey}
  BY DEF Keys
<1>5. NoJob \in Job /\ NoJob.down = 0 /\ ~ NoJob.split /\ ~ NoJob.plain
  BY FitsIdle
<1>6. /\ j \in Job /\ j.down = 0 /\ ~ j.split /\ j.op = op /\ j.stage = stage /\ j.key = b /\ ~ j.plain
  BY <1>3, <1>4, <1>5 DEF Job
<1> HIDE DEF j
<1> QED BY <1>2, <1>3, <1>6, BeginStep DEF Window

LEMMA OtherRequestStep ==
    ASSUME Injected,
           \/ \E n \in Amounts : handle_mouse_scroll(n)
           \/ \E t \in Texts : handle_input_text(t)
           \/ handle_input_get
    PROVE  Injected'
<1>0. NoJob \in Job /\ NoJob.down = 0 /\ ~ NoJob.split /\ ~ NoJob.plain
  BY FitsIdle
<1>1. ASSUME NEW n \in Amounts, handle_mouse_scroll(n) PROVE Injected'
  <2>1. PICK steps : steps = (IF n > kMaxSteps THEN kMaxSteps ELSE n)
    OBVIOUS
  <2> DEFINE j == [NoJob EXCEPT !.stage = "scroll", !.steps = steps]
  <2>2. Begin(j) /\ asked' = asked
    BY <1>1, <2>1, Zenon DEF handle_mouse_scroll
  <2>3. steps \in Int /\ "scroll" \in Stages
    BY <2>1, KeyInjectAssumption DEF Stages
  <2>4. j \in Job /\ j.down = 0 /\ ~ j.split /\ j.stage = "scroll" /\ ~ j.plain
    BY <1>0, <2>3 DEF Job
  <2> HIDE DEF j
  <2> QED BY <2>2, <2>4, BeginStep DEF Window
<1>2. ASSUME NEW t \in Texts, handle_input_text(t) PROVE Injected'
  <2>1. Begin(Fallback(t)) /\ asked' = asked
    BY <1>2, Zenon DEF handle_input_text, Fallback
  <2>2. t \in Text
    BY DEF Text
  <2> QED BY <2>1, <2>2, FallbackJob, BeginStep DEF Window
<1>3. ASSUME handle_input_get PROVE Injected'
  <2> DEFINE j == [NoJob EXCEPT !.stage = "get"]
  <2>1. Begin(j) /\ asked' = asked
    BY <1>3 DEF handle_input_get
  <2>2. j \in Job /\ j.down = 0 /\ ~ j.split /\ j.stage = "get" /\ ~ j.plain
    BY <1>0 DEF Job, Stages
  <2> HIDE DEF j
  <2> QED BY <2>1, <2>2, BeginStep DEF Window
<1> QED BY <1>1, <1>2, <1>3

\* UserCopies and ApplicationCopies: the clipboard is the user's again, whatever
\* the paste wanted with it.
LEMMA CopyingStep ==
    ASSUME Injected, UserCopies \/ ApplicationCopies PROVE Injected'
<1>1. PICK text \in {Copied, Field} :
        /\ Overwrite(text)
        /\ UNCHANGED <<setup, layout, keys, job, typed>>
  BY Zenon DEF UserCopies, ApplicationCopies
<1>2. /\ uinput' = uinput /\ keymap' = keymap /\ layout' = layout /\ config' = config
      /\ held' = held /\ asked' = asked /\ hit' = hit /\ job' = job /\ typed' = typed
      /\ clipboard' = text /\ own' = text
      /\ intruded' = (job.stage \in Window) /\ spoiled' = (job.stage \in Window)
  BY <1>1 DEF setup, keys, Overwrite
<1>3. TypeOK'
  BY <1>2 DEF Injected, TypeOK, Text
<1>4. Explained' /\ ChordDown' /\ Meant'
  BY <1>2 DEF Injected, Explained, ChordDown, Meant, Holds, PasteModifier
<1>5. ClipboardKept'
  BY <1>2 DEF ClipboardKept
<1> QED BY <1>3, <1>4, <1>5 DEF Injected

\* UserSwitchesLayout: the character in hand is not plain any more.
LEMMA LayoutStep ==
    ASSUME Injected, UserSwitchesLayout PROVE Injected'
<1>1. /\ layout' \in Layouts /\ job' = [job EXCEPT !.plain = FALSE]
      /\ UNCHANGED <<setup, keys, clips, typed>>
  BY DEF UserSwitchesLayout
<1>2. /\ uinput' = uinput /\ keymap' = keymap /\ config' = config
      /\ held' = held /\ asked' = asked /\ hit' = hit
      /\ clipboard' = clipboard /\ own' = own /\ intruded' = intruded /\ spoiled' = spoiled
  BY <1>1 DEF setup, keys, clips
<1>3. /\ job' \in Job /\ job'.stage = job.stage /\ job'.chord = job.chord /\ job'.down = job.down
      /\ job'.key = job.key /\ job'.op = job.op /\ job'.split = job.split /\ job'.text = job.text
      /\ job'.backup = job.backup /\ ~ job'.plain
  BY <1>1 DEF Injected, TypeOK, Job
<1>4. TypeOK'
  BY <1>1, <1>2, <1>3 DEF Injected, TypeOK
<1>5. Explained' /\ ChordDown' /\ Meant'
  BY <1>2, <1>3 DEF Injected, Explained, ChordDown, Meant, Holds, PasteModifier
<1>6. ClipboardKept'
  BY <1>2, <1>3 DEF Injected, ClipboardKept
<1> QED BY <1>4, <1>5, <1>6 DEF Injected

LEMMA NextInjected ==
    ASSUME Injected, [Next]_vars PROVE Injected'
<1>1. CASE Request
  <2>1. ASSUME NEW dir \in Directions, handle_keyboard(dir) PROVE Injected'
    BY <2>1, CharacterStep, FunctionKeyStep DEF handle_keyboard, ckey_from_protocol
  <2>2. ASSUME NEW b \in Buttons, NEW dir \in Directions, NEW double \in BOOLEAN, handle_mouse_click(b, double, dir)
        PROVE Injected'
    BY <2>2, MouseClickStep
  <2> QED BY <1>1, <2>1, <2>2, OtherRequestStep DEF Request
<1>2. CASE Step
  BY <1>2, PressModifierStep, MainKeyStep, ReleaseMainKeyStep, ReleaseModifierStep, ChordDoneStep, TypeStep,
     BackUpStep, ShortcutStep, PasteStep, UnshiftStep, RestoreStep,
     GetStep, SelectAllStep, CopyStep, UndoStep, DropStep, DeselectStep, AnswerStep,
     FirstClickStep, ButtonStep, ScrollStep, Zenon DEF Step
<1>3. CASE Desktop
  BY <1>3, CopyingStep, LayoutStep DEF Desktop
<1>4. CASE UNCHANGED vars
  <2>1. /\ uinput' = uinput /\ keymap' = keymap /\ layout' = layout /\ config' = config
        /\ held' = held /\ asked' = asked /\ hit' = hit /\ job' = job /\ typed' = typed
        /\ clipboard' = clipboard /\ own' = own /\ intruded' = intruded /\ spoiled' = spoiled
    BY <1>4 DEF vars, setup, keys, clips
  <2>2. TypeOK' /\ ClipboardKept' /\ Meant'
    BY <2>1 DEF Injected, TypeOK, ClipboardKept, Meant
  <2>3. Explained' /\ ChordDown'
    BY <2>1 DEF Injected, Explained, ChordDown, Holds, PasteModifier
  <2> QED BY <2>2, <2>3 DEF Injected
<1> QED BY <1>1, <1>2, <1>3, <1>4 DEF Next

LEMMA AlwaysInjected == Spec => []Injected
<1>1. Init => Injected
  BY InitInjected
<1>2. Injected /\ [Next]_vars => Injected'
  BY NextInjected
<1> QED BY <1>1, <1>2, PTL DEF Spec

---------------------------------------------------------------------------
(* Theorems *)

\* A request is always in one of the stages of its handler, with a chord of
\* modifiers and no more of it counted as down than it has.
THEOREM TypeCorrect == Spec => []TypeOK
<1>1. Injected => TypeOK
  BY DEF Injected
<1> QED BY <1>1, AlwaysInjected, PTL

\* Between two requests nothing is down but what a phone holds and what a call that
\* failed left: every handler lets go of what it pressed, on each of its error
\* paths (keyboard/handler.c:96-185, keyboard/clipboard.c:106-132,
\* ya_server_handler.c:681-708).
THEOREM NoKeysLeft == Spec => []NoStrayKeys
<1>1. Injected => NoStrayKeys
  <2> SUFFICES ASSUME Injected, job = NoJob, NEW k \in held PROVE k \in asked \cup hit
    BY DEF NoStrayKeys
  <2>1. job.stage = "idle"
    BY FitsIdle
  <2> QED BY <2>1 DEF Injected, Explained, Holds
<1> QED BY <1>1, AlwaysInjected, PTL

\* A character that comes alone types itself on whatever layouts there are: the
\* cache gives a key and levels that stand for it, and these levels and nothing
\* else are down when the key is (xkb_mapper.c:60-139, keyboard/handler.c:188-229).
THEOREM CharactersMeant == Spec => []TypedAsMeant
<1>1. Injected => TypedAsMeant
  BY DEF Injected, Meant, TypedAsMeant
<1> QED BY <1>1, AlwaysInjected, PTL

\* A paste finds the text in the clipboard and gives the user's back, unless the
\* clipboard failed, had no text or was written meanwhile (keyboard/clipboard.c:96-143).
THEOREM ClipboardGivenBack == Spec => []ClipboardSafe
<1>1. Injected => ClipboardSafe
  <2>1. job = NoJob => job.stage \notin Window
    BY FitsIdle DEF Window
  <2> QED BY <2>1 DEF Injected, ClipboardKept, ClipboardSafe
<1> QED BY <1>1, AlwaysInjected, PTL

\* With uinput no key of a chord goes down before the whole chord is
\* (keyboard/handler.c:96-161, 210-226).
THEOREM ChordsComplete == Spec => ChordComplete
<1> DEFINE A == uinput /\ job.stage = "press" /\ job.down = Len(job.chord) /\ job.key \notin held
                   /\ job.key \in held' => Range(job.chord) \subseteq held'
<1>1. ASSUME Injected, [Next]_vars PROVE [A]_vars
  <2> SUFFICES ASSUME Next, uinput, job.stage = "press", job.down = Len(job.chord), job.key \notin held,
                      job.key \in held'
               PROVE  Range(job.chord) \subseteq held'
    BY <1>1
  <2>1. Range(job.chord) \subseteq held
    <3>1. DOMAIN job.chord = 1..job.down
      BY <1>1 DEF Injected, TypeOK, Job
    <3> QED BY <1>1, <3>1 DEF Injected, ChordDown, Range
  <2>2. held \subseteq held'
    <3>1. CASE MainKey
      <4> DEFINE dir == IF job.split THEN "Press" ELSE job.op
      <4>1. PICK done, failed : Call(job.key, dir, done, failed)
        BY <3>1, Zenon DEF MainKey, CallOnly
      <4>2. dir \in Directions
        BY <1>1 DEF Injected, TypeOK, Job, Directions
      <4>3. held' \in {held, held \cup {job.key}, held \ {job.key}}
        BY <1>1, <4>1, <4>2, CallEffect DEF Injected
      <4> QED BY <4>3
    <3>2. CASE ~ MainKey
      <4>1. job # NoJob
        BY FitsIdle
      <4>2. held' = held
        <5>1. ~ Request
          BY <4>1 DEF Request, handle_keyboard, keyboard_char, keyboard_function_key, handle_mouse_click,
                      handle_mouse_scroll, handle_input_text, handle_input_get, Begin
        <5>2. ~ PressModifier
          BY DEF PressModifier, Injected, TypeOK, Job
        <5>3. CASE Step
          BY <3>2, <5>2, <5>3 DEF Step, ReleaseMainKey, ReleaseModifier, ChordDone, Type,
             BackUp, Shortcut, Paste, Unshift, Restore, Get, SelectAll, Copy, Undo, Drop, Deselect, Answer,
             FirstClick, Button, Scroll, Scrolled
        <5>4. CASE Desktop
          BY <5>4 DEF Desktop, UserCopies, ApplicationCopies, UserSwitchesLayout, keys
        <5> QED BY <5>1, <5>3, <5>4 DEF Next
      <4> QED BY <4>2
    <3> QED BY <3>1, <3>2
  <2> QED BY <2>1, <2>2
<1> QED BY <1>1, AlwaysInjected, PTL DEF Spec, ChordComplete
=============================================================================
