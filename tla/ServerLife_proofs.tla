------------------------- MODULE ServerLife_proofs -------------------------
(***************************************************************************)
(* Proofs about the server and its files: for every server.conf, every     *)
(* body of a request to /config and every byte in them, the texts of the   *)
(* configuration fit their buffers; a server that says RUNNING can be      *)
(* reached, and the addresses it tells are those it has; both parsers read *)
(* in a file what was saved.  Living and FileSaved are inductive.          *)
(***************************************************************************)
EXTENDS ServerLife, WellFoundedInduction, SequenceTheorems, FiniteSetTheorems, TLAPS

---------------------------------------------------------------------------
(* Extremes of sets of naturals. *)

\* A set of naturals that is not empty has a least element.
LEMMA LeastElement ==
    ASSUME NEW T \in SUBSET Nat, T # {}
    PROVE  \E m \in T : \A k \in T : m <= k
<1>1. T \subseteq Nat /\ T # {}
  OBVIOUS
<1>2. PICK x \in T : \A y \in T : ~ (<<y, x>> \in OpToRel(<, Nat))
  BY <1>1, NatLessThanWellFounded, WFMin, Zenon
<1>3. ASSUME NEW y \in T PROVE x <= y
  <2>1. ~ (y < x)
    BY <1>1, <1>2 DEF OpToRel
  <2> QED BY <2>1
<1> QED BY <1>2, <1>3, Zenon

\* The first place of a byte, of an entry.
LEMMA MinOfNat ==
    ASSUME NEW S \in SUBSET Nat, S # {}
    PROVE  Min(S) \in S /\ \A y \in S : Min(S) <= y
<1>1. \E x \in S : \A y \in S : x <= y
  BY LeastElement
<1> QED BY <1>1, Zenon DEF Min

\* The last one, and the index a fold takes next.
LEMMA MaxOfNat ==
    ASSUME NEW n \in Nat, NEW S \in SUBSET (0..n), S # {}
    PROVE  Max(S) \in S /\ \A y \in S : Max(S) >= y
<1> DEFINE T == {n - k : k \in S}
<1>1. T \in SUBSET Nat /\ T # {}
  <2>1. \A k \in S : n - k \in Nat
    OBVIOUS
  <2>2. PICK k : k \in S
    OBVIOUS
  <2>3. n - k \in T
    BY <2>2
  <2> QED BY <2>1, <2>3
<1>2. PICK m \in T : \A k \in T : m <= k
  <2> HIDE DEF T
  <2> QED BY <1>1, LeastElement
<1>3. PICK x \in S : m = n - x
  BY <1>2
<1>4. ASSUME NEW y \in S PROVE x >= y
  <2>1. n - y \in T
    OBVIOUS
  <2>2. n - x <= n - y
    BY <1>2, <1>3, <2>1
  <2> QED BY <2>2
<1>5. \E z \in S : \A y \in S : z >= y
  BY <1>4
<1> QED BY <1>5, Zenon DEF Max

LEMMA MaxOfInterval ==
    ASSUME NEW n \in Nat \ {0}
    PROVE  Max(1..n) = n /\ (1..n) \ {Max(1..n)} = 1..(n - 1)
<1>1. 1..n \in SUBSET (0..n) /\ n \in 1..n
  OBVIOUS
<1>2. Max(1..n) \in 1..n /\ \A y \in 1..n : Max(1..n) >= y
  BY <1>1, MaxOfNat
<1>3. Max(1..n) = n
  BY <1>1, <1>2
<1> QED BY <1>3

---------------------------------------------------------------------------
(* Folds: a loop over the places of a sequence, in order. *)

\* What holds of 0 and of each number after one it holds of, up to n.
LEMMA UpTo ==
    ASSUME NEW n \in Nat, NEW P \in SUBSET Nat, 0 \in P, \A k \in 1..n : k - 1 \in P => k \in P
    PROVE  \A k \in 0..n : k \in P
<1> SUFFICES ASSUME NEW k \in 0..n, k \notin P PROVE FALSE
  OBVIOUS
<1> DEFINE T == {j \in 0..n : j \notin P}
<1>1. T \in SUBSET Nat /\ T # {}
  OBVIOUS
<1>2. PICK m \in T : \A j \in T : m <= j
  <2> HIDE DEF T
  <2> QED BY <1>1, LeastElement
<1>3. m \in 1..n /\ m \notin P /\ m - 1 \in 0..n
  BY <1>2
<1>4. m - 1 \notin T
  BY <1>2, <1>3
<1> QED BY <1>3, <1>4

\* The value of a fold is in T when every step leads from T to T.
LEMMA FoldIn ==
    ASSUME NEW n \in Nat, NEW T, NEW it,
           it[{}] \in T,
           \A s \in SUBSET (1..n) : s # {} /\ it[s \ {Max(s)}] \in T => it[s] \in T
    PROVE  it[1..n] \in T
<1> DEFINE P == {k \in 0..n : it[1..k] \in T}
<1>1. P \in SUBSET Nat /\ 0 \in P
  <2>1. 1..0 = {}
    OBVIOUS
  <2> QED BY <2>1
<1>2. ASSUME NEW k \in 1..n, k - 1 \in P PROVE k \in P
  <2>1. 1..k \in SUBSET (1..n) /\ 1..k # {} /\ k \in Nat \ {0}
    OBVIOUS
  <2>2. (1..k) \ {Max(1..k)} = 1..(k - 1)
    BY <2>1, MaxOfInterval
  <2>3. it[1..(k - 1)] \in T
    BY <1>2
  <2>4. it[1..k] \in T
    BY <2>1, <2>2, <2>3, Zenon
  <2> QED BY <2>4
<1>3. \A k \in 0..n : k \in P
  <2> HIDE DEF P
  <2> QED BY <1>1, <1>2, UpTo
<1> QED BY <1>3

\* A step leads from T to T at each place.
StaysIn(T, n, f) == \A t \in T : \A k \in 1..n : f[<<t, k>>] \in T

\* The values of a loop after each set of places.
Runs(T, n, base, f, g) ==
    /\ g \in [SUBSET (1..n) -> T]
    /\ \A s \in SUBSET (1..n) : g[s] = IF s = {} THEN base ELSE f[<<g[s \ {Max(s)}], Max(s)>>]

\* The function a fold chooses exists: one more place at a time.
LEMMA FoldExists ==
    ASSUME NEW n \in Nat, NEW T, NEW base \in T, NEW f, StaysIn(T, n, f)
    PROVE  \E g : Runs(T, n, base, f, g)
<1> USE DEF StaysIn
<1> DEFINE Step(s, g) == IF s = {} THEN base ELSE f[<<g[s \ {Max(s)}], Max(s)>>]
           Fix(g, m) == g \in [SUBSET (1..m) -> T] /\ \A s \in SUBSET (1..m) : g[s] = Step(s, g)
           P == {m \in 0..n : \E g : Fix(g, m)}
<1>1. ASSUME NEW m \in 1..n, m - 1 \in P PROVE m \in P
  <2>1. PICK g : Fix(g, m - 1)
    BY <1>1
  <2> DEFINE h == [s \in SUBSET (1..m) |-> Step(s, g)]
  <2>2. ASSUME NEW s \in SUBSET (1..m), s # {}
        PROVE  Max(s) \in 1..m /\ s \ {Max(s)} \in SUBSET (1..(m - 1))
    <3>1. m \in Nat /\ s \in SUBSET (0..m)
      OBVIOUS
    <3>2. Max(s) \in s /\ \A y \in s : Max(s) >= y
      BY <2>2, <3>1, MaxOfNat
    <3>3. ASSUME NEW x \in s \ {Max(s)} PROVE x \in 1..(m - 1)
      <4>1. x \in 1..m /\ x # Max(s) /\ Max(s) >= x /\ Max(s) \in 1..m
        BY <3>2
      <4> QED BY <4>1
    <3> QED BY <3>2, <3>3
  <2>3. ASSUME NEW t \in SUBSET (1..(m - 1)) PROVE h[t] = g[t]
    <3>1. t \in SUBSET (1..m)
      OBVIOUS
    <3>2. g[t] = Step(t, g)
      BY <2>1
    <3> QED BY <3>1, <3>2
  <2>4. ASSUME NEW s \in SUBSET (1..m) PROVE Step(s, h) = Step(s, g) /\ Step(s, g) \in T
    <3>1. CASE s = {}
      BY <3>1
    <3>2. CASE s # {}
      <4>1. h[s \ {Max(s)}] = g[s \ {Max(s)}]
        BY <2>2, <2>3, <3>2
      <4>2. g[s \ {Max(s)}] \in T /\ Max(s) \in 1..n
        BY <2>1, <2>2, <3>2
      <4> HIDE DEF h
      <4> QED BY <3>2, <4>1, <4>2
    <3> QED BY <3>1, <3>2
  <2> HIDE DEF Step
  <2>5. Fix(h, m)
    BY <2>4
  <2> HIDE DEF Fix
  <2> QED BY <2>5
<1>2. 0 \in P
  <2> DEFINE g == [s \in SUBSET (1..0) |-> base]
  <2>1. \A s \in SUBSET (1..0) : s = {}
    OBVIOUS
  <2>2. Fix(g, 0)
    BY <2>1
  <2> HIDE DEF Fix
  <2> QED BY <2>2
<1>3. P \in SUBSET Nat
  OBVIOUS
<1> HIDE DEF P
<1>4. n \in P
  <2>1. \A k \in 0..n : k \in P
    BY <1>1, <1>2, <1>3, UpTo
  <2> QED BY <2>1
<1> QED BY <1>4 DEF P, Runs

---------------------------------------------------------------------------
(* Texts (ya_config.c): what is cut out of a text is a text, and what is       *)
(* copied to a buffer fits it.                                                 *)

LEMMA PlacesIn ==
    ASSUME NEW text \in Data, NEW bytes
    PROVE  /\ Len(text) \in Nat /\ DOMAIN text = 1..Len(text)
           /\ Places(text, bytes) \in SUBSET (1..Len(text))
           /\ Places(text, bytes) # {} =>
                 /\ Min(Places(text, bytes)) \in 1..Len(text)
                 /\ Max(Places(text, bytes)) \in 1..Len(text)
<1>1. Len(text) \in Nat /\ DOMAIN text = 1..Len(text)
  BY DEF Data
<1>2. Places(text, bytes) \in SUBSET (1..Len(text))
  BY <1>1 DEF Places
<1>3. ASSUME NEW S \in SUBSET (1..Len(text)), S # {}
      PROVE  Min(S) \in 1..Len(text) /\ Max(S) \in 1..Len(text)
  <2>1. S \in SUBSET Nat /\ S \in SUBSET (0..Len(text))
    BY <1>1
  <2>2. Min(S) \in S /\ Max(S) \in S
    BY <1>1, <1>3, <2>1, MinOfNat, MaxOfNat
  <2> QED BY <1>3, <2>2
<1> QED BY <1>1, <1>2, <1>3

\* A part of a text.
LEMMA PartOfText ==
    ASSUME NEW text \in Data, NEW m \in Nat \ {0}, NEW n \in Int, n <= Len(text)
    PROVE  SubSeq(text, m, n) \in Data /\ Len(SubSeq(text, m, n)) = IF m <= n THEN n - m + 1 ELSE 0
<1>1. Len(text) \in Nat /\ \A i \in 1..Len(text) : text[i] \in Byte
  BY ElementOfSeq, LenProperties DEF Data
<1>2. \A i \in m..n : text[i] \in Byte
  BY <1>1
<1> QED BY <1>2, SubSeqProperties DEF Data

LEMMA TrimmedText ==
    ASSUME NEW text \in Data
    PROVE  trim_whitespace(text) \in Data
<1> DEFINE solid == DOMAIN text \ Places(text, White)
<1>1. Len(text) \in Nat /\ solid \in SUBSET (1..Len(text)) /\ <<>> \in Data
  BY PlacesIn, EmptySeq DEF Data
<1>2. CASE solid # {}
  <2> HIDE DEF solid
  <2>1. solid \in SUBSET Nat /\ solid \in SUBSET (0..Len(text))
    BY <1>1
  <2>2. Min(solid) \in solid /\ Max(solid) \in solid
    BY <1>1, <1>2, <2>1, MinOfNat, MaxOfNat
  <2>3. SubSeq(text, Min(solid), Max(solid)) \in Data
    <3>1. Min(solid) \in 1..Len(text) /\ Max(solid) \in 1..Len(text)
      BY <1>1, <2>2, Zenon
    <3> QED BY <1>1, <3>1, PartOfText
  <2> QED BY <1>2, <2>3 DEF trim_whitespace, solid
<1> QED BY <1>1, <1>2 DEF trim_whitespace

LEMMA CutText ==
    ASSUME NEW text \in Data, NEW bytes
    PROVE  Before(text, bytes) \in Data /\ After(text, bytes) \in Data
<1>1. Len(text) \in Nat /\ <<>> \in Data
  BY PlacesIn, EmptySeq DEF Data
<1>2. CASE Places(text, bytes) # {}
  <2> DEFINE i == Min(Places(text, bytes))
  <2>1. i \in 1..Len(text)
    BY <1>2, PlacesIn
  <2> HIDE DEF i
  <2>2. SubSeq(text, 1, i - 1) \in Data /\ SubSeq(text, i + 1, Len(text)) \in Data
    BY <1>1, <2>1, PartOfText
  <2> QED BY <1>2, <2>2 DEF Before, After, i
<1> QED BY <1>1, <1>2 DEF Before, After

LEMMA CopiedText ==
    ASSUME NEW text \in Data, NEW n \in Nat \ {0}
    PROVE  safe_strncpy(text, n) \in Data /\ Len(safe_strncpy(text, n)) < n
<1>1. Len(text) \in Nat
  BY PlacesIn
<1>2. CASE Len(text) < n
  BY <1>2 DEF safe_strncpy
<1>3. CASE ~ Len(text) < n
  <2>1. n - 1 \in Int /\ n - 1 <= Len(text) /\ 1 \in Nat \ {0}
    BY <1>1, <1>3
  <2>2. SubSeq(text, 1, n - 1) \in Data /\ Len(SubSeq(text, 1, n - 1)) < n
    BY <2>1, PartOfText
  <2> QED BY <1>3, <2>2 DEF safe_strncpy
<1> QED BY <1>2, <1>3

LEMMA UnquotedText ==
    ASSUME NEW text \in Data
    PROVE  Unquoted(text) \in Data
<1> DEFINE quotes == Places(text, {Quote})
<1>1. Len(text) \in Nat
  BY PlacesIn
<1>2. CASE quotes # {}
  <2>1. Max(quotes) \in 1..Len(text)
    BY <1>2, PlacesIn
  <2> HIDE DEF quotes
  <2>2. SubSeq(text, 2, Max(quotes) - 1) \in Data
    BY <1>1, <2>1, PartOfText
  <2> QED BY <2>2 DEF Unquoted, quotes
<1> QED BY <1>2 DEF Unquoted

---------------------------------------------------------------------------
(* The configuration in memory. *)

\* An entry whose texts fit their buffers.
FitEntry ==
    {e \in [section : Data, key : Data, value : Data] :
        Len(e.section) < NameLength /\ Len(e.key) < NameLength /\ Len(e.value) < ValueLength}

\* An array of them that fits its allocation.
Config ==
    {c \in [entries : Seq(FitEntry), capacity : Nat] : Len(c.entries) <= c.capacity}

LEMMA EntryFits ==
    ASSUME NEW section \in Data, NEW key \in Data, NEW value \in Data
    PROVE  Entry(section, key, value) \in FitEntry
BY CopiedText, ConfigFileAssumption DEF Entry, FitEntry

LEMMA AddedFits ==
    ASSUME NEW c \in Config, NEW e \in FitEntry
    PROVE  /\ Added(c, e) \in Config
           /\ Added(c, e).entries = Append(c.entries, e)
<1>1. c.entries \in Seq(FitEntry) /\ c.capacity \in Nat /\ Len(c.entries) <= c.capacity
  BY DEF Config
<1> HIDE DEF FitEntry
<1>2. /\ Append(c.entries, e) \in Seq(FitEntry) /\ Len(Append(c.entries, e)) = Len(c.entries) + 1
      /\ Len(c.entries) \in Nat
  BY <1>1
<1> DEFINE n == IF Len(c.entries) >= c.capacity THEN c.capacity * 2 + Slack ELSE c.capacity
<1>3. n \in Nat /\ Len(c.entries) + 1 <= n
  BY <1>1, <1>2, ConfigFileAssumption
<1> QED BY <1>2, <1>3 DEF Added, Config

\* The entries of c are in d, at their places and under their names.
Extends(c, d) ==
    /\ Len(c.entries) <= Len(d.entries)
    /\ \A i \in 1..Len(c.entries) : /\ d.entries[i].section = c.entries[i].section
                                    /\ d.entries[i].key = c.entries[i].key

LEMMA ConfigType ==
    ASSUME NEW c \in Config
    PROVE  /\ c.entries \in Seq(FitEntry) /\ Len(c.entries) \in Nat /\ DOMAIN c.entries = 1..Len(c.entries)
           /\ \A i \in 1..Len(c.entries) : c.entries[i] \in FitEntry
           /\ c.capacity \in Nat /\ Len(c.entries) <= c.capacity
           /\ c = [entries |-> c.entries, capacity |-> c.capacity]
<1>1. /\ c.entries \in Seq(FitEntry) /\ c.capacity \in Nat /\ Len(c.entries) <= c.capacity
      /\ c = [entries |-> c.entries, capacity |-> c.capacity]
  BY DEF Config
<1> QED BY <1>1, ElementOfSeq, LenProperties

\* A lookup finds the first entry under a name.
LEMMA GetFinds ==
    ASSUME NEW c \in Config, NEW section, NEW key
    PROVE  LET i == ya_config_get(c, section, key)
           IN  /\ i \in 0..Len(c.entries)
               /\ i # 0 => i \in Matching(c.entries, section, key)
               /\ \A j \in Matching(c.entries, section, key) : i # 0 /\ i <= j
<1> DEFINE S == Matching(c.entries, section, key)
<1>1. S \in SUBSET (1..Len(c.entries)) /\ Len(c.entries) \in Nat
  BY ConfigType DEF Matching
<1> HIDE DEF S
<1>2. CASE S = {}
  <2>1. ya_config_get(c, section, key) = 0
    BY <1>2 DEF ya_config_get, S
  <2> QED BY <1>1, <1>2, <2>1 DEF S
<1>3. CASE S # {}
  <2>1. Min(S) \in S /\ \A y \in S : Min(S) <= y
    BY <1>1, <1>3, MinOfNat
  <2>2. ya_config_get(c, section, key) = Min(S)
    BY <1>3 DEF ya_config_get, S
  <2> QED BY <1>1, <2>1, <2>2 DEF S
<1> QED BY <1>2, <1>3

\* And goes on finding it.
LEMMA GetKept ==
    ASSUME NEW c \in Config, NEW d \in Config, Extends(c, d), NEW section, NEW key,
           ya_config_get(c, section, key) # 0
    PROVE  ya_config_get(d, section, key) = ya_config_get(c, section, key)
<1> DEFINE i == ya_config_get(c, section, key)
           j == ya_config_get(d, section, key)
<1>1. i \in 1..Len(c.entries) /\ i \in Matching(c.entries, section, key)
      /\ \A k \in Matching(c.entries, section, key) : i <= k
  BY GetFinds, ConfigType
<1>2. i \in Matching(d.entries, section, key)
  BY <1>1, ConfigType DEF Extends, Matching
<1>3. j \in Matching(d.entries, section, key) /\ j <= i /\ j \in Nat /\ j # 0
  BY <1>2, GetFinds, ConfigType
<1>4. j \in 1..Len(c.entries)
  BY <1>1, <1>3, ConfigType
<1>5. j \in Matching(c.entries, section, key)
  BY <1>3, <1>4, ConfigType DEF Extends, Matching
<1> HIDE DEF i, j
<1>6. i <= j /\ i \in Nat
  BY <1>1, <1>5, ConfigType
<1>7. i = j
  BY <1>3, <1>6
<1> QED BY <1>7 DEF i, j

LEMMA SetFits ==
    ASSUME NEW c \in Config, NEW section \in Data, NEW key \in Data, NEW value \in Data
    PROVE  LET d == ya_config_set(c, section, key, value)
           IN  d \in Config /\ Extends(c, d)
<1> DEFINE i == ya_config_get(c, section, key)
           d == ya_config_set(c, section, key, value)
<1>1. i \in 0..Len(c.entries)
  BY GetFinds
<1>2. CASE i # 0
  <2> DEFINE e == [c.entries[i] EXCEPT !.value = safe_strncpy(value, ValueLength)]
             s == [c.entries EXCEPT ![i] = e]
  <2>1. d = [c EXCEPT !.entries[i].value = safe_strncpy(value, ValueLength)]
    BY <1>2 DEF ya_config_set
  <2>2. i \in 1..Len(c.entries) /\ c.entries[i] \in FitEntry
    BY <1>1, <1>2, ConfigType
  <2>3. e \in FitEntry /\ e.section = c.entries[i].section /\ e.key = c.entries[i].key
    BY <2>2, CopiedText, ConfigFileAssumption DEF FitEntry
  <2>4. d = [entries |-> s, capacity |-> c.capacity]
    BY <2>1, ConfigType
  <2> HIDE DEF e, d, i
  <2>5. /\ s \in Seq(FitEntry) /\ Len(s) = Len(c.entries)
        /\ s[i] = e /\ \A j \in 1..Len(c.entries) : j # i => s[j] = c.entries[j]
    BY <2>2, <2>3, ConfigType
  <2> HIDE DEF s
  <2>6. d \in Config
    BY <2>4, <2>5, ConfigType DEF Config
  <2>7. Extends(c, d)
    BY <2>3, <2>4, <2>5, ConfigType DEF Extends
  <2> QED BY <2>6, <2>7 DEF d
<1>3. CASE i = 0
  <2>1. d = Added(c, Entry(section, key, value))
    BY <1>3 DEF ya_config_set
  <2>2. Entry(section, key, value) \in FitEntry
    BY EntryFits
  <2>3. d \in Config /\ d.entries = Append(c.entries, Entry(section, key, value))
    BY <2>1, <2>2, AddedFits
  <2>4. Extends(c, d)
    BY <2>2, <2>3, ConfigType, AppendProperties DEF Extends
  <2> QED BY <2>3, <2>4
<1> QED BY <1>2, <1>3

---------------------------------------------------------------------------
(* Reading the file: the lines of a text. *)

\* Where the line that begins at i ends.
LineEnd(text, size, i) ==
    Min({i + size - 2, Len(text)} \cup {j \in i..Len(text) : text[j] = Newline})

\* The lines from each place of a text to its end.
LinesFrom(text, size, F) ==
    /\ F \in [1..Len(text) + 1 -> Seq(Data)]
    /\ \A i \in 1..Len(text) + 1 :
          F[i] = IF i > Len(text) THEN <<>>
                 ELSE <<SubSeq(text, i, LineEnd(text, size, i))>> \o F[LineEnd(text, size, i) + 1]

LEMMA LineEndIs ==
    ASSUME NEW text \in Data, NEW size \in Nat, size >= 2, NEW i \in 1..Len(text)
    PROVE  LET e == LineEnd(text, size, i)
           IN  /\ e \in i..Len(text) /\ e <= i + size - 2
               /\ e = i + size - 2 \/ e = Len(text) \/ text[e] = Newline
               /\ \A j \in i..Len(text) : text[j] = Newline => e <= j
<1> DEFINE S == {i + size - 2, Len(text)} \cup {j \in i..Len(text) : text[j] = Newline}
<1>1. Len(text) \in Nat
  BY DEF Data
<1>2. i + size - 2 \in Nat /\ i + size - 2 >= i /\ Len(text) >= i
  BY <1>1
<1>3. S \in SUBSET Nat /\ S # {} /\ \A j \in S : j >= i
  BY <1>1, <1>2
<1>4. /\ Len(text) \in S /\ i + size - 2 \in S
      /\ \A j \in i..Len(text) : text[j] = Newline => j \in S
      /\ \A j \in S : j = i + size - 2 \/ j = Len(text) \/ text[j] = Newline
  OBVIOUS
<1>5. LineEnd(text, size, i) = Min(S)
  BY DEF LineEnd
<1> HIDE DEF S
<1>6. Min(S) \in S /\ \A y \in S : Min(S) <= y
  BY <1>3, MinOfNat
<1> DEFINE e == Min(S)
<1>7. e \in S /\ \A y \in S : e <= y
  BY <1>6
<1> HIDE DEF e
<1>8. e \in Nat /\ e >= i /\ e <= Len(text) /\ e <= i + size - 2
  BY <1>3, <1>4, <1>7
<1>9. e \in i..Len(text)
  BY <1>1, <1>8
<1> QED BY <1>4, <1>5, <1>7, <1>8, <1>9 DEF e

LEMMA LinesAre ==
    ASSUME NEW text \in Data, NEW size \in Nat, size >= 2
    PROVE  \E F : LinesFrom(text, size, F) /\ LinesOf(text, size) = F[1]
<1> DEFINE N == Len(text)
           last(i) == LineEnd(text, size, i)
           Step(i, g) == IF i > N THEN <<>> ELSE <<SubSeq(text, i, last(i))>> \o g[last(i) + 1]
           Whole(g) == g = [i \in 1..(N + 1) |-> Step(i, g)]
           From == CHOOSE g : Whole(g)
           Fix(g, m) == /\ g \in [(N + 1 - m)..(N + 1) -> Seq(Data)]
                        /\ \A i \in (N + 1 - m)..(N + 1) : g[i] = Step(i, g)
           P == {m \in 0..N : \E g : Fix(g, m)}
<1>1. N \in Nat
  BY DEF Data
<1>2. LinesOf(text, size) = From[1]
  BY DEF LinesOf, LineEnd
<1> HIDE DEF From
<1>3. ASSUME NEW i \in 1..N PROVE last(i) \in i..N
  BY <1>3, LineEndIs
<1> HIDE DEF last
<1>4. ASSUME NEW m \in 1..N, m - 1 \in P PROVE m \in P
  <2>1. PICK g : Fix(g, m - 1)
    BY <1>4
  <2> DEFINE a == N + 1 - m
             h == [i \in a..(N + 1) |-> Step(i, g)]
  <2>2. a \in 1..N /\ N + 1 - (m - 1) = a + 1
    BY <1>1
  <2> HIDE DEF a
  <2>3. /\ g \in [(a + 1)..(N + 1) -> Seq(Data)]
        /\ \A i \in (a + 1)..(N + 1) : g[i] = Step(i, g)
    BY <2>1, <2>2
  <2>4. ASSUME NEW i \in (a + 1)..(N + 1) PROVE h[i] = g[i]
    <3>1. i \in a..(N + 1)
      BY <1>1, <2>2
    <3>2. g[i] = Step(i, g)
      BY <2>3
    <3> HIDE DEF Step
    <3> QED BY <3>1, <3>2
  <2>5. ASSUME NEW i \in a..(N + 1) PROVE Step(i, h) = Step(i, g) /\ Step(i, g) \in Seq(Data)
    <3>1. CASE i > N
      BY <3>1, EmptySeq
    <3>2. CASE ~ i > N
      <4>5. i \in 1..N /\ a <= i
        BY <1>1, <2>2, <3>2
      <4>6. last(i) \in i..N
        BY <1>3, <4>5
      <4>1. i \in 1..N /\ last(i) \in i..N /\ last(i) + 1 \in (a + 1)..(N + 1)
        BY <1>1, <2>2, <4>5, <4>6
      <4>2. h[last(i) + 1] = g[last(i) + 1] /\ g[last(i) + 1] \in Seq(Data)
        BY <2>3, <2>4, <4>1
      <4>3. SubSeq(text, i, last(i)) \in Data
        BY <1>1, <4>1, PartOfText
      <4>4. <<SubSeq(text, i, last(i))>> \o g[last(i) + 1] \in Seq(Data)
        BY <4>2, <4>3, ConcatProperties
      <4> HIDE DEF h
      <4> QED BY <3>2, <4>2, <4>4
    <3> QED BY <3>1, <3>2
  <2> HIDE DEF Step
  <2>6. h \in [a..(N + 1) -> Seq(Data)] /\ \A i \in a..(N + 1) : h[i] = Step(i, h)
    BY <2>5
  <2> HIDE DEF h
  <2>7. Fix(h, m)
    BY <2>6 DEF a
  <2> HIDE DEF Fix
  <2> QED BY <2>7
<1>5. 0 \in P
  <2> DEFINE g == [i \in (N + 1)..(N + 1) |-> <<>>]
  <2>1. \A i \in (N + 1)..(N + 1) : i > N /\ g[i] = <<>>
    BY <1>1
  <2>2. g \in [(N + 1)..(N + 1) -> Seq(Data)]
    BY EmptySeq
  <2> HIDE DEF g
  <2>3. \A i \in (N + 1)..(N + 1) : g[i] = Step(i, g)
    BY <2>1
  <2>4. N + 1 - 0 = N + 1
    BY <1>1
  <2>5. Fix(g, 0)
    BY <2>2, <2>3, <2>4
  <2> QED BY <1>1, <2>5
<1>6. N \in P
  <2>1. P \in SUBSET Nat
    OBVIOUS
  <2> HIDE DEF P
  <2>2. \A k \in 0..N : k \in P
    BY <1>1, <1>4, <1>5, <2>1, UpTo
  <2> QED BY <1>1, <2>2
<1>7. PICK g : Fix(g, N)
  BY <1>6
<1> HIDE DEF Step
<1>8. Whole(g) /\ g \in [1..(N + 1) -> Seq(Data)]
  <2>1. N + 1 - N = 1
    BY <1>1
  <2> QED BY <1>7, <2>1
<1>9. Whole(From)
  BY <1>8 DEF From
<1> DEFINE Q == {m \in 0..N : \A i \in (N + 1 - m)..(N + 1) : From[i] \in Seq(Data)}
<1>10. ASSUME NEW m \in 0..N, m = 0 \/ m - 1 \in Q PROVE m \in Q
  <2>1. ASSUME NEW i \in (N + 1 - m)..(N + 1) PROVE From[i] \in Seq(Data)
    <3>1. From[i] = Step(i, From) /\ i \in 1..(N + 1)
      BY <1>1, <1>9
    <3>2. CASE i > N
      BY <3>1, <3>2, EmptySeq DEF Step
    <3>3. CASE ~ i > N
      <4>1. i \in 1..N /\ last(i) \in i..N
        BY <1>1, <1>3, <3>1, <3>3
      <4>2. m # 0 /\ last(i) + 1 \in (N + 1 - (m - 1))..(N + 1)
        BY <1>1, <2>1, <3>3, <4>1
      <4>3. From[last(i) + 1] \in Seq(Data)
        BY <1>10, <4>2
      <4>4. SubSeq(text, i, last(i)) \in Data
        BY <1>1, <4>1, PartOfText
      <4>5. <<SubSeq(text, i, last(i))>> \o From[last(i) + 1] \in Seq(Data)
        BY <4>3, <4>4, ConcatProperties
      <4> QED BY <3>1, <3>3, <4>5 DEF Step
    <3> QED BY <3>2, <3>3
  <2> QED BY <2>1
<1>11. N \in Q
  <2> HIDE DEF Q
  <2>1. Q \in SUBSET Nat
    BY DEF Q
  <2>3. 0 \in Q
    BY <1>1, <1>10
  <2>4. \A k \in 1..N : k - 1 \in Q => k \in Q
    BY <1>10
  <2>2. \A k \in 0..N : k \in Q
    BY <1>1, <2>1, <2>3, <2>4, UpTo
  <2> QED BY <1>1, <2>2
<1>12. From \in [1..(N + 1) -> Seq(Data)] /\ \A i \in 1..(N + 1) : From[i] = Step(i, From)
  <2>1. N + 1 - N = 1
    BY <1>1
  <2>2. \A i \in 1..(N + 1) : From[i] \in Seq(Data)
    BY <1>11, <2>1
  <2> QED BY <1>9, <2>2
<1> HIDE DEF Whole
<1>13. LinesFrom(text, size, From)
  BY <1>12 DEF LinesFrom, Step, last
<1> QED BY <1>2, <1>13

LEMMA LinesOfText ==
    ASSUME NEW text \in Data, NEW size \in Nat, size >= 2
    PROVE  LinesOf(text, size) \in Seq(Data)
<1>1. PICK F : LinesFrom(text, size, F) /\ LinesOf(text, size) = F[1]
  BY LinesAre
<1>2. 1 \in 1..Len(text) + 1
  BY DEF Data
<1> QED BY <1>1, <1>2 DEF LinesFrom

LEMMA EndsAt ==
    ASSUME NEW text \in Data, NEW size \in Nat, size >= 2, NEW i \in 1..Len(text), NEW e \in i..Len(text),
           e <= i + size - 2, e = i + size - 2 \/ e = Len(text) \/ text[e] = Newline,
           \A j \in i..(e - 1) : text[j] # Newline
    PROVE  LineEnd(text, size, i) = e
<1> DEFINE d == LineEnd(text, size, i)
<1>1. Len(text) \in Nat
  BY DEF Data
<1>2. /\ d \in i..Len(text) /\ d <= i + size - 2
      /\ d = i + size - 2 \/ d = Len(text) \/ text[d] = Newline
      /\ \A j \in i..Len(text) : text[j] = Newline => d <= j
  BY LineEndIs
<1> HIDE DEF d
<1>3. d <= e
  BY <1>1, <1>2
<1>4. ~ d < e
  BY <1>1, <1>2
<1>5. d = e
  BY <1>1, <1>2, <1>3, <1>4
<1> QED BY <1>5 DEF d

\* The bytes of two texts together.
LEMMA JoinedBytes ==
    ASSUME NEW a \in Data, NEW b \in Data
    PROVE  /\ a \o b \in Data /\ Len(a \o b) = Len(a) + Len(b) /\ Len(a) \in Nat /\ Len(b) \in Nat
           /\ \A i \in 1..Len(a) : (a \o b)[i] = a[i]
           /\ \A i \in 1..Len(b) : (a \o b)[Len(a) + i] = b[i]
<1>1. /\ a \o b \in Data /\ Len(a \o b) = Len(a) + Len(b) /\ Len(a) \in Nat /\ Len(b) \in Nat
  BY ConcatProperties, LenProperties DEF Data
<1>2. \A i \in 1..(Len(a) + Len(b)) : (a \o b)[i] = IF i <= Len(a) THEN a[i] ELSE b[i - Len(a)]
  BY ConcatProperties DEF Data
<1>3. ASSUME NEW i \in 1..Len(a) PROVE (a \o b)[i] = a[i]
  <2>1. i \in 1..(Len(a) + Len(b)) /\ i <= Len(a)
    BY <1>1
  <2> QED BY <1>2, <2>1
<1>4. ASSUME NEW i \in 1..Len(b) PROVE (a \o b)[Len(a) + i] = b[i]
  <2>1. Len(a) + i \in 1..(Len(a) + Len(b)) /\ ~ Len(a) + i <= Len(a) /\ (Len(a) + i) - Len(a) = i
    BY <1>1
  <2> QED BY <1>2, <2>1
<1> QED BY <1>1, <1>3, <1>4

\* Two texts are the same when their bytes are.
LEMMA SameText ==
    ASSUME NEW a \in Data, NEW b \in Data, Len(a) = Len(b), \A i \in 1..Len(a) : a[i] = b[i]
    PROVE  a = b
BY SeqEqual DEF Data

LEMMA PartBytes ==
    ASSUME NEW text \in Data, NEW m \in Nat \ {0}, NEW n \in Nat, n <= Len(text)
    PROVE  /\ SubSeq(text, m, n) \in Data
           /\ Len(SubSeq(text, m, n)) = IF m <= n THEN n - m + 1 ELSE 0
           /\ \A i \in 1..(n - m + 1) : SubSeq(text, m, n)[i] = text[m + i - 1]
<1>1. SubSeq(text, m, n) \in Data /\ Len(SubSeq(text, m, n)) = IF m <= n THEN n - m + 1 ELSE 0
  BY PartOfText
<1>2. Len(text) \in Nat /\ \A i \in 1..Len(text) : text[i] \in Byte
  BY ElementOfSeq, LenProperties DEF Data
<1>3. \A i \in m..n : text[i] \in Byte
  BY <1>2
<1>4. \A i \in 1..(n - m + 1) : SubSeq(text, m, n)[i] = text[m + i - 1]
  BY <1>3, SubSeqProperties
<1> QED BY <1>1, <1>4

\* A line that ends with its newline and fits the buffer.
FullLine(a, size) ==
    /\ a \in Data /\ Len(a) \in 1..(size - 1) /\ a[Len(a)] = Newline
    /\ \A j \in 1..(Len(a) - 1) : a[j] # Newline

LEMMA SameLines ==
    ASSUME NEW a \in Data, NEW b \in Data, NEW size \in Nat, size >= 2,
           NEW F, LinesFrom(a \o b, size, F), NEW G, LinesFrom(b, size, G)
    PROVE  \A i \in 1..(Len(b) + 1) : F[Len(a) + i] = G[i]
<1> DEFINE text == a \o b
           la == Len(a)
           N == Len(b)
           Q == {m \in 0..N : \A i \in (N + 1 - m)..(N + 1) : F[la + i] = G[i]}
<1>1. /\ text \in Data /\ Len(text) = la + N /\ la \in Nat /\ N \in Nat
      /\ \A i \in 1..N : text[la + i] = b[i]
  BY JoinedBytes
<1>2. /\ \A i \in 1..(la + N + 1) :
            F[i] = IF i > la + N THEN <<>>
                   ELSE <<SubSeq(text, i, LineEnd(text, size, i))>> \o F[LineEnd(text, size, i) + 1]
      /\ \A i \in 1..(N + 1) :
            G[i] = IF i > N THEN <<>>
                   ELSE <<SubSeq(b, i, LineEnd(b, size, i))>> \o G[LineEnd(b, size, i) + 1]
  BY <1>1 DEF LinesFrom
<1> HIDE DEF text, la, N
<1>3. ASSUME NEW i \in 1..N
      PROVE  /\ LineEnd(b, size, i) \in i..N /\ LineEnd(text, size, la + i) = la + LineEnd(b, size, i)
             /\ SubSeq(text, la + i, la + LineEnd(b, size, i)) = SubSeq(b, i, LineEnd(b, size, i))
  <2> DEFINE e == LineEnd(b, size, i)
  <2>1. /\ e \in i..N /\ e <= i + size - 2
        /\ e = i + size - 2 \/ e = N \/ b[e] = Newline
        /\ \A j \in i..N : b[j] = Newline => e <= j
    BY LineEndIs DEF N
  <2> HIDE DEF e
  <2>2. ASSUME NEW j \in (la + i)..(la + e - 1) PROVE text[j] # Newline
    <3>1. j - la \in 1..N /\ j - la \in i..N /\ ~ e <= j - la /\ la + (j - la) = j
      BY <1>1, <2>1
    <3> QED BY <1>1, <2>1, <3>1
  <2>3. /\ la + i \in 1..Len(text) /\ la + e \in (la + i)..Len(text)
        /\ la + e <= (la + i) + size - 2
        /\ la + e = (la + i) + size - 2 \/ la + e = Len(text) \/ text[la + e] = Newline
    <3>1. e \in 1..N
      BY <1>1, <2>1
    <3> QED BY <1>1, <2>1, <3>1
  <2>4. LineEnd(text, size, la + i) = la + e
    <3> DEFINE k == la + i
               l == la + e
    <3>1. k \in 1..Len(text) /\ l \in k..Len(text) /\ l <= k + size - 2
      BY <2>3
    <3>3. l = k + size - 2 \/ l = Len(text) \/ text[l] = Newline
      BY <2>3
    <3>4. \A j \in k..(l - 1) : text[j] # Newline
      BY <1>1, <2>1, <2>2
    <3> HIDE DEF k, l
    <3>2. LineEnd(text, size, k) = l
      BY <1>1, <3>1, <3>3, <3>4, EndsAt
    <3> QED BY <3>2 DEF k, l
  <2>5. SubSeq(text, la + i, la + e) = SubSeq(b, i, e)
    <3> DEFINE k == la + i
               l == la + e
               x == SubSeq(text, k, l)
               y == SubSeq(b, i, e)
    <3>1. /\ k \in Nat \ {0} /\ l \in Nat /\ l <= Len(text) /\ k <= l /\ l - k = e - i
          /\ i \in Nat \ {0} /\ e \in Nat /\ e <= Len(b) /\ i <= e
      BY <1>1, <2>1 DEF N
    <3>2. /\ \A j \in 1..(e - i + 1) : text[k + j - 1] = b[i + j - 1]
      <4>1. ASSUME NEW j \in 1..(e - i + 1) PROVE i + j - 1 \in 1..N /\ k + j - 1 = la + (i + j - 1)
        BY <1>1, <2>1
      <4> QED BY <1>1, <4>1
    <3> HIDE DEF k, l
    <3>3. x \in Data /\ Len(x) = l - k + 1 /\ \A j \in 1..(l - k + 1) : x[j] = text[k + j - 1]
      BY <1>1, <3>1, PartBytes
    <3>4. y \in Data /\ Len(y) = e - i + 1 /\ \A j \in 1..(e - i + 1) : y[j] = b[i + j - 1]
      BY <3>1, PartBytes
    <3> HIDE DEF x, y
    <3>5. l - k + 1 = e - i + 1
      BY <2>1, <3>1
    <3>6. x = y
      BY <3>2, <3>3, <3>4, <3>5, SameText
    <3> QED BY <3>6 DEF x, y, k, l
  <2> QED BY <2>1, <2>4, <2>5 DEF e
<1>4. ASSUME NEW m \in 0..N, m = 0 \/ m - 1 \in Q PROVE m \in Q
  <2>1. ASSUME NEW i \in (N + 1 - m)..(N + 1) PROVE F[la + i] = G[i]
    <3>1. i \in 1..(N + 1) /\ la + i \in 1..(la + N + 1)
      BY <1>1
    <3>2. CASE i > N
      <4>1. la + i > la + N
        BY <1>1, <3>2
      <4> QED BY <1>2, <3>1, <3>2, <4>1
    <3>3. CASE ~ i > N
      <4>1. i \in 1..N /\ ~ la + i > la + N
        BY <1>1, <3>1, <3>3
      <4> DEFINE e == LineEnd(b, size, i)
      <4>2. /\ e \in i..N /\ LineEnd(text, size, la + i) = la + e
            /\ SubSeq(text, la + i, la + e) = SubSeq(b, i, e)
        BY <1>3, <4>1
      <4>3. /\ F[la + i] = <<SubSeq(text, la + i, la + e)>> \o F[la + e + 1]
            /\ G[i] = <<SubSeq(b, i, e)>> \o G[e + 1]
        BY <1>2, <3>1, <3>3, <4>1, <4>2
      <4> HIDE DEF e
      <4>4. m # 0 /\ e + 1 \in (N + 1 - (m - 1))..(N + 1) /\ la + e + 1 = la + (e + 1)
        BY <1>1, <2>1, <3>3, <4>1, <4>2
      <4>5. F[la + (e + 1)] = G[e + 1]
        BY <1>4, <4>4
      <4> QED BY <4>2, <4>3, <4>4, <4>5
    <3> QED BY <3>2, <3>3
  <2> QED BY <2>1
<1>5. N \in Q
  <2> HIDE DEF Q
  <2>1. Q \in SUBSET Nat
    BY DEF Q
  <2>2. 0 \in Q
    BY <1>1, <1>4
  <2>3. \A k \in 1..N : k - 1 \in Q => k \in Q
    BY <1>4
  <2>4. \A k \in 0..N : k \in Q
    BY <1>1, <2>1, <2>2, <2>3, UpTo
  <2> QED BY <1>1, <2>4
<1>6. N + 1 - N = 1
  BY <1>1
<1> QED BY <1>5, <1>6 DEF N, la

\* A full line at the beginning is the first line, and the rest is read as if it stood alone.
LEMMA FirstLine ==
    ASSUME NEW a \in Data, NEW b \in Data, NEW size \in Nat, size >= 2, FullLine(a, size)
    PROVE  LinesOf(a \o b, size) = <<a>> \o LinesOf(b, size)
<1> DEFINE text == a \o b
           la == Len(a)
<1>1. /\ text \in Data /\ Len(text) = la + Len(b) /\ la \in Nat /\ Len(b) \in Nat
      /\ \A i \in 1..la : text[i] = a[i]
  BY JoinedBytes
<1>2. PICK F : LinesFrom(text, size, F) /\ LinesOf(text, size) = F[1]
  BY <1>1, LinesAre
<1>3. PICK G : LinesFrom(b, size, G) /\ LinesOf(b, size) = G[1]
  BY LinesAre
<1>4. la \in 1..(size - 1) /\ a[la] = Newline /\ \A j \in 1..(la - 1) : a[j] # Newline
  BY DEF FullLine
<1>5. F[la + 1] = G[1]
  <2>1. 1 \in 1..(Len(b) + 1)
    BY <1>1
  <2> QED BY <1>2, <1>3, <2>1, SameLines
<1>6. F[1] = <<SubSeq(text, 1, LineEnd(text, size, 1))>> \o F[LineEnd(text, size, 1) + 1]
  <2>1. 1 \in 1..(Len(text) + 1) /\ ~ 1 > Len(text)
    BY <1>1, <1>4
  <2> QED BY <1>2, <2>1 DEF LinesFrom
<1> HIDE DEF text, la
<1>7. LineEnd(text, size, 1) = la
  <2>1. 1 \in 1..Len(text) /\ la \in 1..Len(text) /\ la <= 1 + size - 2
    BY <1>1, <1>4
  <2>2. text[la] = Newline /\ \A j \in 1..(la - 1) : text[j] # Newline
    BY <1>1, <1>4
  <2> QED BY <1>1, <2>1, <2>2, EndsAt
<1>8. SubSeq(text, 1, la) = a
  <2> DEFINE x == SubSeq(text, 1, la)
  <2>1. x \in Data /\ Len(x) = la /\ \A i \in 1..la : x[i] = text[1 + i - 1]
    <3>1. 1 \in Nat \ {0} /\ la \in Nat /\ la <= Len(text) /\ 1 <= la /\ la - 1 + 1 = la
      BY <1>1, <1>4
    <3> QED BY <1>1, <3>1, PartBytes
  <2>2. \A i \in 1..la : 1 + i - 1 = i
    BY <1>1
  <2> HIDE DEF x
  <2>3. x = a
    BY <1>1, <2>1, <2>2, SameText DEF la
  <2> QED BY <2>3 DEF x
<1> QED BY <1>2, <1>3, <1>5, <1>6, <1>7, <1>8 DEF text

\* The end of a text without a newline is a line as well.
LEMMA LastLine ==
    ASSUME NEW q \in Data, NEW size \in Nat, size >= 2, Len(q) < size, \A j \in 1..Len(q) : q[j] # Newline
    PROVE  LinesOf(q, size) = IF q = <<>> THEN <<>> ELSE <<q>>
<1>1. Len(q) \in Nat
  BY DEF Data
<1>2. PICK F : LinesFrom(q, size, F) /\ LinesOf(q, size) = F[1]
  BY LinesAre
<1>3. \A i \in 1..Len(q) + 1 :
          F[i] = IF i > Len(q) THEN <<>>
                 ELSE <<SubSeq(q, i, LineEnd(q, size, i))>> \o F[LineEnd(q, size, i) + 1]
  BY <1>2 DEF LinesFrom
<1>4. CASE Len(q) = 0
  <2>1. q = <<>>
    BY <1>4, EmptySeq DEF Data
  <2>2. 1 \in 1..Len(q) + 1 /\ 1 > Len(q)
    BY <1>4
  <2> QED BY <1>2, <1>3, <2>1, <2>2
<1>5. CASE Len(q) # 0
  <2>1. q # <<>>
    BY <1>5, EmptySeq
  <2>2. 1 \in 1..Len(q) /\ 1 \in 1..(Len(q) + 1) /\ ~ 1 > Len(q) /\ Len(q) \in 1..Len(q)
        /\ Len(q) <= 1 + size - 2 /\ Len(q) + 1 \in 1..(Len(q) + 1) /\ Len(q) + 1 > Len(q)
    BY <1>1, <1>5
  <2>3. LineEnd(q, size, 1) = Len(q)
    BY <1>1, <2>2, EndsAt
  <2>4. F[1] = <<SubSeq(q, 1, Len(q))>> \o F[Len(q) + 1] /\ F[Len(q) + 1] = <<>>
    BY <1>3, <2>2, <2>3
  <2>5. SubSeq(q, 1, Len(q)) = q
    <3> DEFINE x == SubSeq(q, 1, Len(q))
    <3>1. x \in Data /\ Len(x) = Len(q) - 1 + 1 /\ \A i \in 1..(Len(q) - 1 + 1) : x[i] = q[1 + i - 1]
      BY <1>1, <2>2, PartBytes
    <3>2. Len(q) - 1 + 1 = Len(q) /\ \A i \in 1..Len(q) : 1 + i - 1 = i
      BY <1>1
    <3> HIDE DEF x
    <3>3. x = q
      BY <3>1, <3>2, SameText
    <3> QED BY <3>3 DEF x
  <2>6. <<q>> \o <<>> = <<q>>
    BY ConcatEmptySeq
  <2> QED BY <1>2, <2>1, <2>4, <2>5, <2>6
<1> QED BY <1>4, <1>5

---------------------------------------------------------------------------
(* What is left of a line without the white space around it, and where it is cut. *)

\* From the first byte that is not white to the last one.
LEMMA TrimmedPart ==
    ASSUME NEW text \in Data, NEW i \in 1..Len(text), NEW j \in 1..Len(text),
           text[i] \notin White, text[j] \notin White,
           \A k \in 1..Len(text) : k < i \/ k > j => text[k] \in White
    PROVE  trim_whitespace(text) = SubSeq(text, i, j)
<1> DEFINE solid == DOMAIN text \ Places(text, White)
<1>1. Len(text) \in Nat /\ DOMAIN text = 1..Len(text)
  BY PlacesIn
<1>2. solid = {k \in 1..Len(text) : text[k] \notin White}
  BY <1>1 DEF Places
<1>3. solid \in SUBSET Nat /\ solid \in SUBSET (0..Len(text)) /\ i \in solid /\ j \in solid
      /\ \A k \in solid : i <= k /\ k <= j
  BY <1>1, <1>2
<1>4. trim_whitespace(text) = IF solid = {} THEN <<>> ELSE SubSeq(text, Min(solid), Max(solid))
  BY DEF trim_whitespace
<1> HIDE DEF solid
<1>5. Min(solid) \in solid /\ \A y \in solid : Min(solid) <= y
  BY <1>3, MinOfNat
<1>6. Max(solid) \in solid /\ \A y \in solid : Max(solid) >= y
  BY <1>1, <1>3, MaxOfNat
<1>7. Min(solid) = i
  <2> DEFINE m == Min(solid)
  <2>1. m \in Nat /\ i <= m /\ m <= i
    BY <1>3, <1>5
  <2> HIDE DEF m
  <2>2. m = i
    BY <2>1
  <2> QED BY <2>2 DEF m
<1>8. Max(solid) = j
  <2> DEFINE m == Max(solid)
  <2>1. m \in Nat /\ j <= m /\ m <= j
    BY <1>3, <1>6
  <2> HIDE DEF m
  <2>2. m = j
    BY <2>1
  <2> QED BY <2>2 DEF m
<1> QED BY <1>3, <1>4, <1>7, <1>8

LEMMA TrimmedWhite ==
    ASSUME NEW text \in Data, \A k \in 1..Len(text) : text[k] \in White
    PROVE  trim_whitespace(text) = <<>>
<1>1. DOMAIN text = 1..Len(text)
  BY PlacesIn
<1>2. DOMAIN text \ Places(text, White) = {}
  BY <1>1 DEF Places
<1> QED BY <1>2 DEF trim_whitespace

\* A text with no white at its ends.
Solid(text) == text # <<>> => text[1] \notin White /\ text[Len(text)] \notin White

LEMMA Bytes ==
    ASSUME NEW text \in Data
    PROVE  Len(text) \in Nat /\ (text = <<>> <=> Len(text) = 0) /\ (text # <<>> => Len(text) \in 1..Len(text) /\ 1 \in 1..Len(text))
           /\ text \in Seq(Byte) /\ DOMAIN text = 1..Len(text)
<1>1. Len(text) \in Nat /\ text \in Seq(Byte) /\ DOMAIN text = 1..Len(text)
  BY LenProperties DEF Data
<1>2. text = <<>> <=> Len(text) = 0
  BY <1>1, EmptySeq
<1>3. Len(text) # 0 => Len(text) \in 1..Len(text) /\ 1 \in 1..Len(text)
  BY <1>1
<1> QED BY <1>1, <1>2, <1>3

LEMMA WholePart ==
    ASSUME NEW text \in Data
    PROVE  SubSeq(text, 1, Len(text)) = text
<1> DEFINE x == SubSeq(text, 1, Len(text))
<1>1. Len(text) \in Nat /\ 1 \in Nat \ {0} /\ Len(text) <= Len(text)
  BY Bytes
<1>2. x \in Data /\ Len(x) = (IF 1 <= Len(text) THEN Len(text) - 1 + 1 ELSE 0)
      /\ \A i \in 1..(Len(text) - 1 + 1) : x[i] = text[1 + i - 1]
  BY <1>1, PartBytes
<1> HIDE DEF x
<1>3. Len(x) = Len(text) /\ \A i \in 1..Len(x) : x[i] = text[i]
  <2>1. Len(x) = Len(text) /\ Len(text) - 1 + 1 = Len(text)
    BY <1>1, <1>2
  <2>2. ASSUME NEW i \in 1..Len(text) PROVE x[i] = text[i]
    <3>1. 1 + i - 1 = i
      BY <1>1
    <3> QED BY <1>2, <2>1, <3>1
  <2> QED BY <2>1, <2>2
<1>4. x = text
  BY <1>2, <1>3, SameText
<1> QED BY <1>4 DEF x

\* Trimming leaves a text of this kind and white after it: the text.
LEMMA TrimmedLine ==
    ASSUME NEW m \in Data, NEW w \in Data, m # <<>>, Solid(m), \A k \in 1..Len(w) : w[k] \in White
    PROVE  trim_whitespace(m \o w) = m
<1> DEFINE text == m \o w
           l == Len(m)
<1>1. /\ text \in Data /\ Len(text) = l + Len(w) /\ l \in Nat /\ Len(w) \in Nat
      /\ \A i \in 1..l : text[i] = m[i]
      /\ \A i \in 1..Len(w) : text[l + i] = w[i]
  BY JoinedBytes
<1>2. l \in 1..l /\ 1 \in 1..l /\ m[1] \notin White /\ m[l] \notin White
  BY Bytes DEF Solid
<1> HIDE DEF text
<1>3. trim_whitespace(text) = SubSeq(text, 1, l)
  <2>1. 1 \in 1..Len(text) /\ l \in 1..Len(text) /\ text[1] \notin White /\ text[l] \notin White
    BY <1>1, <1>2
  <2>2. ASSUME NEW k \in 1..Len(text), k < 1 \/ k > l PROVE text[k] \in White
    <3>1. k - l \in 1..Len(w) /\ k = l + (k - l)
      BY <1>1, <2>2
    <3> QED BY <1>1, <3>1
  <2> QED BY <1>1, <2>1, <2>2, TrimmedPart
<1>4. SubSeq(text, 1, l) = m
  <2> DEFINE x == SubSeq(text, 1, l)
  <2>1. 1 \in Nat \ {0} /\ l \in Nat /\ l <= Len(text) /\ 1 <= l /\ l - 1 + 1 = l
    BY <1>1, <1>2
  <2>2. x \in Data /\ Len(x) = l /\ \A i \in 1..l : x[i] = text[1 + i - 1]
    BY <1>1, <2>1, PartBytes
  <2>3. \A i \in 1..l : 1 + i - 1 = i
    BY <1>1
  <2> HIDE DEF x
  <2>4. x = m
    BY <1>1, <2>2, <2>3, SameText
  <2> QED BY <2>4 DEF x
<1> QED BY <1>3, <1>4 DEF text

LEMMA TrimmedSolid ==
    ASSUME NEW m \in Data, Solid(m)
    PROVE  trim_whitespace(m) = m
<1>1. <<>> \in Data /\ Len(<<>>) = 0
  BY EmptySeq DEF Data
<1>2. CASE m = <<>>
  <2>1. \A k \in 1..Len(m) : m[k] \in White
    BY <1>1, <1>2
  <2> QED BY <1>2, <2>1, TrimmedWhite
<1>3. CASE m # <<>>
  <2>1. m \o <<>> = m
    BY Bytes, ConcatEmptySeq
  <2>2. \A k \in 1..Len(<<>>) : <<>>[k] \in White
    BY <1>1
  <2> QED BY <1>1, <1>3, <2>1, <2>2, TrimmedLine
<1> QED BY <1>2, <1>3

LEMMA SolidTrimmed ==
    ASSUME NEW text \in Data, Trimmed(text)
    PROVE  Solid(text)
<1> DEFINE solid == DOMAIN text \ Places(text, White)
<1>1. Len(text) \in Nat /\ DOMAIN text = 1..Len(text)
  BY PlacesIn
<1>2. solid = {k \in 1..Len(text) : text[k] \notin White}
  BY <1>1 DEF Places
<1>3. solid \in SUBSET Nat /\ solid \in SUBSET (0..Len(text))
  BY <1>1, <1>2
<1>4. text = IF solid = {} THEN <<>> ELSE SubSeq(text, Min(solid), Max(solid))
  BY DEF trim_whitespace, Trimmed
<1> SUFFICES ASSUME text # <<>> PROVE text[1] \notin White /\ text[Len(text)] \notin White
  BY DEF Solid
<1> HIDE DEF solid
<1>5. solid # {}
  BY <1>4
<1>6. Min(solid) \in solid /\ Max(solid) \in solid
  BY <1>1, <1>3, <1>5, MinOfNat, MaxOfNat
<1> DEFINE a == Min(solid)
           b == Max(solid)
<1>7. a \in solid /\ b \in solid /\ text = SubSeq(text, a, b)
  BY <1>4, <1>5, <1>6
<1> HIDE DEF a, b
<1>8. a \in 1..Len(text) /\ b \in 1..Len(text) /\ text[a] \notin White /\ text[b] \notin White
  BY <1>2, <1>7
<1>9. Len(text) = IF a <= b THEN b - a + 1 ELSE 0
  <2>1. Len(SubSeq(text, a, b)) = IF a <= b THEN b - a + 1 ELSE 0
    BY <1>1, <1>8, PartOfText
  <2> QED BY <1>7, <2>1
<1>10. a = 1 /\ b = Len(text)
  BY <1>1, <1>8, <1>9
<1> QED BY <1>8, <1>10

\* A text that does not begin with white is trimmed at its end only.
LEMMA TrimmedEnd ==
    ASSUME NEW text \in Data, text # <<>>, text[1] \notin White
    PROVE  \E w \in Data : \E u \in Data :
              /\ u = trim_whitespace(text) /\ text = u \o w /\ u # <<>> /\ Solid(u)
              /\ \A k \in 1..Len(w) : w[k] \in White
<1> DEFINE solid == {k \in 1..Len(text) : text[k] \notin White}
<1>1. Len(text) \in Nat /\ 1 \in 1..Len(text)
  BY Bytes
<1>2. solid \in SUBSET (0..Len(text)) /\ 1 \in solid
  BY <1>1
<1> DEFINE j == Max(solid)
<1>3. j \in solid /\ \A y \in solid : j >= y
  <2> HIDE DEF solid
  <2> QED BY <1>1, <1>2, MaxOfNat
<1> HIDE DEF j
<1>4. j \in 1..Len(text) /\ text[j] \notin White /\ \A k \in 1..Len(text) : k > j => text[k] \in White
  BY <1>3
<1> DEFINE u == SubSeq(text, 1, j)
           w == SubSeq(text, j + 1, Len(text))
<1>5. trim_whitespace(text) = u
  <2>1. \A k \in 1..Len(text) : k < 1 \/ k > j => text[k] \in White
    BY <1>4
  <2> QED BY <1>1, <1>4, <2>1, TrimmedPart
<1>6. u \in Data /\ Len(u) = j /\ \A i \in 1..j : u[i] = text[i]
  <2>1. 1 \in Nat \ {0} /\ j \in Nat /\ j <= Len(text) /\ 1 <= j /\ j - 1 + 1 = j
    BY <1>1, <1>4
  <2>2. u \in Data /\ Len(u) = j /\ \A i \in 1..j : u[i] = text[1 + i - 1]
    BY <2>1, PartBytes
  <2>3. \A i \in 1..j : 1 + i - 1 = i
    BY <2>1
  <2> QED BY <2>2, <2>3
<1>7. w \in Data /\ Len(w) = Len(text) - j /\ \A i \in 1..(Len(text) - j) : w[i] = text[j + i]
  <2>1. j + 1 \in Nat \ {0} /\ Len(text) \in Nat /\ Len(text) <= Len(text)
        /\ Len(text) - (j + 1) + 1 = Len(text) - j
        /\ (IF j + 1 <= Len(text) THEN Len(text) - j ELSE 0) = Len(text) - j
    BY <1>1, <1>4
  <2>2. w \in Data /\ Len(w) = Len(text) - j /\ \A i \in 1..(Len(text) - j) : w[i] = text[(j + 1) + i - 1]
    BY <2>1, PartBytes
  <2>3. \A i \in 1..(Len(text) - j) : (j + 1) + i - 1 = j + i
    BY <1>1, <1>4
  <2> QED BY <2>2, <2>3
<1> HIDE DEF u, w
<1>8. text = u \o w
  <2>1. /\ u \o w \in Data /\ Len(u \o w) = Len(text)
        /\ \A i \in 1..j : (u \o w)[i] = u[i]
        /\ \A i \in 1..(Len(text) - j) : (u \o w)[j + i] = w[i]
    <3>1. j + (Len(text) - j) = Len(text)
      BY <1>1, <1>4
    <3>2. /\ u \o w \in Data /\ Len(u \o w) = Len(u) + Len(w)
          /\ \A i \in 1..Len(u) : (u \o w)[i] = u[i]
          /\ \A i \in 1..Len(w) : (u \o w)[Len(u) + i] = w[i]
      BY <1>6, <1>7, JoinedBytes
    <3> DEFINE v == u \o w
    <3> HIDE DEF v
    <3>3. /\ v \in Data /\ Len(v) = Len(text) /\ \A i \in 1..j : v[i] = u[i]
          /\ \A i \in 1..(Len(text) - j) : v[j + i] = w[i]
      BY <1>6, <1>7, <3>1, <3>2 DEF v
    <3> QED BY <3>3 DEF v
  <2>2. ASSUME NEW i \in 1..Len(text) PROVE (u \o w)[i] = text[i]
    <3>1. CASE i <= j
      <4>1. i \in 1..j
        BY <1>4, <3>1
      <4> QED BY <1>6, <2>1, <4>1
    <3>2. CASE ~ i <= j
      <4>1. i - j \in 1..(Len(text) - j) /\ j + (i - j) = i
        BY <1>1, <1>4, <3>2
      <4> QED BY <1>7, <2>1, <4>1
    <3> QED BY <3>1, <3>2
  <2> QED BY <2>1, <2>2, SameText
<1>9. u # <<>> /\ Solid(u)
  <2>1. 1 \in 1..j /\ j \in 1..j /\ j # 0
    BY <1>4
  <2>2. u # <<>>
    BY <1>6, <2>1, Bytes
  <2> QED BY <1>4, <1>6, <2>1, <2>2 DEF Solid
<1>10. ASSUME NEW k \in 1..Len(w) PROVE w[k] \in White
  <2>1. j + k \in 1..Len(text) /\ j + k > j /\ k \in 1..(Len(text) - j)
    BY <1>1, <1>4, <1>7
  <2> QED BY <1>4, <1>7, <2>1
<1> QED BY <1>5, <1>6, <1>7, <1>8, <1>9, <1>10

\* What stands before the first of some bytes, and after it.
LEMMA CutThere ==
    ASSUME NEW a \in Data, NEW b \in Byte, NEW c \in Data, NEW bytes, b \in bytes, Places(a, bytes) = {}
    PROVE  /\ Before(a \o <<b>> \o c, bytes) = a /\ After(a \o <<b>> \o c, bytes) = c
           /\ Places(a \o <<b>> \o c, bytes) # {}
<1> DEFINE d == a \o <<b>>
           text == d \o c
           l == Len(a)
           S == Places(text, bytes)
<1>1. <<b>> \in Data /\ Len(<<b>>) = 1 /\ <<b>>[1] = b
  BY DEF Data
<1>2. d \in Data /\ Len(d) = l + 1 /\ l \in Nat /\ (\A i \in 1..l : d[i] = a[i]) /\ d[l + 1] = b
  <2>1. 1 \in 1..1
    OBVIOUS
  <2> QED BY <1>1, <2>1, JoinedBytes
<1> HIDE DEF d, l
<1>3. /\ text \in Data /\ Len(text) = l + 1 + Len(c) /\ Len(c) \in Nat
      /\ \A i \in 1..(l + 1) : text[i] = d[i]
      /\ \A i \in 1..Len(c) : text[l + 1 + i] = c[i]
  <2>1. /\ text \in Data /\ Len(text) = Len(d) + Len(c) /\ Len(c) \in Nat
        /\ \A i \in 1..Len(d) : text[i] = d[i]
        /\ \A i \in 1..Len(c) : text[Len(d) + i] = c[i]
    BY <1>2, JoinedBytes
  <2> HIDE DEF text
  <2> QED BY <1>2, <2>1
<1> HIDE DEF text
<1>4. \A i \in 1..l : text[i] = a[i] /\ a[i] \notin bytes
  <2>1. \A i \in 1..l : i \in DOMAIN a
    BY PlacesIn DEF l
  <2>2. \A i \in 1..l : i \in 1..(l + 1)
    BY <1>2
  <2> QED BY <1>2, <1>3, <2>1, <2>2 DEF Places
<1>5. l + 1 \in 1..(l + 1) /\ text[l + 1] = b /\ l + 1 \in 1..Len(text)
  BY <1>2, <1>3
<1>6. S \in SUBSET (1..Len(text)) /\ l + 1 \in S /\ \A i \in S : l + 1 <= i
  <2>1. DOMAIN text = 1..Len(text)
    BY <1>3, PlacesIn
  <2>2. ASSUME NEW i \in S PROVE l + 1 <= i
    <3>1. i \in 1..Len(text) /\ i \notin 1..l
      BY <1>4, <2>1, <2>2 DEF Places
    <3> QED BY <1>2, <1>3, <3>1
  <2> QED BY <1>5, <2>1, <2>2 DEF Places
<1> HIDE DEF S
<1>7. Min(S) = l + 1
  <2>1. S \in SUBSET Nat /\ S # {}
    BY <1>3, <1>6
  <2>2. Min(S) \in S /\ \A y \in S : Min(S) <= y
    BY <2>1, MinOfNat
  <2> DEFINE m == Min(S)
  <2>3. m \in S /\ \A y \in S : m <= y
    BY <2>2
  <2> HIDE DEF m
  <2>4. m = l + 1
    BY <1>2, <1>6, <2>1, <2>3
  <2> QED BY <2>4 DEF m
<1>8. Before(text, bytes) = SubSeq(text, 1, l) /\ After(text, bytes) = SubSeq(text, l + 2, Len(text))
  <2>1. S # {} /\ Min(S) - 1 = l /\ Min(S) + 1 = l + 2
    BY <1>2, <1>6, <1>7
  <2> QED BY <2>1 DEF Before, After, S
<1>9. SubSeq(text, 1, l) = a
  <2> DEFINE x == SubSeq(text, 1, l)
  <2>1. /\ 1 \in Nat \ {0} /\ l \in Nat /\ l <= Len(text) /\ l - 1 + 1 = l
        /\ (IF 1 <= l THEN l - 1 + 1 ELSE 0) = l
    BY <1>2, <1>3
  <2>2. x \in Data /\ Len(x) = l /\ \A i \in 1..l : x[i] = text[1 + i - 1]
    BY <1>3, <2>1, PartBytes
  <2>3. \A i \in 1..l : 1 + i - 1 = i
    BY <1>2
  <2> HIDE DEF x
  <2>4. x = a
    BY <1>4, <2>2, <2>3, SameText DEF l
  <2> QED BY <2>4 DEF x
<1>10. SubSeq(text, l + 2, Len(text)) = c
  <2> DEFINE x == SubSeq(text, l + 2, Len(text))
             n == Len(c)
  <2>1. /\ l + 2 \in Nat \ {0} /\ Len(text) \in Nat /\ Len(text) <= Len(text)
        /\ Len(text) - (l + 2) + 1 = n
        /\ (IF l + 2 <= Len(text) THEN n ELSE 0) = n
    BY <1>2, <1>3
  <2>2. x \in Data /\ Len(x) = n /\ \A i \in 1..n : x[i] = text[(l + 2) + i - 1]
    BY <1>3, <2>1, PartBytes
  <2>3. \A i \in 1..n : (l + 2) + i - 1 = l + 1 + i
    BY <1>2, <1>3
  <2> HIDE DEF x
  <2>4. x = c
    BY <1>3, <2>2, <2>3, SameText
  <2> QED BY <2>4 DEF x
<1> QED BY <1>6, <1>8, <1>9, <1>10 DEF text, d, S

\* The same where nothing follows.
LEMMA CutLast ==
    ASSUME NEW a \in Data, NEW b \in Byte, NEW bytes, b \in bytes, Places(a, bytes) = {}
    PROVE  Before(a \o <<b>>, bytes) = a /\ Places(a \o <<b>>, bytes) # {}
<1> DEFINE e == <<>>
           t == a \o <<b>>
<1>1. e \in Data
  BY EmptySeq DEF Data
<1>2. t \in Data /\ t \o e = t
  <2>1. <<b>> \in Data
    BY DEF Data
  <2>2. t \in Data
    BY <2>1, JoinedBytes
  <2> HIDE DEF t
  <2> QED BY <2>2, Bytes, ConcatEmptySeq
<1> HIDE DEF e
<1>3. Before(a \o <<b>> \o e, bytes) = a /\ Places(a \o <<b>> \o e, bytes) # {}
  BY <1>1, CutThere
<1> QED BY <1>2, <1>3

---------------------------------------------------------------------------
(* One line of the file. *)

\* What the parser keeps from one line to the next: the section and the configuration.
Reading == [section : Data, config : Config]

LEMMA SectionText ==
    ASSUME NEW line \in Data, line # <<>>, Head(line) = Opening, NEW section \in Data
    PROVE  SectionOf(line, section) \in Data
<1> DEFINE S == Places(line, {Closing})
           before == Before(line, {Closing})
<1>1. CASE S = {}
  BY <1>1 DEF SectionOf
<1>2. CASE S # {}
  <2>1. Len(line) \in Nat /\ S \in SUBSET (1..Len(line))
    BY PlacesIn
  <2>2. ~ 1 \in S
    BY DEF Places, Opening, Closing
  <2> HIDE DEF S
  <2>3. Min(S) \in S
    <3>1. S \in SUBSET Nat
      BY <2>1
    <3> QED BY <1>2, <3>1, MinOfNat
  <2>4. Min(S) \in 2..Len(line)
    <3>1. Min(S) \in 1..Len(line) /\ Min(S) # 1
      BY <2>1, <2>2, <2>3, Zenon
    <3> QED BY <2>1, <3>1
  <2>5. before = SubSeq(line, 1, Min(S) - 1)
    BY <1>2 DEF Before, S
  <2>6. before \in Data /\ before # <<>>
    <3> DEFINE i == Min(S)
    <3> HIDE DEF i
    <3>1. i - 1 \in Int /\ i - 1 <= Len(line) /\ i - 1 >= 1 /\ 1 \in Nat \ {0}
      BY <2>1, <2>4 DEF i
    <3>2. SubSeq(line, 1, i - 1) \in Data /\ Len(SubSeq(line, 1, i - 1)) = i - 1
      BY <3>1, PartOfText
    <3>3. Len(SubSeq(line, 1, i - 1)) # 0
      BY <3>1, <3>2
    <3> QED BY <2>5, <3>2, <3>3, EmptySeq DEF i
  <2> HIDE DEF before
  <2>7. Tail(before) \in Data
    BY <2>6, HeadTailProperties DEF Data
  <2>8. trim_whitespace(safe_strncpy(Tail(before), NameLength)) \in Data
    <3>1. safe_strncpy(Tail(before), NameLength) \in Data
      BY <2>7, CopiedText, ConfigFileAssumption
    <3> QED BY <3>1, TrimmedText
  <2> QED BY <1>2, <2>8 DEF SectionOf, S, before
<1> QED BY <1>1, <1>2

\* One turn of the loop.
LEMMA ParsedFits ==
    ASSUME NEW s \in Reading, NEW text \in Data
    PROVE  Parsed(s, text) \in Reading
<1> DEFINE line == trim_whitespace(text)
           key == trim_whitespace(Before(line, {Equals}))
           added == Added(s.config, Entry(s.section, key, ValueOf(line)))
<1>1. s.section \in Data /\ s.config \in Config /\ s = [section |-> s.section, config |-> s.config]
  BY DEF Reading
<1>2. line \in Data
  BY TrimmedText
<1> HIDE DEF line
<1>3. key \in Data
  BY <1>2, CutText, TrimmedText
<1> HIDE DEF key
<1>4. ValueOf(line) \in Data
  <2>1. After(line, {Equals}) \in Data
    BY <1>2, CutText
  <2>2. ASSUME NEW t \in Data PROVE Unquoted(remove_inline_comment(t)) \in Data
    <3>1. Before(t, {Hash, Semicolon}) \in Data
      BY CutText
    <3>2. remove_inline_comment(t) \in Data
      BY <3>1, TrimmedText DEF remove_inline_comment
    <3> QED BY <3>2, UnquotedText
  <2> QED BY <2>1, <2>2 DEF ValueOf
<1>5. Entry(s.section, key, ValueOf(line)) \in FitEntry
  BY <1>1, <1>3, <1>4, EntryFits
<1>6. added \in Config
  BY <1>1, <1>5, AddedFits
<1> HIDE DEF added
<1>7. line # <<>> /\ Head(line) = Opening => SectionOf(line, s.section) \in Data
  BY <1>1, <1>2, SectionText
<1>8. Parsed(s, text) = CASE line = <<>> \/ Head(line) \in {Hash, Semicolon} -> s
                         [] line # <<>> /\ Head(line) = Opening ->
                               [section |-> SectionOf(line, s.section), config |-> s.config]
                         [] OTHER -> IF Places(line, {Equals}) = {} THEN s
                                     ELSE [section |-> s.section, config |-> added]
  <2>1. /\ [s EXCEPT !.section = SectionOf(line, @)] =
              [section |-> SectionOf(line, s.section), config |-> s.config]
        /\ [s EXCEPT !.config = Added(@, Entry(s.section, key, ValueOf(line)))] =
              [section |-> s.section, config |-> added]
    BY <1>1 DEF added
  <2> QED BY <2>1, Zenon DEF Parsed, line, key
<1>9. CASE line = <<>> \/ Head(line) \in {Hash, Semicolon}
  <2>1. ~ (line # <<>> /\ Head(line) = Opening)
    BY <1>9 DEF Opening, Hash, Semicolon
  <2>2. Parsed(s, text) = s
    BY <1>8, <1>9, <2>1
  <2> QED BY <2>2
<1>10. CASE line # <<>> /\ Head(line) = Opening
  <2>1. Head(line) \notin {Hash, Semicolon}
    BY <1>10 DEF Opening, Hash, Semicolon
  <2>2. Parsed(s, text) = [section |-> SectionOf(line, s.section), config |-> s.config]
    BY <1>8, <1>10, <2>1
  <2> QED BY <1>1, <1>7, <1>10, <2>2 DEF Reading
<1>11. CASE line # <<>> /\ Head(line) \notin {Hash, Semicolon} /\ Head(line) # Opening
  <2>1. Parsed(s, text) \in {s, [section |-> s.section, config |-> added]}
    BY <1>8, <1>11
  <2> QED BY <1>1, <1>6, <2>1 DEF Reading
<1> QED BY <1>9, <1>10, <1>11

\* The section stays, and the entry of a line with an equals sign is added.
Noted(s, line) ==
    [section |-> s.section,
     config |-> Added(s.config, Entry(s.section, trim_whitespace(Before(line, {Equals})), ValueOf(line)))]

\* What a line makes of the section and of the configuration so far.
LEMMA ParsedCases ==
    ASSUME NEW s \in Reading, NEW text \in Data, NEW line, line = trim_whitespace(text)
    PROVE  /\ line = <<>> \/ Head(line) \in {Hash, Semicolon} => Parsed(s, text) = s
           /\ line # <<>> /\ Head(line) = Opening =>
                 Parsed(s, text) = [section |-> SectionOf(line, s.section), config |-> s.config]
           /\ line # <<>> /\ Head(line) \notin {Hash, Semicolon, Opening} =>
                 Parsed(s, text) = IF Places(line, {Equals}) = {} THEN s ELSE Noted(s, line)
<1> DEFINE key == trim_whitespace(Before(line, {Equals}))
           added == Added(s.config, Entry(s.section, key, ValueOf(line)))
<1>1. s = [section |-> s.section, config |-> s.config]
  BY DEF Reading
<1>2. Parsed(s, text) = CASE line = <<>> \/ Head(line) \in {Hash, Semicolon} -> s
                         [] line # <<>> /\ Head(line) = Opening ->
                               [section |-> SectionOf(line, s.section), config |-> s.config]
                         [] OTHER -> IF Places(line, {Equals}) = {} THEN s
                                     ELSE [section |-> s.section, config |-> added]
  <2>1. /\ [s EXCEPT !.section = SectionOf(line, @)] =
              [section |-> SectionOf(line, s.section), config |-> s.config]
        /\ [s EXCEPT !.config = Added(@, Entry(s.section, key, ValueOf(line)))] =
              [section |-> s.section, config |-> added]
    BY <1>1
  <2> QED BY <2>1, Zenon DEF Parsed
<1> HIDE DEF added
<1> DEFINE opened == [section |-> SectionOf(line, s.section), config |-> s.config]
           noted == IF Places(line, {Equals}) = {} THEN s ELSE [section |-> s.section, config |-> added]
<1>6. Parsed(s, text) = CASE line = <<>> \/ Head(line) \in {Hash, Semicolon} -> s
                         [] line # <<>> /\ Head(line) = Opening -> opened
                         [] OTHER -> noted
  BY <1>2
<1> HIDE DEF opened, noted
<1>3. line = <<>> \/ Head(line) \in {Hash, Semicolon} => Parsed(s, text) = s
  <2>1. line = <<>> \/ Head(line) \in {Hash, Semicolon} => ~ (line # <<>> /\ Head(line) = Opening)
    BY DEF Opening, Hash, Semicolon
  <2> QED BY <1>6, <2>1
<1>4. line # <<>> /\ Head(line) = Opening => Parsed(s, text) = opened
  <2>1. line # <<>> /\ Head(line) = Opening => ~ (line = <<>> \/ Head(line) \in {Hash, Semicolon})
    BY DEF Opening, Hash, Semicolon
  <2> QED BY <1>6, <2>1
<1>5. line # <<>> /\ Head(line) \notin {Hash, Semicolon, Opening} => Parsed(s, text) = noted
  BY <1>6
<1> QED BY <1>3, <1>4, <1>5 DEF opened, noted, added, Noted

LEMMA BlankLine ==
    ASSUME NEW s \in Reading
    PROVE  <<Newline>> \in Data /\ Parsed(s, <<Newline>>) = s
<1>1. <<Newline>> \in Data /\ \A k \in 1..Len(<<Newline>>) : <<Newline>>[k] \in White
  BY DEF Data, Byte, Newline, White
<1>2. trim_whitespace(<<Newline>>) = <<>>
  BY <1>1, TrimmedWhite
<1> QED BY <1>1, <1>2, ParsedCases

\* One byte and a text.
LEMMA ByteFirst ==
    ASSUME NEW b \in Byte, NEW x \in Data
    PROVE  /\ <<b>> \o x \in Data /\ Len(<<b>> \o x) = 1 + Len(x) /\ <<b>> \o x # <<>>
           /\ Head(<<b>> \o x) = b /\ (<<b>> \o x)[1] = b /\ Tail(<<b>> \o x) = x
           /\ \A i \in 1..Len(x) : (<<b>> \o x)[1 + i] = x[i]
<1>1. <<b>> \in Data /\ Len(<<b>>) = 1 /\ <<b>>[1] = b /\ 1 \in 1..1
  BY DEF Data
<1>2. /\ <<b>> \o x \in Data /\ Len(<<b>> \o x) = 1 + Len(x) /\ Len(x) \in Nat
      /\ (<<b>> \o x)[1] = b
      /\ \A i \in 1..Len(x) : (<<b>> \o x)[1 + i] = x[i]
  BY <1>1, JoinedBytes
<1> DEFINE t == <<b>> \o x
<1> HIDE DEF t
<1>3. /\ t \in Data /\ Len(t) = 1 + Len(x) /\ Len(x) \in Nat /\ t[1] = b
      /\ \A i \in 1..Len(x) : t[1 + i] = x[i]
  BY <1>2 DEF t
<1>4. t # <<>>
  BY <1>3, Bytes
<1>5. Head(t) = b /\ Tail(t) \in Data /\ Len(Tail(t)) = Len(x) /\ \A i \in 1..Len(x) : Tail(t)[i] = x[i]
  <2>1. t \in Seq(Byte)
    BY <1>3 DEF Data
  <2>2. Head(t) = t[1] /\ Tail(t) \in Seq(Byte) /\ Len(Tail(t)) = Len(t) - 1
        /\ \A i \in 1..Len(Tail(t)) : Tail(t)[i] = t[i + 1]
    BY <1>4, <2>1, HeadTailProperties
  <2>3. Len(Tail(t)) = Len(x)
    BY <1>3, <2>2
  <2>4. \A i \in 1..Len(x) : i + 1 = 1 + i
    BY <1>3
  <2> QED BY <1>3, <2>2, <2>3, <2>4 DEF Data
<1>6. Tail(t) = x
  BY <1>5, SameText
<1> QED BY <1>3, <1>4, <1>5, <1>6 DEF t

\* A text and one byte.
LEMMA ByteLast ==
    ASSUME NEW a \in Data, NEW b \in Byte
    PROVE  /\ a \o <<b>> \in Data /\ Len(a \o <<b>>) = Len(a) + 1 /\ Len(a) \in Nat
           /\ \A i \in 1..Len(a) : (a \o <<b>>)[i] = a[i]
           /\ (a \o <<b>>)[Len(a) + 1] = b
<1>1. <<b>> \in Data /\ Len(<<b>>) = 1 /\ <<b>>[1] = b /\ 1 \in 1..1
  BY DEF Data
<1> DEFINE c == <<b>>
<1>2. c \in Data /\ Len(c) = 1 /\ c[1] = b
  BY <1>1
<1> HIDE DEF c
<1>3. /\ a \o c \in Data /\ Len(a \o c) = Len(a) + Len(c) /\ Len(a) \in Nat
      /\ \A i \in 1..Len(a) : (a \o c)[i] = a[i]
      /\ \A i \in 1..Len(c) : (a \o c)[Len(a) + i] = c[i]
  BY <1>2, JoinedBytes
<1>4. (a \o c)[Len(a) + 1] = b
  <2>1. 1 \in 1..Len(c)
    BY <1>2
  <2> QED BY <1>2, <1>3, <2>1
<1> QED BY <1>2, <1>3, <1>4 DEF c

\* A header that is complete names the section.
LEMMA HeaderLine ==
    ASSUME NEW s \in Reading, NEW sec \in Data, Solid(sec), Places(sec, {Closing}) = {}, Len(sec) < NameLength
    PROVE  Parsed(s, <<Opening>> \o sec \o <<Closing, Newline>>) = [section |-> sec, config |-> s.config]
<1> DEFINE m == <<Opening>> \o sec \o <<Closing>>
           o == <<Opening>> \o sec
<1>1. Opening \in Byte /\ Closing \in Byte /\ Newline \in Byte
  BY DEF Byte, Opening, Closing, Newline
<1>2. o \in Data /\ Len(o) = 1 + Len(sec) /\ o # <<>> /\ o[1] = Opening /\ Tail(o) = sec /\ Len(sec) \in Nat
      /\ \A i \in 1..Len(sec) : o[1 + i] = sec[i]
  BY <1>1, ByteFirst, Bytes
<1>3. <<Closing>> \in Data /\ <<Newline>> \in Data /\ <<Closing, Newline>> = <<Closing>> \o <<Newline>>
      /\ Len(<<Closing>>) = 1 /\ <<Closing>>[1] = Closing /\ Len(<<Newline>>) = 1 /\ <<Newline>>[1] = Newline
  BY <1>1 DEF Data
<1>4. o \o <<Closing, Newline>> = m \o <<Newline>>
  <2>1. o \in Seq(Byte) /\ <<Closing>> \in Seq(Byte) /\ <<Newline>> \in Seq(Byte)
    BY <1>2, <1>3 DEF Data
  <2>2. (o \o <<Closing>>) \o <<Newline>> = o \o (<<Closing>> \o <<Newline>>)
    <3> HIDE DEF o
    <3> QED BY <2>1, ConcatAssociative
  <2> QED BY <1>3, <2>2
<1> HIDE DEF o
<1>5. m \in Data /\ Len(m) = Len(sec) + 2 /\ m[1] = Opening /\ m[Len(m)] = Closing
  <2>1. /\ o \o <<Closing>> \in Data /\ Len(o \o <<Closing>>) = Len(o) + 1
        /\ \A i \in 1..Len(o) : (o \o <<Closing>>)[i] = o[i]
        /\ (o \o <<Closing>>)[Len(o) + 1] = Closing
    BY <1>1, <1>2, ByteLast
  <2>2. m = o \o <<Closing>>
    BY DEF o
  <2> HIDE DEF m
  <2>3. 1 \in 1..Len(o) /\ Len(o) + 1 = Len(m) /\ Len(m) = Len(sec) + 2
    BY <1>2, <2>1, <2>2
  <2>4. m \in Data /\ m[1] = o[1] /\ m[Len(m)] = Closing
    BY <2>1, <2>2, <2>3
  <2> QED BY <1>2, <2>3, <2>4
<1>6. m = o \o <<Closing>>
  BY DEF o
<1> DEFINE text == o \o <<Closing, Newline>>
<1>7. text = m \o <<Newline>>
  BY <1>4
<1> HIDE DEF m
<1>8. m # <<>> /\ Solid(m) /\ Head(m) = Opening
  <2>1. m # <<>>
    BY <1>2, <1>5, Bytes
  <2>2. Head(m) = m[1]
    BY <2>1, <1>5, HeadTailProperties DEF Data
  <2> QED BY <1>5, <2>1, <2>2 DEF Solid, White, Opening, Closing
<1>9. trim_whitespace(text) = m
  <2>1. \A k \in 1..Len(<<Newline>>) : <<Newline>>[k] \in White
    BY <1>3 DEF White, Newline
  <2> QED BY <1>3, <1>5, <1>7, <1>8, <2>1, TrimmedLine
<1>10. text \in Data
  BY <1>3, <1>5, <1>7, JoinedBytes
<1>11. Parsed(s, text) = [section |-> SectionOf(m, s.section), config |-> s.config]
  <2> HIDE DEF text
  <2> QED BY <1>8, <1>9, <1>10, ParsedCases
<1>12. SectionOf(m, s.section) = sec
  <2>1. Places(o, {Closing}) = {}
    <3>1. ASSUME NEW i \in DOMAIN o, o[i] = Closing PROVE FALSE
      <4>1. i \in 1..(1 + Len(sec))
        BY <1>2, <3>1, Bytes
      <4>2. CASE i = 1
        BY <1>2, <3>1, <4>2 DEF Opening, Closing
      <4>3. CASE i # 1
        <5>1. i - 1 \in 1..Len(sec) /\ 1 + (i - 1) = i
          BY <1>2, <4>1, <4>3
        <5>2. sec[i - 1] = Closing /\ i - 1 \in DOMAIN sec
          BY <1>2, <3>1, <5>1, Bytes
        <5> QED BY <5>2 DEF Places
      <4> QED BY <4>2, <4>3
    <3> QED BY <3>1 DEF Places
  <2>3. Before(m, {Closing}) = o /\ Places(m, {Closing}) # {}
    <3>1. Closing \in {Closing}
      OBVIOUS
    <3>2. Before(o \o <<Closing>>, {Closing}) = o /\ Places(o \o <<Closing>>, {Closing}) # {}
      BY <1>1, <1>2, <2>1, <3>1, CutLast
    <3> QED BY <1>6, <3>2
  <2>4. safe_strncpy(sec, NameLength) = sec /\ trim_whitespace(sec) = sec
    BY TrimmedSolid DEF safe_strncpy
  <2> QED BY <1>2, <2>3, <2>4 DEF SectionOf
<1> QED BY <1>11, <1>12 DEF text, o

\* A key and a value that are read back as they are.
Readable(key, value) ==
    /\ key \in Data /\ value \in Data /\ Solid(key) /\ Solid(value)
    /\ Places(key, {Equals}) = {} /\ Places(value, {Hash, Semicolon, Quote}) = {}
    /\ key # <<>> => Head(key) \notin {Hash, Semicolon, Opening}

LEMMA PairText ==
    ASSUME NEW key, NEW value, Readable(key, value), NEW w \in Data, \A k \in 1..Len(w) : w[k] \in White
    PROVE  LET line == key \o <<Equals>> \o value
           IN  /\ line \in Data /\ line \o w \in Data /\ trim_whitespace(line \o w) = line /\ line # <<>>
               /\ Head(line) \notin {Hash, Semicolon, Opening}
               /\ Before(line, {Equals}) = key /\ After(line, {Equals}) = value
               /\ Places(line, {Equals}) # {}
<1> DEFINE e == key \o <<Equals>>
           line == e \o value
           k == Len(key)
           v == Len(value)
<1>1. /\ key \in Data /\ value \in Data /\ Solid(key) /\ Solid(value) /\ Equals \in Byte
      /\ Places(key, {Equals}) = {} /\ (key # <<>> => Head(key) \notin {Hash, Semicolon, Opening})
  BY DEF Readable, Byte, Equals
<1>2. e \in Data /\ Len(e) = k + 1 /\ k \in Nat /\ v \in Nat /\ (\A i \in 1..k : e[i] = key[i]) /\ e[k + 1] = Equals
  BY <1>1, ByteLast, Bytes
<1> HIDE DEF e, k, v
<1>3. /\ line \in Data /\ Len(line) = k + 1 + v
      /\ \A i \in 1..(k + 1) : line[i] = e[i]
      /\ \A i \in 1..v : line[k + 1 + i] = value[i]
  <2>1. /\ line \in Data /\ Len(line) = Len(e) + Len(value)
        /\ \A i \in 1..Len(e) : line[i] = e[i]
        /\ \A i \in 1..Len(value) : line[Len(e) + i] = value[i]
    BY <1>1, <1>2, JoinedBytes
  <2> HIDE DEF line
  <2> QED BY <1>2, <2>1 DEF v
<1>4. Before(line, {Equals}) = key /\ After(line, {Equals}) = value /\ Places(line, {Equals}) # {}
  <2>1. Equals \in {Equals}
    OBVIOUS
  <2>2. /\ Before(key \o <<Equals>> \o value, {Equals}) = key
        /\ After(key \o <<Equals>> \o value, {Equals}) = value
        /\ Places(key \o <<Equals>> \o value, {Equals}) # {}
    <3> DEFINE S == {Equals}
    <3>1. Equals \in S /\ Places(key, S) = {}
      BY <1>1
    <3> HIDE DEF S
    <3>2. /\ Before(key \o <<Equals>> \o value, S) = key
          /\ After(key \o <<Equals>> \o value, S) = value
          /\ Places(key \o <<Equals>> \o value, S) # {}
      BY <1>1, <3>1, CutThere
    <3> QED BY <3>2 DEF S
  <2> QED BY <2>2 DEF e
<1> HIDE DEF line
<1>5. line # <<>> /\ Head(line) = line[1]
  <2>1. line # <<>>
    BY <1>2, <1>3, Bytes
  <2> QED BY <1>3, <2>1, HeadTailProperties DEF Data
<1>6. line[1] \notin {Hash, Semicolon, Opening} /\ line[1] \notin White
  <2>1. 1 \in 1..(k + 1) /\ line[1] = e[1]
    BY <1>2, <1>3
  <2>2. CASE k = 0
    <3>1. line[1] = Equals
      BY <1>2, <2>1, <2>2
    <3> QED BY <3>1 DEF Equals, Hash, Semicolon, Opening, White
  <2>3. CASE k # 0
    <3>1. key # <<>> /\ 1 \in 1..k
      BY <1>1, <1>2, <2>3, Bytes DEF k
    <3>2. Head(key) = key[1] /\ key[1] \notin White
      BY <1>1, <3>1, HeadTailProperties DEF Data, Solid
    <3> QED BY <1>1, <1>2, <2>1, <3>1, <3>2
  <2> QED BY <2>2, <2>3
<1>7. line[Len(line)] \notin White
  <2>1. CASE v = 0
    <3>1. k + 1 \in 1..(k + 1) /\ Len(line) = k + 1
      BY <1>2, <1>3, <2>1
    <3>2. line[Len(line)] = Equals
      BY <1>2, <1>3, <3>1
    <3> QED BY <3>2 DEF Equals, White
  <2>2. CASE v # 0
    <3>1. value # <<>> /\ v \in 1..v
      BY <1>1, <1>2, <2>2, Bytes DEF v
    <3>2. line[Len(line)] = value[v]
      BY <1>2, <1>3, <3>1
    <3>3. value[v] \notin White
      BY <1>1, <3>1 DEF Solid, v
    <3> QED BY <3>2, <3>3
  <2> QED BY <2>1, <2>2
<1>8. Solid(line)
  BY <1>6, <1>7 DEF Solid
<1>9. line \o w \in Data /\ trim_whitespace(line \o w) = line
  BY <1>3, <1>5, <1>8, TrimmedLine, JoinedBytes
<1> QED BY <1>3, <1>4, <1>5, <1>6, <1>9 DEF line, e

\* An entry's line adds the entry.
LEMMA PairLine ==
    ASSUME NEW s \in Reading, NEW key, NEW value, Readable(key, value),
           NEW w \in Data, \A k \in 1..Len(w) : w[k] \in White
    PROVE  Parsed(s, key \o <<Equals>> \o value \o w) =
               [section |-> s.section, config |-> Added(s.config, Entry(s.section, key, value))]
<1> DEFINE line == key \o <<Equals>> \o value
<1>1. /\ line \in Data /\ line \o w \in Data /\ trim_whitespace(line \o w) = line /\ line # <<>>
      /\ Head(line) \notin {Hash, Semicolon, Opening}
      /\ Before(line, {Equals}) = key /\ After(line, {Equals}) = value
      /\ Places(line, {Equals}) # {}
  BY PairText
<1> HIDE DEF line
<1>2. Parsed(s, line \o w) = Noted(s, line)
  <2> DEFINE text == line \o w
  <2>1. text \in Data /\ line = trim_whitespace(text)
    BY <1>1
  <2> HIDE DEF text
  <2>2. Parsed(s, text) = Noted(s, line)
    <3>1. Places(line, {Equals}) # {} /\ line # <<>> /\ Head(line) \notin {Hash, Semicolon, Opening}
      BY <1>1
    <3> HIDE DEF Noted
    <3>2. Parsed(s, text) = IF Places(line, {Equals}) = {} THEN s ELSE Noted(s, line)
      BY <2>1, <3>1, ParsedCases, Zenon
    <3> QED BY <3>1, <3>2
  <2> QED BY <2>2 DEF text
<1>3. trim_whitespace(key) = key /\ trim_whitespace(value) = value
  BY TrimmedSolid DEF Readable
<1>4. ValueOf(line) = value
  <2>1. Places(value, {Hash, Semicolon}) = {} /\ Places(value, {Quote}) = {}
    BY DEF Readable, Places
  <2>2. Before(value, {Hash, Semicolon}) = value
    BY <2>1 DEF Before
  <2>3. Unquoted(value) = value
    BY <2>1 DEF Unquoted
  <2> QED BY <1>1, <1>3, <2>2, <2>3 DEF ValueOf, remove_inline_comment
<1> QED BY <1>1, <1>2, <1>3, <1>4 DEF line, Noted

\* A header without its end, whatever it holds, adds nothing.
LEMMA OpenHeader ==
    ASSUME NEW s \in Reading, NEW x \in Data
    PROVE  Parsed(s, <<Opening>> \o x).config = s.config
<1> DEFINE text == <<Opening>> \o x
<1>1. text \in Data /\ text # <<>> /\ text[1] = Opening
  <2>1. Opening \in Byte
    BY DEF Byte, Opening
  <2> QED BY <2>1, ByteFirst
<1> HIDE DEF text
<1>2. text[1] \notin White
  BY <1>1 DEF White, Opening
<1>3. PICK w \in Data, u \in Data : u = trim_whitespace(text) /\ text = u \o w /\ u # <<>>
  BY <1>1, <1>2, TrimmedEnd
<1>4. u[1] = text[1]
  <2>1. 1 \in 1..Len(u)
    BY <1>3, Bytes
  <2>2. \A i \in 1..Len(u) : (u \o w)[i] = u[i]
    BY <1>3, JoinedBytes
  <2>3. (u \o w)[1] = u[1]
    BY <2>1, <2>2
  <2> QED BY <1>3, <2>3
<1>5. Head(u) = Opening
  BY <1>1, <1>3, <1>4, HeadTailProperties DEF Data
<1>6. Parsed(s, text) = [section |-> SectionOf(u, s.section), config |-> s.config]
  BY <1>1, <1>3, <1>5, ParsedCases
<1> QED BY <1>6 DEF text

\* Nor does a line without an equals sign.
LEMMA NoEquals ==
    ASSUME NEW s \in Reading, NEW text \in Data, Places(text, {Equals}) = {}
    PROVE  Parsed(s, text).config = s.config
<1> DEFINE line == trim_whitespace(text)
           solid == DOMAIN text \ Places(text, White)
<1>1. Places(line, {Equals}) = {}
  <2>1. CASE solid = {}
    <3>1. line = <<>>
      BY <2>1 DEF trim_whitespace
    <3> QED BY <3>1 DEF Places
  <2>2. CASE solid # {}
    <3>1. Len(text) \in Nat /\ DOMAIN text = 1..Len(text) /\ solid \in SUBSET (1..Len(text))
      BY PlacesIn
    <3>2. line = SubSeq(text, Min(solid), Max(solid))
      BY <2>2 DEF trim_whitespace
    <3> HIDE DEF solid, line
    <3>3. solid \in SUBSET Nat /\ solid \in SUBSET (0..Len(text))
      BY <3>1
    <3>4. Min(solid) \in solid /\ Max(solid) \in solid
      BY <2>2, <3>1, <3>3, MinOfNat, MaxOfNat
    <3> DEFINE a == Min(solid)
               b == Max(solid)
    <3>5. a \in 1..Len(text) /\ b \in 1..Len(text) /\ line = SubSeq(text, a, b)
      BY <3>1, <3>2, <3>4
    <3> HIDE DEF a, b
    <3>6. /\ line \in Data /\ Len(line) = (IF a <= b THEN b - a + 1 ELSE 0)
          /\ \A i \in 1..(b - a + 1) : line[i] = text[a + i - 1]
      <4>1. a \in Nat \ {0} /\ b \in Nat /\ b <= Len(text)
        BY <3>1, <3>5
      <4> QED BY <3>5, <4>1, PartBytes
    <3>7. ASSUME NEW i \in DOMAIN line, line[i] = Equals PROVE FALSE
      <4>1. i \in 1..(b - a + 1) /\ a + i - 1 \in 1..Len(text)
        BY <3>1, <3>5, <3>6, <3>7, Bytes
      <4>2. a + i - 1 \in DOMAIN text /\ text[a + i - 1] = Equals
        BY <3>1, <3>6, <3>7, <4>1
      <4> QED BY <4>2 DEF Places
    <3> QED BY <3>7 DEF Places
  <2> QED BY <2>1, <2>2
<1> HIDE DEF line
<1>2. line = trim_whitespace(text)
  BY DEF line
<1>3. CASE line = <<>> \/ Head(line) \in {Hash, Semicolon}
  <2>1. Parsed(s, text) = s
    BY <1>2, <1>3, ParsedCases
  <2> QED BY <2>1
<1>4. CASE line # <<>> /\ Head(line) = Opening
  <2>1. Parsed(s, text) = [section |-> SectionOf(line, s.section), config |-> s.config]
    BY <1>2, <1>4, ParsedCases
  <2> QED BY <2>1
<1>5. CASE line # <<>> /\ Head(line) \notin {Hash, Semicolon, Opening}
  <2>1. Parsed(s, text) = s
    BY <1>1, <1>2, <1>5, ParsedCases
  <2> QED BY <2>1
<1> QED BY <1>3, <1>4, <1>5

---------------------------------------------------------------------------
(* The lines in turn. *)

\* What the lines make of an empty configuration.
Begun == [section |-> <<>>, config |-> ya_config_init]
ReadIn(lines) == FoldLeft(Parsed, Begun, lines)

\* The loop over the lines, turn by turn.
LEMMA ReadInTurn ==
    ASSUME NEW lines \in Seq(Data), NEW n, n = Len(lines)
    PROVE  \E R \in [0..n -> Reading] :
              /\ R[0] = Begun /\ \A k \in 1..n : R[k] = Parsed(R[k - 1], lines[k])
              /\ ReadIn(lines) = R[n]
<1> DEFINE base == Begun
           f == [p \in Reading \X (1..n) |-> Parsed(p[1], lines[p[2]])]
           Fix(g) == g = [s \in SUBSET DOMAIN lines |->
                            IF s = {} THEN base ELSE Parsed(g[s \ {Max(s)}], lines[Max(s)])]
           iter == CHOOSE g : Fix(g)
<1>2. n \in Nat /\ DOMAIN lines = 1..n /\ \A i \in 1..n : lines[i] \in Data
  BY ElementOfSeq, LenProperties
<1>3. ReadIn(lines) = iter[DOMAIN lines]
  BY DEF ReadIn, FoldLeft, MapThenFoldSet
<1> HIDE DEF iter
<1>4. base \in Reading
  BY EmptySeq DEF Reading, ya_config_init, Config, Data, Begun
<1> HIDE DEF base
<1>5. \A t \in Reading : \A k \in 1..n : f[<<t, k>>] = Parsed(t, lines[k]) /\ f[<<t, k>>] \in Reading
  BY <1>2, ParsedFits
<1> HIDE DEF f
<1>6. PICK g \in [SUBSET (1..n) -> Reading] :
         \A s \in SUBSET (1..n) : g[s] = IF s = {} THEN base ELSE f[<<g[s \ {Max(s)}], Max(s)>>]
  <2>1. StaysIn(Reading, n, f)
    BY <1>5, Zenon DEF StaysIn
  <2>2. n \in Nat
    BY <1>2
  <2>3. \E g : Runs(Reading, n, base, f, g)
    BY <1>4, <2>1, <2>2, FoldExists, Zenon
  <2> QED BY <2>3 DEF Runs
<1>7. ASSUME NEW s \in SUBSET (1..n), s # {}
      PROVE  Max(s) \in 1..n /\ s \ {Max(s)} \in SUBSET (1..n)
  <2>1. s \in SUBSET (0..n)
    BY <1>2
  <2>2. Max(s) \in s
    BY <1>2, <1>7, <2>1, MaxOfNat
  <2> QED BY <2>2
<1>8. Fix(g)
  <2>1. ASSUME NEW s \in SUBSET (1..n)
        PROVE  g[s] = IF s = {} THEN base ELSE Parsed(g[s \ {Max(s)}], lines[Max(s)])
    <3>1. CASE s = {}
      BY <1>6, <3>1
    <3>2. CASE s # {}
      <4>1. g[s \ {Max(s)}] \in Reading
        BY <1>6, <1>7, <3>2
      <4> QED BY <1>5, <1>6, <1>7, <3>2, <4>1
    <3> QED BY <3>1, <3>2
  <2> QED BY <1>2, <1>6, <2>1
<1>9. Fix(iter)
  BY <1>8, Zenon DEF iter
<1> DEFINE R == [k \in 0..n |-> iter[1..k]]
<1>10. R[0] = base
  <2>1. 1..0 = {} /\ {} \in SUBSET DOMAIN lines /\ 0 \in 0..n
    BY <1>2
  <2> QED BY <1>9, <2>1
<1>11. ASSUME NEW k \in 1..n PROVE k - 1 \in 0..n /\ R[k] = Parsed(R[k - 1], lines[k])
  <2>4. 1..k \in SUBSET (1..n)
    BY <1>2
  <2>1. /\ k \in Nat \ {0} /\ 1..k \in SUBSET DOMAIN lines /\ 1..k # {} /\ k \in 0..n /\ k - 1 \in 0..n
        /\ k \in 1..k
    <3>1. k \in 1..k /\ k \in Nat \ {0} /\ k \in 0..n /\ k - 1 \in 0..n
      BY <1>2
    <3> QED BY <1>2, <2>4, <3>1
  <2>2. Max(1..k) = k /\ (1..k) \ {k} = 1..(k - 1)
    BY <2>1, MaxOfInterval
  <2>3. iter[1..k] = Parsed(iter[(1..k) \ {Max(1..k)}], lines[Max(1..k)])
    BY <1>9, <2>1
  <2> HIDE DEF Fix
  <2> QED BY <2>1, <2>2, <2>3
<1>12. R \in [0..n -> Reading]
  <2> DEFINE Q == {k \in 0..n : R[k] \in Reading}
  <2>1. Q \in SUBSET Nat /\ 0 \in Q
    BY <1>2, <1>4, <1>10
  <2>2. ASSUME NEW k \in 1..n, k - 1 \in Q PROVE k \in Q
    <3> HIDE DEF R
    <3> QED BY <1>2, <1>11, <2>2, ParsedFits
  <2> HIDE DEF Q
  <2>3. \A k \in 0..n : k \in Q
    BY <1>2, <2>1, <2>2, UpTo
  <2> QED BY <2>3 DEF Q
<1>13. ReadIn(lines) = R[n]
  <2>1. n \in 0..n
    BY <1>2
  <2> QED BY <1>2, <1>3, <2>1
<1> HIDE DEF R
<1>14. /\ R[0] = Begun /\ \A k \in 1..n : R[k] = Parsed(R[k - 1], lines[k])
       /\ ReadIn(lines) = R[n] /\ R \in [0..n -> Reading]
  BY <1>10, <1>11, <1>12, <1>13 DEF base
<1> QED BY <1>14

LEMMA ReadNone == ReadIn(<<>>) = Begun
<1> DEFINE e == <<>>
<1>1. e \in Seq(Data) /\ Len(e) = 0
  BY EmptySeq
<1> HIDE DEF e
<1>2. PICK R \in [0..0 -> Reading] : R[0] = Begun /\ ReadIn(e) = R[0]
  BY <1>1, ReadInTurn
<1> QED BY <1>1, <1>2 DEF e

\* One more line.
LEMMA ReadMore ==
    ASSUME NEW lines \in Seq(Data), NEW a \in Data
    PROVE  /\ ReadIn(lines) \in Reading /\ lines \o <<a>> \in Seq(Data)
           /\ ReadIn(lines \o <<a>>) = Parsed(ReadIn(lines), a)
<1> DEFINE n == Len(lines)
           more == lines \o <<a>>
<1>1. <<a>> \in Seq(Data) /\ Len(<<a>>) = 1 /\ <<a>>[1] = a /\ n \in Nat
  BY LenProperties
<1>2. /\ more \in Seq(Data) /\ Len(more) = n + 1
      /\ \A i \in 1..(n + 1) : more[i] = IF i <= n THEN lines[i] ELSE <<a>>[i - n]
  BY <1>1, ConcatProperties
<1> HIDE DEF more, n
<1>3. (\A i \in 1..n : more[i] = lines[i]) /\ more[n + 1] = a
  <2>1. \A i \in 1..n : i \in 1..(n + 1) /\ i <= n
    BY <1>1
  <2>2. n + 1 \in 1..(n + 1) /\ ~ n + 1 <= n /\ (n + 1) - n = 1
    BY <1>1
  <2>3. more[n + 1] = <<a>>[(n + 1) - n]
    BY <1>2, <2>2
  <2>4. \A i \in 1..n : more[i] = lines[i]
    BY <1>2, <2>1
  <2> QED BY <1>1, <2>2, <2>3, <2>4
<1>4. PICK R \in [0..n -> Reading] : /\ R[0] = Begun /\ \A k \in 1..n : R[k] = Parsed(R[k - 1], lines[k])
                                     /\ ReadIn(lines) = R[n]
  BY ReadInTurn DEF n
<1>5. PICK Q \in [0..(n + 1) -> Reading] : /\ Q[0] = Begun
                                           /\ \A k \in 1..(n + 1) : Q[k] = Parsed(Q[k - 1], more[k])
                                           /\ ReadIn(more) = Q[n + 1]
  BY <1>2, ReadInTurn
<1> DEFINE P == {k \in 0..n : Q[k] = R[k]}
<1>6. P \in SUBSET Nat /\ 0 \in P
  BY <1>1, <1>4, <1>5
<1>7. ASSUME NEW k \in 1..n, k - 1 \in P PROVE k \in P
  <2>1. k \in 1..(n + 1) /\ k \in 0..n
    BY <1>1
  <2> QED BY <1>3, <1>4, <1>5, <1>7, <2>1
<1> HIDE DEF P
<1>8. \A k \in 0..n : k \in P
  BY <1>1, <1>6, <1>7, UpTo
<1>9. n \in 0..n /\ n + 1 \in 1..(n + 1) /\ (n + 1) - 1 = n
  BY <1>1
<1>10. Q[n] = R[n]
  BY <1>8, <1>9 DEF P
<1>11. Q[n + 1] = Parsed(Q[n], a)
  BY <1>3, <1>5, <1>9
<1> QED BY <1>2, <1>4, <1>5, <1>9, <1>10, <1>11 DEF more

\* What a text says, line by line, in a buffer of this size.
Says(text, size, s) ==
    /\ text \in Data
    /\ \A more \in Data : LinesOf(text \o more, size) = LinesOf(text, size) \o LinesOf(more, size)
    /\ ReadIn(LinesOf(text, size)) = s

LEMMA SaysNothing ==
    ASSUME NEW size \in Nat, size >= 2
    PROVE  Says(<<>>, size, Begun)
<1> DEFINE e == <<>>
<1>1. e \in Data /\ Len(e) = 0
  BY EmptySeq DEF Data
<1>2. LinesOf(e, size) = <<>>
  <2>1. Len(e) < size /\ \A j \in 1..Len(e) : e[j] # Newline
    BY <1>1
  <2>2. e = <<>>
    OBVIOUS
  <2> HIDE DEF e
  <2> QED BY <1>1, <2>1, <2>2, LastLine
<1>3. ASSUME NEW more \in Data PROVE LinesOf(e \o more, size) = LinesOf(e, size) \o LinesOf(more, size)
  <2>1. e \o more = more
    BY Bytes, ConcatEmptySeq
  <2>2. <<>> \o LinesOf(more, size) = LinesOf(more, size)
    BY LinesOfText, ConcatEmptySeq
  <2> HIDE DEF e
  <2> QED BY <1>2, <2>1, <2>2
<1>4. ReadIn(LinesOf(e, size)) = Begun
  BY <1>2, ReadNone
<1> QED BY <1>1, <1>3, <1>4 DEF Says, e

\* A full line is one line.
LEMMA OneLine ==
    ASSUME NEW size \in Nat, size >= 2, NEW a, FullLine(a, size)
    PROVE  LinesOf(a, size) = <<a>> /\ \A b \in Data : LinesOf(a \o b, size) = <<a>> \o LinesOf(b, size)
<1>1. a \in Data
  BY DEF FullLine
<1>2. <<>> \in Data /\ a \o <<>> = a /\ LinesOf(<<>>, size) = <<>>
  <2> DEFINE e == <<>>
  <2>1. e \in Data /\ Len(e) = 0 /\ e = <<>>
    BY EmptySeq DEF Data
  <2>2. a \o e = a
    BY <1>1, Bytes, ConcatEmptySeq
  <2> HIDE DEF e
  <2>3. Len(e) < size /\ \A j \in 1..Len(e) : e[j] # Newline
    BY <2>1
  <2>4. LinesOf(e, size) = <<>>
    BY <2>1, <2>3, LastLine
  <2> QED BY <2>1, <2>2, <2>4
<1>5. \A b \in Data : LinesOf(a \o b, size) = <<a>> \o LinesOf(b, size)
  BY <1>1, FirstLine
<1>6. LinesOf(a, size) = <<a>>
  <2>1. LinesOf(a \o <<>>, size) = <<a>> \o LinesOf(<<>>, size)
    BY <1>2, <1>5
  <2>2. <<a>> \o <<>> = <<a>>
    BY ConcatEmptySeq
  <2> QED BY <1>2, <2>1, <2>2
<1> QED BY <1>5, <1>6

LEMMA JoinedLines ==
    ASSUME NEW a \in Seq(Data), NEW b \in Seq(Data), NEW c \in Seq(Data)
    PROVE  a \o (b \o c) = (a \o b) \o c
BY ConcatAssociative

\* A full line more.
LEMMA SaysMore ==
    ASSUME NEW size \in Nat, size >= 2, NEW text, NEW s, Says(text, size, s), NEW a, FullLine(a, size)
    PROVE  Says(text \o a, size, Parsed(s, a))
<1>1. text \in Data /\ a \in Data /\ text \o a \in Data
  BY JoinedBytes DEF Says, FullLine
<1> DEFINE L == LinesOf(text, size)
<1>3. L \in Seq(Data) /\ \A more \in Data : LinesOf(text \o more, size) = L \o LinesOf(more, size)
  BY <1>1, LinesOfText DEF Says
<1>4. ReadIn(L) = s
  BY DEF Says
<1> HIDE DEF L
<1>5. LinesOf(a, size) = <<a>> /\ \A b \in Data : LinesOf(a \o b, size) = <<a>> \o LinesOf(b, size)
  BY OneLine
<1>7. LinesOf(text \o a, size) = L \o <<a>>
  BY <1>1, <1>3, <1>5
<1>8. ASSUME NEW more \in Data
      PROVE  LinesOf(text \o a \o more, size) = LinesOf(text \o a, size) \o LinesOf(more, size)
  <2>1. text \o a \o more = text \o (a \o more) /\ a \o more \in Data
    BY <1>1, ConcatAssociative, JoinedBytes DEF Data
  <2>2. LinesOf(text \o (a \o more), size) = L \o (<<a>> \o LinesOf(more, size))
    BY <1>3, <1>5, <2>1
  <2>3. L \o (<<a>> \o LinesOf(more, size)) = (L \o <<a>>) \o LinesOf(more, size)
    <3> DEFINE x == <<a>>
               y == LinesOf(more, size)
    <3>1. x \in Seq(Data) /\ y \in Seq(Data)
      BY <1>1, LinesOfText
    <3> HIDE DEF x, y
    <3>3. L \in Seq(Data)
      BY <1>3
    <3>2. L \o (x \o y) = (L \o x) \o y
      BY <3>1, <3>3, JoinedLines, Zenon
    <3> QED BY <3>2 DEF x, y
  <2> QED BY <1>7, <2>1, <2>2, <2>3
<1>9. ReadIn(L \o <<a>>) = Parsed(s, a)
  BY <1>1, <1>3, <1>4, ReadMore
<1> QED BY <1>1, <1>7, <1>8, <1>9 DEF Says

\* A line at the end that is not full.
LEMMA SaysLast ==
    ASSUME NEW size \in Nat, size >= 2, NEW text, NEW s, Says(text, size, s),
           NEW q \in Data, Len(q) < size, \A j \in 1..Len(q) : q[j] # Newline
    PROVE  ReadIn(LinesOf(text \o q, size)) = IF q = <<>> THEN s ELSE Parsed(s, q)
<1> DEFINE L == LinesOf(text, size)
<1>1. text \in Data /\ L \in Seq(Data) /\ LinesOf(text \o q, size) = L \o LinesOf(q, size) /\ ReadIn(L) = s
  BY LinesOfText DEF Says
<1> HIDE DEF L
<1>2. LinesOf(q, size) = IF q = <<>> THEN <<>> ELSE <<q>>
  BY LastLine
<1>3. CASE q = <<>>
  <2>1. L \o <<>> = L
    BY <1>1, ConcatEmptySeq
  <2> QED BY <1>1, <1>2, <1>3, <2>1
<1>4. CASE q # <<>>
  <2>1. ReadIn(L \o <<q>>) = Parsed(ReadIn(L), q)
    BY <1>1, ReadMore
  <2> QED BY <1>1, <1>2, <1>4, <2>1
<1> QED BY <1>3, <1>4

\* Whatever the file is, its configuration fits.
LEMMA ParsedConfig ==
    ASSUME NEW text \in Data
    PROVE  ya_config_parse(text) \in Config
<1> DEFINE lines == Lines(text)
           n == Len(lines)
<1>1. lines \in Seq(Data) /\ n \in Nat
  BY LinesOfText, LenProperties, ConfigFileAssumption DEF Lines
<1>2. ya_config_parse(text) = ReadIn(lines).config
  BY DEF ya_config_parse, ReadIn, Begun
<1> HIDE DEF lines, n
<1>3. n = Len(lines)
  BY DEF n
<1>4. \E R \in [0..n -> Reading] : ReadIn(lines) = R[n]
  BY <1>1, <1>3, ReadInTurn
<1>5. n \in 0..n
  BY <1>1
<1> QED BY <1>2, <1>4, <1>5 DEF Reading

\* The beginning of two texts together.
LEMMA BeginningOfTwo ==
    ASSUME NEW a \in Data, NEW b \in Data, NEW m \in 0..(Len(a) + Len(b))
    PROVE  SubSeq(a \o b, 1, m) = IF m <= Len(a) THEN SubSeq(a, 1, m) ELSE a \o SubSeq(b, 1, m - Len(a))
<1> DEFINE t == a \o b
           x == SubSeq(t, 1, m)
           la == Len(a)
<1>1. /\ t \in Data /\ Len(t) = la + Len(b) /\ la \in Nat /\ Len(b) \in Nat
      /\ \A i \in 1..la : t[i] = a[i]
      /\ \A i \in 1..Len(b) : t[la + i] = b[i]
  BY JoinedBytes
<1> HIDE DEF t
<1>2. m \in Nat /\ m <= Len(t) /\ (IF 1 <= m THEN m - 1 + 1 ELSE 0) = m /\ m - 1 + 1 = m /\ 1 \in Nat \ {0}
      /\ \A i \in 1..m : 1 + i - 1 = i
  BY <1>1
<1>3. x \in Data /\ Len(x) = m /\ \A i \in 1..m : x[i] = t[i]
  <2>1. x \in Data /\ Len(x) = m /\ \A i \in 1..m : x[i] = t[1 + i - 1]
    BY <1>1, <1>2, PartBytes
  <2> QED BY <1>2, <2>1
<1> HIDE DEF x
<1>4. CASE m <= la
  <2> DEFINE y == SubSeq(a, 1, m)
  <2>1. y \in Data /\ Len(y) = m /\ \A i \in 1..m : y[i] = a[1 + i - 1]
    BY <1>1, <1>2, <1>4, PartBytes
  <2> HIDE DEF y
  <2>2. \A i \in 1..m : y[i] = a[i] /\ t[i] = a[i]
    BY <1>1, <1>2, <1>4, <2>1
  <2>3. x = y
    BY <1>3, <2>1, <2>2, SameText
  <2> QED BY <1>4, <2>3 DEF x, y, t
<1>5. CASE ~ m <= la
  <2> DEFINE n == m - la
             z == SubSeq(b, 1, n)
             y == a \o z
  <2>1. /\ n \in Nat /\ n <= Len(b) /\ (IF 1 <= n THEN n - 1 + 1 ELSE 0) = n /\ n - 1 + 1 = n /\ la + n = m
        /\ \A i \in 1..n : 1 + i - 1 = i
    BY <1>1, <1>5
  <2> HIDE DEF n
  <2>2. z \in Data /\ Len(z) = n /\ \A i \in 1..n : z[i] = b[i]
    <3>1. z \in Data /\ Len(z) = n /\ \A i \in 1..n : z[i] = b[1 + i - 1]
      BY <1>2, <2>1, PartBytes
    <3> QED BY <2>1, <3>1
  <2> HIDE DEF z
  <2>3. /\ y \in Data /\ Len(y) = m
        /\ \A i \in 1..la : y[i] = a[i]
        /\ \A i \in 1..n : y[la + i] = z[i]
    BY <2>1, <2>2, JoinedBytes
  <2> HIDE DEF y, la
  <2>4. ASSUME NEW i \in 1..m PROVE x[i] = y[i]
    <3>1. CASE i <= la
      <4>1. i \in 1..la
        BY <3>1
      <4> QED BY <1>1, <1>3, <2>3, <4>1
    <3>2. CASE ~ i <= la
      <4>1. i - la \in 1..n /\ la + (i - la) = i /\ i - la \in 1..Len(b)
        BY <1>1, <2>1, <3>2
      <4> QED BY <1>1, <1>3, <2>2, <2>3, <4>1
    <3> QED BY <3>1, <3>2
  <2>5. x = y
    BY <1>3, <2>3, <2>4, SameText
  <2> QED BY <1>5, <2>5 DEF x, y, t, z, n, la
<1> QED BY <1>4, <1>5

\* A beginning.
LEMMA Beginning ==
    ASSUME NEW a \in Data, NEW m \in 0..Len(a)
    PROVE  LET x == SubSeq(a, 1, m)
           IN  x \in Data /\ Len(x) = m /\ m \in Nat /\ \A i \in 1..m : x[i] = a[i] /\ i \in 1..Len(a)
<1>1. Len(a) \in Nat
  BY Bytes
<1>2. m \in Nat /\ m <= Len(a) /\ (IF 1 <= m THEN m - 1 + 1 ELSE 0) = m /\ m - 1 + 1 = m /\ 1 \in Nat \ {0}
      /\ \A i \in 1..m : 1 + i - 1 = i /\ i \in 1..Len(a)
  BY <1>1
<1>3. SubSeq(a, 1, m) \in Data /\ Len(SubSeq(a, 1, m)) = m /\ \A i \in 1..m : SubSeq(a, 1, m)[i] = a[1 + i - 1]
  BY <1>1, <1>2, PartBytes
<1> QED BY <1>2, <1>3

LEMMA NoneThere ==
    ASSUME NEW a \in Data, NEW bytes
    PROVE  Places(a, bytes) = {} <=> \A i \in 1..Len(a) : a[i] \notin bytes
BY Bytes DEF Places

\* An entry of the configuration that survives.
Kept(e) == e \in FitEntry /\ Survives(e)

NoNewline(a) == \A i \in 1..Len(a) : a[i] # Newline

LEMMA KeptEntry ==
    ASSUME NEW e, Kept(e)
    PROVE  /\ e = [section |-> e.section, key |-> e.key, value |-> e.value]
           /\ e.section \in Data /\ Solid(e.section) /\ Places(e.section, {Closing}) = {}
           /\ Len(e.section) < NameLength
           /\ Readable(e.key, e.value) /\ Len(e.key) < NameLength /\ Len(e.value) < ValueLength
           /\ Len(e.key) + Len(e.value) + 2 < LineLength
           /\ NoNewline(e.section) /\ NoNewline(e.key) /\ NoNewline(e.value)
<1> DEFINE a == e.section
           b == e.key
           c == e.value
<1>1. /\ e = [section |-> a, key |-> b, value |-> c] /\ a \in Data /\ b \in Data /\ c \in Data
      /\ Len(a) < NameLength /\ Len(b) < NameLength /\ Len(c) < ValueLength
  BY DEF Kept, FitEntry
<1>2. /\ Places(a \o b \o c, {Newline}) = {} /\ Places(a, {Closing}) = {} /\ Places(b, {Equals}) = {}
      /\ Places(c, {Hash, Semicolon, Quote}) = {}
      /\ (b # <<>> => Head(b) \notin {Hash, Semicolon, Opening})
      /\ Trimmed(a) /\ Trimmed(b) /\ Trimmed(c) /\ Len(b) + Len(c) + 2 < LineLength
  BY DEF Kept, Survives
<1> HIDE DEF a, b, c
<1>3. Solid(a) /\ Solid(b) /\ Solid(c)
  BY <1>1, <1>2, SolidTrimmed
<1>4. NoNewline(a) /\ NoNewline(b) /\ NoNewline(c)
  <2> DEFINE d == a \o b
             t == d \o c
  <2>1. /\ d \in Data /\ Len(d) = Len(a) + Len(b) /\ Len(a) \in Nat /\ Len(b) \in Nat
        /\ (\A i \in 1..Len(a) : d[i] = a[i]) /\ \A i \in 1..Len(b) : d[Len(a) + i] = b[i]
    BY <1>1, JoinedBytes
  <2> HIDE DEF d
  <2>2. /\ t \in Data /\ Len(t) = Len(d) + Len(c) /\ Len(c) \in Nat
        /\ (\A i \in 1..Len(d) : t[i] = d[i]) /\ \A i \in 1..Len(c) : t[Len(d) + i] = c[i]
    BY <1>1, <2>1, JoinedBytes
  <2>3. \A i \in 1..Len(t) : t[i] # Newline
    BY <1>2, <2>2, NoneThere, Zenon DEF d
  <2> HIDE DEF t
  <2>4. \A i \in 1..Len(d) : d[i] # Newline
    <3>1. \A i \in 1..Len(d) : i \in 1..Len(t)
      BY <2>1, <2>2
    <3> QED BY <2>2, <2>3, <3>1
  <2>5. NoNewline(a)
    <3>1. \A i \in 1..Len(a) : i \in 1..Len(d)
      BY <2>1
    <3> QED BY <2>1, <2>4, <3>1 DEF NoNewline
  <2>6. NoNewline(b)
    <3>1. \A i \in 1..Len(b) : Len(a) + i \in 1..Len(d)
      BY <2>1
    <3> QED BY <2>1, <2>4, <3>1 DEF NoNewline
  <2>7. NoNewline(c)
    <3>1. \A i \in 1..Len(c) : Len(d) + i \in 1..Len(t)
      BY <2>1, <2>2
    <3> QED BY <2>2, <2>3, <3>1 DEF NoNewline
  <2> QED BY <2>5, <2>6, <2>7
<1>5. Readable(b, c)
  BY <1>1, <1>2, <1>3 DEF Readable
<1> QED BY <1>1, <1>2, <1>3, <1>4, <1>5 DEF a, b, c

---------------------------------------------------------------------------
(* Writing the file. *)

\* The lines of an entry.
EntryLine(e) == e.key \o <<Equals>> \o e.value \o <<Newline>>
SectionLine(section) == <<Opening>> \o section \o <<Closing, Newline>>

LEMMA FullWith ==
    ASSUME NEW a \in Data, NoNewline(a), NEW size \in Nat, Len(a) + 1 < size
    PROVE  FullLine(a \o <<Newline>>, size) /\ Len(a \o <<Newline>>) = Len(a) + 1
<1> DEFINE t == a \o <<Newline>>
<1>1. Newline \in Byte
  BY DEF Byte, Newline
<1>2. t \in Data /\ Len(t) = Len(a) + 1 /\ Len(a) \in Nat /\ (\A i \in 1..Len(a) : t[i] = a[i]) /\ t[Len(a) + 1] = Newline
  BY <1>1, ByteLast
<1> HIDE DEF t
<1>3. Len(t) \in 1..(size - 1) /\ Len(t) - 1 = Len(a) /\ t[Len(t)] = Newline
  BY <1>2
<1>4. \A i \in 1..(Len(t) - 1) : t[i] # Newline
  BY <1>2, <1>3 DEF NoNewline
<1> QED BY <1>2, <1>3, <1>4 DEF FullLine, t

LEMMA EntryText ==
    ASSUME NEW key \in Data, NEW value \in Data, NoNewline(key), NoNewline(value)
    PROVE  LET line == key \o <<Equals>> \o value
           IN  line \in Data /\ Len(line) = Len(key) + 1 + Len(value) /\ NoNewline(line)
<1> DEFINE d == key \o <<Equals>>
           t == d \o value
<1>1. Equals \in Byte
  BY DEF Byte, Equals
<1>2. d \in Data /\ Len(d) = Len(key) + 1 /\ Len(key) \in Nat /\ (\A i \in 1..Len(key) : d[i] = key[i]) /\ d[Len(key) + 1] = Equals
  BY <1>1, ByteLast
<1> HIDE DEF d
<1>3. /\ t \in Data /\ Len(t) = Len(d) + Len(value) /\ Len(value) \in Nat
      /\ (\A i \in 1..Len(d) : t[i] = d[i]) /\ \A i \in 1..Len(value) : t[Len(d) + i] = value[i]
  BY <1>2, JoinedBytes
<1> HIDE DEF t
<1>4. ASSUME NEW i \in 1..Len(t) PROVE t[i] # Newline
  <2>1. CASE i <= Len(key)
    <3>1. i \in 1..Len(key) /\ i \in 1..Len(d)
      BY <1>2, <2>1
    <3> QED BY <1>2, <1>3, <3>1 DEF NoNewline
  <2>2. CASE i = Len(key) + 1
    <3>1. t[i] = Equals
      BY <1>2, <1>3, <2>2
    <3> QED BY <3>1 DEF Equals, Newline
  <2>3. CASE i > Len(key) + 1
    <3>1. i - Len(d) \in 1..Len(value) /\ Len(d) + (i - Len(d)) = i
      BY <1>2, <1>3, <2>3
    <3> QED BY <1>3, <3>1 DEF NoNewline
  <2> QED BY <1>2, <1>3, <2>1, <2>2, <2>3
<1> QED BY <1>2, <1>3, <1>4 DEF NoNewline, t, d

LEMMA EntryFull ==
    ASSUME NEW e, Kept(e), NEW size \in Nat, Len(e.key) + Len(e.value) + 2 < size
    PROVE  FullLine(EntryLine(e), size) /\ Len(EntryLine(e)) = Len(e.key) + Len(e.value) + 2
<1> DEFINE key == e.key
           value == e.value
<1>1. key \in Data /\ value \in Data /\ NoNewline(key) /\ NoNewline(value)
  BY KeptEntry DEF Readable
<1>2. Len(key) + Len(value) + 2 < size /\ EntryLine(e) = key \o <<Equals>> \o value \o <<Newline>>
  BY DEF EntryLine
<1> HIDE DEF key, value
<1> DEFINE line == key \o <<Equals>> \o value
<1>3. line \in Data /\ Len(line) = Len(key) + 1 + Len(value) /\ NoNewline(line)
  BY <1>1, EntryText
<1>5. EntryLine(e) = line \o <<Newline>>
  BY <1>2
<1> HIDE DEF line
<1>7. Len(key) \in Nat /\ Len(value) \in Nat
  BY <1>1, Bytes
<1>6. Len(line) + 1 = Len(key) + Len(value) + 2 /\ Len(line) + 1 < size
  BY <1>2, <1>3, <1>7
<1>4. FullLine(line \o <<Newline>>, size) /\ Len(line \o <<Newline>>) = Len(line) + 1
  BY <1>3, <1>6, FullWith
<1> QED BY <1>4, <1>5, <1>6 DEF key, value

LEMMA SectionText2 ==
    ASSUME NEW a \in Data, NoNewline(a)
    PROVE  LET line == <<Opening>> \o a \o <<Closing>>
           IN  /\ line \in Data /\ Len(line) = Len(a) + 2 /\ NoNewline(line) /\ line[1] = Opening
               /\ SectionLine(a) = line \o <<Newline>>
<1> DEFINE o == <<Opening>> \o a
           line == o \o <<Closing>>
<1>1. Opening \in Byte /\ Closing \in Byte /\ Newline \in Byte
  BY DEF Byte, Opening, Closing, Newline
<1>2. o \in Data /\ Len(o) = 1 + Len(a) /\ o[1] = Opening /\ Len(a) \in Nat /\ \A i \in 1..Len(a) : o[1 + i] = a[i]
  BY <1>1, ByteFirst, Bytes
<1>3. SectionLine(a) = o \o <<Closing, Newline>>
  BY DEF SectionLine
<1> HIDE DEF o
<1>4. line \in Data /\ Len(line) = Len(o) + 1 /\ (\A i \in 1..Len(o) : line[i] = o[i]) /\ line[Len(o) + 1] = Closing
  BY <1>1, <1>2, ByteLast
<1>5. SectionLine(a) = line \o <<Newline>>
  <2> DEFINE x == <<Closing>>
             y == <<Newline>>
  <2>1. x \in Data /\ y \in Data
    BY <1>1 DEF Data
  <2>2. <<Closing, Newline>> = x \o y
    OBVIOUS
  <2>3. (o \o x) \o y = o \o (x \o y)
    <3> HIDE DEF x, y
    <3>1. o \in Seq(Byte) /\ x \in Seq(Byte) /\ y \in Seq(Byte)
      BY <1>2, <2>1 DEF Data
    <3> QED BY <3>1, ConcatAssociative
  <2> QED BY <1>3, <2>2, <2>3
<1> HIDE DEF line
<1>6. ASSUME NEW i \in 1..Len(line) PROVE line[i] # Newline
  <2>1. CASE i = 1
    <3>1. line[i] = Opening
      BY <1>2, <1>4, <2>1
    <3> QED BY <3>1 DEF Opening, Newline
  <2>2. CASE i > 1 /\ i <= Len(o)
    <3>1. i \in 1..Len(o) /\ i - 1 \in 1..Len(a) /\ 1 + (i - 1) = i
      BY <1>2, <2>2
    <3>2. line[i] = a[i - 1]
      BY <1>2, <1>4, <3>1
    <3> QED BY <3>1, <3>2 DEF NoNewline
  <2>3. CASE i = Len(o) + 1
    <3>1. line[i] = Closing
      BY <1>4, <2>3
    <3> QED BY <3>1 DEF Closing, Newline
  <2> QED BY <1>2, <1>4, <2>1, <2>2, <2>3
<1>7. line[1] = Opening /\ Len(line) = Len(a) + 2
  <2>1. 1 \in 1..Len(o)
    BY <1>2
  <2> QED BY <1>2, <1>4, <2>1
<1> QED BY <1>4, <1>5, <1>6, <1>7 DEF NoNewline, line, o

LEMMA SectionFull ==
    ASSUME NEW a \in Data, NoNewline(a), NEW size \in Nat, Len(a) + 3 < size
    PROVE  FullLine(SectionLine(a), size) /\ Len(SectionLine(a)) = Len(a) + 3
<1> DEFINE line == <<Opening>> \o a \o <<Closing>>
<1>1. line \in Data /\ Len(line) = Len(a) + 2 /\ NoNewline(line) /\ SectionLine(a) = line \o <<Newline>> /\ Len(a) \in Nat
  BY SectionText2, Bytes
<1> HIDE DEF line
<1>2. Len(line) + 1 < size /\ Len(line) + 1 = Len(a) + 3
  BY <1>1
<1>3. FullLine(line \o <<Newline>>, size) /\ Len(line \o <<Newline>>) = Len(line) + 1
  BY <1>1, <1>2, FullWith
<1> QED BY <1>1, <1>2, <1>3

\* A line that is cut before its newline.
LEMMA CutLine ==
    ASSUME NEW a \in Data, NoNewline(a), NEW m \in 0..Len(a)
    PROVE  /\ SubSeq(a \o <<Newline>>, 1, m) = SubSeq(a, 1, m)
           /\ SubSeq(a, 1, m) \in Data /\ Len(SubSeq(a, 1, m)) = m /\ NoNewline(SubSeq(a, 1, m))
<1> DEFINE n == <<Newline>>
<1>1. n \in Data /\ Len(n) = 1 /\ Len(a) \in Nat
  BY Bytes DEF Data, Byte, Newline
<1> HIDE DEF n
<1>2. m \in 0..(Len(a) + Len(n)) /\ m <= Len(a)
  BY <1>1
<1>3. SubSeq(a \o n, 1, m) = SubSeq(a, 1, m)
  BY <1>1, <1>2, BeginningOfTwo
<1> DEFINE x == SubSeq(a, 1, m)
<1>4. x \in Data /\ Len(x) = m /\ m \in Nat /\ \A i \in 1..m : x[i] = a[i] /\ i \in 1..Len(a)
  BY Beginning
<1> HIDE DEF x
<1>5. NoNewline(x)
  BY <1>4 DEF NoNewline
<1> QED BY <1>3, <1>4, <1>5 DEF x, n

LEMMA JoinedText ==
    ASSUME NEW a \in Data, NEW b \in Data
    PROVE  a \o b \in Data
BY ConcatProperties DEF Data

\* What stands before the line of an entry.
SectionAt(entries, k) == IF k = 0 THEN <<>> ELSE entries[k].section
Gap(i) == IF i > 1 THEN <<Newline>> ELSE <<>>
Heading(entries, i) ==
    IF entries[i].section = SectionAt(entries, i - 1) THEN <<>> ELSE Gap(i) \o SectionLine(entries[i].section)

\* Joining texts from the right.
JoinsTwo(h, a, b) == h \o a \o b = h \o (a \o b)
JoinsThree(h, a, b, c) == h \o a \o b \o c = h \o (a \o b \o c)
JoinsFour(h, a, b, c, d) == h \o a \o b \o c \o d = h \o (a \o b \o c \o d)

LEMMA JoinedTwo ==
    ASSUME NEW h \in Data, NEW a \in Data, NEW b \in Data
    PROVE  JoinsTwo(h, a, b)
<1>1. h \in Seq(Byte) /\ a \in Seq(Byte) /\ b \in Seq(Byte)
  BY DEF Data
<1> QED BY <1>1, ConcatAssociative DEF JoinsTwo

LEMMA JoinedThree ==
    ASSUME NEW h \in Data, NEW a \in Data, NEW b \in Data, NEW c \in Data
    PROVE  JoinsThree(h, a, b, c)
<1> DEFINE x == a \o b
<1>1. x \in Data /\ JoinsTwo(h, a, b)
  BY JoinedText, JoinedTwo
<1> HIDE DEF x
<1>2. JoinsTwo(h, x, c)
  BY <1>1, JoinedTwo
<1>3. h \o x \o c = h \o (x \o c)
  BY <1>2, Zenon DEF JoinsTwo
<1>4. h \o a \o b = h \o x
  BY <1>1, Zenon DEF JoinsTwo, x
<1>5. h \o a \o b \o c = h \o x \o c
  BY <1>4, Zenon
<1> QED BY <1>3, <1>5, Zenon DEF JoinsThree, x

LEMMA JoinedFour ==
    ASSUME NEW h \in Data, NEW a \in Data, NEW b \in Data, NEW c \in Data, NEW d \in Data
    PROVE  JoinsFour(h, a, b, c, d)
<1> DEFINE x == a \o b
           y == x \o c
<1>1. x \in Data /\ JoinsThree(h, a, b, c)
  BY JoinedText, JoinedThree
<1> HIDE DEF x
<1>2. y \in Data
  BY <1>1, JoinedText
<1> HIDE DEF y
<1>3. JoinsTwo(h, y, d)
  BY <1>2, JoinedTwo
<1>4. h \o y \o d = h \o (y \o d)
  BY <1>3, Zenon DEF JoinsTwo
<1>5. h \o a \o b \o c = h \o y
  BY <1>1, Zenon DEF JoinsThree, x, y
<1>6. h \o a \o b \o c \o d = h \o y \o d
  BY <1>5, Zenon
<1> QED BY <1>4, <1>6, Zenon DEF JoinsFour, x, y

LEMMA WrittenIs ==
    ASSUME NEW c \in Config, NEW i \in 1..Len(c.entries)
    PROVE  /\ Written(c.entries, i) = Heading(c.entries, i) \o EntryLine(c.entries[i])
           /\ Heading(c.entries, i) \in Data /\ EntryLine(c.entries[i]) \in Data
           /\ Gap(i) \in Data /\ SectionLine(c.entries[i].section) \in Data
<1> DEFINE e == c.entries[i]
           section == e.section
           key == e.key
           value == e.value
           last_section == IF i = 1 THEN <<>> ELSE c.entries[i - 1].section
           head == IF section = last_section THEN <<>>
                   ELSE Gap(i) \o <<Opening>> \o section \o <<Closing, Newline>>
           equals == <<Equals>>
           newline == <<Newline>>
           opening == <<Opening>>
           closing == <<Closing, Newline>>
<1>1. section \in Data /\ key \in Data /\ value \in Data
  BY ConfigType DEF FitEntry
<1>2. /\ equals \in Data /\ newline \in Data /\ opening \in Data /\ closing \in Data /\ <<>> \in Data
  BY DEF Data, Byte, Newline, Opening, Equals, Closing
<1>3. Written(c.entries, i) = head \o key \o equals \o value \o newline
  BY Zenon DEF Written, Gap
<1>4. last_section = SectionAt(c.entries, i - 1)
  <2>1. Len(c.entries) \in Nat
    BY ConfigType
  <2>2. i - 1 = 0 <=> i = 1
    BY <2>1
  <2> QED BY <2>2 DEF SectionAt
<1>5. EntryLine(e) = key \o equals \o value \o newline /\ SectionLine(section) = opening \o section \o closing
  BY DEF EntryLine, SectionLine
<1>6. Gap(i) \in Data
  BY <1>2 DEF Gap
<1> HIDE DEF section, key, value, equals, newline, opening, closing, last_section
<1>7. key \o equals \o value \o newline \in Data /\ opening \o section \o closing \in Data
  <2>1. key \o equals \in Data /\ opening \o section \in Data
    BY <1>1, <1>2, JoinedText
  <2> DEFINE x == key \o equals
             y == opening \o section
  <2>2. x \in Data /\ y \in Data
    BY <2>1
  <2> HIDE DEF x, y
  <2>3. x \o value \in Data /\ y \o closing \in Data
    BY <1>1, <1>2, <2>2, JoinedText
  <2> DEFINE z == x \o value
  <2>4. z \in Data
    BY <2>3
  <2> HIDE DEF z
  <2>5. z \o newline \in Data
    BY <1>2, <2>4, JoinedText
  <2> QED BY <2>3, <2>5 DEF x, y, z
<1>8. Gap(i) \o opening \o section \o closing = Gap(i) \o (opening \o section \o closing)
  <2>1. JoinsThree(Gap(i), opening, section, closing)
    BY <1>1, <1>2, <1>6, JoinedThree
  <2> QED BY <2>1, Zenon DEF JoinsThree
<1>9. head = Heading(c.entries, i)
  <2>1. head = IF section = last_section THEN <<>> ELSE Gap(i) \o SectionLine(section)
    BY <1>5, <1>8 DEF opening, closing
  <2> QED BY <1>4, <2>1 DEF Heading, section
<1>10. head \in Data
  <2>1. Gap(i) \o (opening \o section \o closing) \in Data
    BY <1>6, <1>7, JoinedText
  <2> QED BY <1>2, <1>8, <2>1 DEF opening, closing
<1> HIDE DEF head
<1>11. head \o key \o equals \o value \o newline = head \o (key \o equals \o value \o newline)
  <2>1. JoinsFour(head, key, equals, value, newline)
    BY <1>1, <1>2, <1>10, JoinedFour
  <2> QED BY <2>1, Zenon DEF JoinsFour
<1> QED BY <1>3, <1>5, <1>6, <1>7, <1>9, <1>10, <1>11 DEF section

\* After k entries: their section, and the entries themselves.
Got(entries, k, s) ==
    /\ s \in Reading /\ s.section = SectionAt(entries, k)
    /\ Len(s.config.entries) = k /\ \A i \in 1..k : s.config.entries[i] = entries[i]

LEMMA EntryIs ==
    ASSUME NEW e, Kept(e), NEW u \in Data, Len(u) <= Len(e.value)
    PROVE  Entry(e.section, e.key, u) = [section |-> e.section, key |-> e.key, value |-> u]
<1>1. Len(e.section) < NameLength /\ Len(e.key) < NameLength /\ Len(e.value) < ValueLength
      /\ e.value \in Data
  BY KeptEntry DEF Readable
<1>2. Len(u) < ValueLength
  <2>1. Len(u) \in Nat /\ Len(e.value) \in Nat
    BY <1>1, Bytes
  <2> QED BY <1>1, <2>1, ConfigFileAssumption
<1> QED BY <1>1, <1>2 DEF Entry, safe_strncpy

\* A configuration with one more entry.
LEMMA OneMore ==
    ASSUME NEW cfg \in Config, NEW e \in FitEntry, NEW k \in Nat \ {0}, Len(cfg.entries) = k - 1
    PROVE  /\ Added(cfg, e) \in Config /\ Len(Added(cfg, e).entries) = k
           /\ \A i \in 1..(k - 1) : Added(cfg, e).entries[i] = cfg.entries[i]
           /\ Added(cfg, e).entries[k] = e
<1> DEFINE old == cfg.entries
           new == Added(cfg, e).entries
<1>1. Added(cfg, e) \in Config /\ new = Append(old, e) /\ old \in Seq(FitEntry)
  BY AddedFits, ConfigType
<1> HIDE DEF old, new
<1>2. /\ Len(Append(old, e)) = Len(old) + 1 /\ Append(old, e)[Len(old) + 1] = e
      /\ \A i \in 1..Len(old) : Append(old, e)[i] = old[i]
  BY <1>1, AppendProperties
<1>3. Len(old) = k - 1 /\ Len(old) + 1 = k
  BY DEF old
<1> QED BY <1>1, <1>2, <1>3 DEF new, old

LEMMA WrittenFits ==
    ASSUME NEW c \in Config, NEW i \in 1..Len(c.entries)
    PROVE  Written(c.entries, i) \in Data
BY WrittenIs, JoinedText

\* The loop over the entries, turn by turn.
LEMMA SavedInTurn ==
    ASSUME NEW c \in Config, NEW n, n = Len(c.entries)
    PROVE  \E T \in [0..n -> Data] :
              /\ T[0] = <<>> /\ \A k \in 1..n : T[k] = T[k - 1] \o Written(c.entries, k)
              /\ ya_config_save(c) = T[n]
<1> DEFINE entries == c.entries
           places == [i \in DOMAIN entries |-> i]
           f == [p \in Data \X (1..n) |-> p[1] \o Written(entries, places[p[2]])]
           Fix(g) == g = [s \in SUBSET DOMAIN places |->
                            IF s = {} THEN <<>>
                            ELSE g[s \ {Max(s)}] \o Written(entries, places[Max(s)])]
           iter == CHOOSE g : Fix(g)
<1>1. n \in Nat /\ DOMAIN entries = 1..n /\ \A i \in 1..n : Written(entries, i) \in Data
  BY ConfigType, WrittenFits
<1>2. DOMAIN places = 1..n /\ \A i \in 1..n : places[i] = i
  BY <1>1
<1>3. ya_config_save(c) = iter[DOMAIN places]
  BY DEF ya_config_save, FoldLeft, MapThenFoldSet
<1> HIDE DEF entries, iter, places
<1>4. <<>> \in Data
  BY EmptySeq DEF Data
<1>5. \A t \in Data : \A k \in 1..n : f[<<t, k>>] = t \o Written(entries, places[k]) /\ f[<<t, k>>] \in Data
  BY <1>1, <1>2, JoinedText
<1> HIDE DEF f
<1>6. PICK g \in [SUBSET (1..n) -> Data] :
         \A s \in SUBSET (1..n) : g[s] = IF s = {} THEN <<>> ELSE f[<<g[s \ {Max(s)}], Max(s)>>]
  <2>1. StaysIn(Data, n, f)
    BY <1>5, Zenon DEF StaysIn
  <2>2. n \in Nat
    BY <1>1
  <2>3. \E g : Runs(Data, n, <<>>, f, g)
    BY <1>4, <2>1, <2>2, FoldExists, Zenon
  <2> QED BY <2>3 DEF Runs
<1>7. ASSUME NEW s \in SUBSET (1..n), s # {}
      PROVE  Max(s) \in 1..n /\ s \ {Max(s)} \in SUBSET (1..n)
  <2>1. s \in SUBSET (0..n)
    BY <1>1
  <2>2. Max(s) \in s
    BY <1>1, <1>7, <2>1, MaxOfNat
  <2> QED BY <2>2
<1>8. Fix(g)
  <2>1. ASSUME NEW s \in SUBSET (1..n)
        PROVE  g[s] = IF s = {} THEN <<>> ELSE g[s \ {Max(s)}] \o Written(entries, places[Max(s)])
    <3>1. CASE s = {}
      BY <1>6, <3>1
    <3>2. CASE s # {}
      <4>1. g[s \ {Max(s)}] \in Data
        BY <1>6, <1>7, <3>2
      <4> QED BY <1>5, <1>6, <1>7, <3>2, <4>1
    <3> QED BY <3>1, <3>2
  <2> QED BY <1>2, <1>6, <2>1
<1>9. Fix(iter)
  BY <1>8, Zenon DEF iter
<1> DEFINE T == [k \in 0..n |-> iter[1..k]]
<1>10. T[0] = <<>>
  <2>1. 1..0 = {} /\ {} \in SUBSET DOMAIN places /\ 0 \in 0..n
    BY <1>1, <1>2
  <2> QED BY <1>9, <2>1
<1>11. ASSUME NEW k \in 1..n PROVE k - 1 \in 0..n /\ T[k] = T[k - 1] \o Written(entries, k)
  <2>4. 1..k \in SUBSET (1..n)
    BY <1>1
  <2>1. /\ k \in Nat \ {0} /\ 1..k \in SUBSET DOMAIN places /\ 1..k # {} /\ k \in 0..n /\ k - 1 \in 0..n
        /\ k \in 1..k
    <3>1. k \in 1..k /\ k \in Nat \ {0} /\ k \in 0..n /\ k - 1 \in 0..n
      BY <1>1
    <3> QED BY <1>2, <2>4, <3>1
  <2>2. Max(1..k) = k /\ (1..k) \ {k} = 1..(k - 1)
    BY <2>1, MaxOfInterval
  <2>3. iter[1..k] = iter[(1..k) \ {Max(1..k)}] \o Written(entries, places[Max(1..k)])
    BY <1>9, <2>1
  <2>5. places[k] = k
    BY <1>2
  <2> HIDE DEF Fix
  <2> QED BY <2>1, <2>2, <2>3, <2>5
<1>12. T \in [0..n -> Data]
  <2> DEFINE Q == {k \in 0..n : T[k] \in Data}
  <2>1. Q \in SUBSET Nat /\ 0 \in Q
    BY <1>1, <1>4, <1>10
  <2>2. ASSUME NEW k \in 1..n, k - 1 \in Q PROVE k \in Q
    <3> HIDE DEF T
    <3>1. T[k - 1] \in Data /\ Written(entries, k) \in Data /\ k \in 0..n
      BY <1>1, <2>2
    <3>2. T[k] \in Data
      BY <1>11, <3>1, JoinedText
    <3> QED BY <3>1, <3>2
  <2> HIDE DEF Q
  <2>3. \A k \in 0..n : k \in Q
    BY <1>1, <2>1, <2>2, UpTo
  <2> QED BY <2>3 DEF Q
<1>13. ya_config_save(c) = T[n]
  <2>1. n \in 0..n
    BY <1>1
  <2> QED BY <1>2, <1>3, <2>1
<1> HIDE DEF T
<1>14. /\ T[0] = <<>> /\ \A k \in 1..n : T[k] = T[k - 1] \o Written(c.entries, k)
       /\ ya_config_save(c) = T[n] /\ T \in [0..n -> Data]
  BY <1>10, <1>11, <1>12, <1>13 DEF entries
<1> QED BY <1>14

\* What ya_config_save writes is a text.
LEMMA SavedText ==
    ASSUME NEW c \in Config
    PROVE  ya_config_save(c) \in Data
<1> DEFINE n == Len(c.entries)
<1>1. n \in Nat
  BY ConfigType
<1> HIDE DEF n
<1>2. n = Len(c.entries)
  BY DEF n
<1>3. \E T \in [0..n -> Data] : ya_config_save(c) = T[n]
  BY <1>2, SavedInTurn
<1>4. n \in 0..n
  BY <1>1
<1> QED BY <1>3, <1>4

---------------------------------------------------------------------------
(* Reading a file that was saved, or the beginning of one. *)

KeptAll(entries) == \A i \in 1..Len(entries) : Kept(entries[i])

\* The header of an entry changes the section alone.
LEMMA SaysGap ==
    ASSUME NEW i \in Nat, NEW text, NEW s, s \in Reading, Says(text, LineLength, s)
    PROVE  Gap(i) \in Data /\ Says(text \o Gap(i), LineLength, s)
<1>1. CASE i > 1
  <2>1. Gap(i) = <<Newline>>
    BY <1>1 DEF Gap
  <2>2. FullLine(<<Newline>>, LineLength)
    <3>1. <<Newline>> \in Data /\ Len(<<Newline>>) = 1 /\ <<Newline>>[1] = Newline
      BY BlankLine
    <3> DEFINE a == <<Newline>>
    <3> HIDE DEF a
    <3>2. a \in Data /\ Len(a) = 1 /\ a[1] = Newline
      BY <3>1 DEF a
    <3>3. FullLine(a, LineLength)
      BY <3>2, ConfigFileAssumption DEF FullLine
    <3> QED BY <3>3 DEF a
  <2>3. Parsed(s, <<Newline>>) = s /\ <<Newline>> \in Data
    BY BlankLine
  <2>4. Says(text \o <<Newline>>, LineLength, Parsed(s, <<Newline>>))
    BY <2>2, SaysMore, ConfigFileAssumption
  <2> QED BY <2>1, <2>3, <2>4
<1>2. CASE ~ i > 1
  <2>1. Gap(i) = <<>> /\ <<>> \in Data
    BY <1>2, EmptySeq DEF Gap, Data
  <2>2. text \o <<>> = text
    BY Bytes, ConcatEmptySeq DEF Says
  <2> QED BY <2>1, <2>2
<1> QED BY <1>1, <1>2

LEMMA SaysSection ==
    ASSUME NEW e, Kept(e), NEW text, NEW s, s \in Reading, Says(text, LineLength, s)
    PROVE  /\ FullLine(SectionLine(e.section), LineLength)
           /\ [section |-> e.section, config |-> s.config] \in Reading
           /\ Says(text \o SectionLine(e.section), LineLength, [section |-> e.section, config |-> s.config])
<1> DEFINE sec == e.section
           opened == [section |-> sec, config |-> s.config]
           line == SectionLine(sec)
<1>1. sec \in Data /\ Solid(sec) /\ Places(sec, {Closing}) = {} /\ Len(sec) < NameLength /\ NoNewline(sec)
  BY KeptEntry
<1> HIDE DEF sec
<1>2. Len(sec) + 3 < LineLength
  <2>1. Len(sec) \in Nat
    BY <1>1, Bytes
  <2> QED BY <1>1, <2>1, ConfigFileAssumption
<1>3. FullLine(line, LineLength)
  BY <1>1, <1>2, SectionFull, ConfigFileAssumption
<1>4. Parsed(s, line) = opened
  BY <1>1, HeaderLine DEF SectionLine
<1>5. opened \in Reading
  BY <1>1 DEF Reading
<1> HIDE DEF line, opened
<1>6. Says(text \o line, LineLength, opened)
  BY <1>3, <1>4, SaysMore, ConfigFileAssumption
<1> QED BY <1>3, <1>5, <1>6 DEF line, opened, sec

LEMMA SaysHeading ==
    ASSUME NEW c \in Config, KeptAll(c.entries), NEW k \in 1..Len(c.entries),
           NEW text, NEW s, Says(text, LineLength, s), Got(c.entries, k - 1, s)
    PROVE  /\ [section |-> c.entries[k].section, config |-> s.config] \in Reading
           /\ Says(text \o Heading(c.entries, k), LineLength,
                   [section |-> c.entries[k].section, config |-> s.config])
<1> DEFINE e == c.entries[k]
           opened == [section |-> e.section, config |-> s.config]
<1>1. Kept(e) /\ s \in Reading /\ s.section = SectionAt(c.entries, k - 1) /\ text \in Data /\ k \in Nat
  <2>1. Len(c.entries) \in Nat
    BY ConfigType
  <2> QED BY <2>1 DEF KeptAll, Got, Says
<1>2. Heading(c.entries, k) = IF e.section = s.section THEN <<>> ELSE Gap(k) \o SectionLine(e.section)
  BY <1>1 DEF Heading
<1>3. s = [section |-> s.section, config |-> s.config]
  BY <1>1 DEF Reading
<1> HIDE DEF e
<1>4. CASE e.section = s.section
  <2>1. opened = s
    BY <1>3, <1>4
  <2>2. text \o <<>> = text
    BY <1>1, Bytes, ConcatEmptySeq
  <2>3. Heading(c.entries, k) = <<>>
    BY <1>2, <1>4
  <2> HIDE DEF opened
  <2>4. opened \in Reading /\ Says(text \o Heading(c.entries, k), LineLength, opened)
    BY <1>1, <2>1, <2>2, <2>3
  <2> QED BY <2>4 DEF opened, e
<1>5. CASE e.section # s.section
  <2> DEFINE g == Gap(k)
             line == SectionLine(e.section)
  <2>1. g \in Data /\ Says(text \o g, LineLength, s)
    BY <1>1, SaysGap
  <2>2. line \in Data /\ opened \in Reading /\ Says(text \o g \o line, LineLength, opened)
    BY <1>1, <2>1, SaysSection DEF FullLine
  <2>3. Heading(c.entries, k) = g \o line
    BY <1>2, <1>5
  <2> HIDE DEF g, line, opened
  <2>4. text \o g \o line = text \o (g \o line)
    <3>1. JoinsTwo(text, g, line)
      BY <1>1, <2>1, <2>2, JoinedTwo
    <3> QED BY <3>1, Zenon DEF JoinsTwo
  <2>5. Says(text \o Heading(c.entries, k), LineLength, opened)
    BY <2>2, <2>3, <2>4, Zenon
  <2> QED BY <2>2, <2>5 DEF opened, e
<1> QED BY <1>4, <1>5

\* The entry itself, or as much of its value as is there.
LEMMA PairGot ==
    ASSUME NEW c \in Config, NEW k \in 1..Len(c.entries), Kept(c.entries[k]),
           NEW s, Got(c.entries, k - 1, s),
           NEW u \in Data, Len(u) <= Len(c.entries[k].value), Readable(c.entries[k].key, u),
           NEW w \in Data, \A j \in 1..Len(w) : w[j] \in White
    PROVE  LET e == c.entries[k]
               r == Parsed([section |-> e.section, config |-> s.config], e.key \o <<Equals>> \o u \o w)
           IN  /\ r \in Reading /\ r.section = e.section
               /\ Len(r.config.entries) = k
               /\ \A i \in 1..(k - 1) : r.config.entries[i] = c.entries[i]
               /\ r.config.entries[k] = [section |-> e.section, key |-> e.key, value |-> u]
<1> DEFINE e == c.entries[k]
           opened == [section |-> e.section, config |-> s.config]
           new == [section |-> e.section, key |-> e.key, value |-> u]
<1>1. /\ s.config \in Config /\ Len(s.config.entries) = k - 1
      /\ \A i \in 1..(k - 1) : s.config.entries[i] = c.entries[i]
  BY DEF Got, Reading
<1>2. k \in Nat \ {0} /\ Len(c.entries) \in Nat
  BY ConfigType
<1>3. e.section \in Data /\ Len(e.section) < NameLength /\ e.key \in Data /\ Len(e.key) < NameLength
      /\ e.value \in Data /\ Len(e.value) < ValueLength
  BY KeptEntry DEF Readable
<1>4. new \in FitEntry
  <2>1. Len(u) < ValueLength
    <3>1. Len(u) \in Nat /\ Len(e.value) \in Nat
      BY <1>3, Bytes
    <3> QED BY <1>3, <3>1, ConfigFileAssumption
  <2> HIDE DEF e
  <2> QED BY <1>3, <2>1 DEF FitEntry
<1>5. Entry(e.section, e.key, u) = new
  BY EntryIs
<1>6. opened \in Reading
  BY <1>1, <1>3 DEF Reading
<1>7. Parsed(opened, e.key \o <<Equals>> \o u \o w) = [section |-> e.section, config |-> Added(s.config, new)]
  <2>1. Parsed(opened, e.key \o <<Equals>> \o u \o w) =
            [section |-> opened.section, config |-> Added(opened.config, Entry(opened.section, e.key, u))]
    <3> HIDE DEF opened
    <3>1. Readable(e.key, u)
      OBVIOUS
    <3> HIDE DEF e
    <3> QED BY <1>6, <3>1, PairLine
  <2>2. opened.section = e.section /\ opened.config = s.config
    OBVIOUS
  <2> HIDE DEF opened, new, e
  <2> QED BY <1>5, <2>1, <2>2
<1>8. /\ Added(s.config, new) \in Config /\ Len(Added(s.config, new).entries) = k
      /\ \A i \in 1..(k - 1) : Added(s.config, new).entries[i] = s.config.entries[i]
      /\ Added(s.config, new).entries[k] = new
  <2> HIDE DEF new
  <2> QED BY <1>1, <1>2, <1>4, OneMore
<1> DEFINE r == Parsed(opened, e.key \o <<Equals>> \o u \o w)
<1>9. r = [section |-> e.section, config |-> Added(s.config, new)]
  BY <1>7
<1> HIDE DEF r, new, opened
<1>10. r \in Reading /\ r.section = e.section /\ r.config = Added(s.config, new)
  BY <1>3, <1>8, <1>9 DEF Reading
<1>11. /\ r \in Reading /\ r.section = e.section /\ Len(r.config.entries) = k
       /\ \A i \in 1..(k - 1) : r.config.entries[i] = c.entries[i]
       /\ r.config.entries[k] = new
  <2> HIDE DEF e
  <2> QED BY <1>1, <1>8, <1>10
<1> QED BY <1>11 DEF r, new, opened, e

\* A value on the line of its key ends at the newline.
LEMMA EntryGot ==
    ASSUME NEW c \in Config, KeptAll(c.entries), NEW k \in 1..Len(c.entries),
           NEW s, Got(c.entries, k - 1, s)
    PROVE  LET e == c.entries[k]
               r == Parsed([section |-> e.section, config |-> s.config], EntryLine(e))
           IN  FullLine(EntryLine(e), LineLength) /\ Got(c.entries, k, r)
<1> DEFINE e == c.entries[k]
           opened == [section |-> e.section, config |-> s.config]
           w == <<Newline>>
           r == Parsed(opened, e.key \o <<Equals>> \o e.value \o w)
<1>1. Kept(e) /\ k \in Nat \ {0}
  <2>1. Len(c.entries) \in Nat
    BY ConfigType
  <2> QED BY <2>1 DEF KeptAll
<1>2. e.value \in Data /\ Readable(e.key, e.value) /\ Len(e.key) + Len(e.value) + 2 < LineLength
      /\ e = [section |-> e.section, key |-> e.key, value |-> e.value]
  <2> HIDE DEF e
  <2> QED BY <1>1, KeptEntry DEF Readable
<1>3. w \in Data /\ \A j \in 1..Len(w) : w[j] \in White
  BY DEF Data, Byte, White, Newline
<1>4. Len(e.value) <= Len(e.value)
  <2> HIDE DEF e
  <2>1. Len(e.value) \in Nat
    BY <1>2, Bytes
  <2> QED BY <2>1
<1> HIDE DEF w
<1>5. /\ r \in Reading /\ r.section = e.section /\ Len(r.config.entries) = k
      /\ \A i \in 1..(k - 1) : r.config.entries[i] = c.entries[i]
      /\ r.config.entries[k] = [section |-> e.section, key |-> e.key, value |-> e.value]
  BY <1>1, <1>2, <1>3, <1>4, PairGot
<1>6. EntryLine(e) = e.key \o <<Equals>> \o e.value \o w
  BY DEF EntryLine, w
<1>7. FullLine(EntryLine(e), LineLength)
  <2> HIDE DEF e
  <2> QED BY <1>1, <1>2, EntryFull, ConfigFileAssumption
<1> HIDE DEF r, opened
<1>8. Got(c.entries, k, r)
  <2>1. SectionAt(c.entries, k) = e.section
    BY <1>1 DEF SectionAt
  <2>2. \A i \in 1..k : i \in 1..(k - 1) \/ i = k
    BY <1>1
  <2>3. r.config.entries[k] = c.entries[k]
    BY <1>2, <1>5
  <2> HIDE DEF e
  <2> QED BY <1>5, <2>1, <2>2, <2>3 DEF Got
<1> QED BY <1>6, <1>7, <1>8 DEF r, opened, e

LEMMA SaysEntry ==
    ASSUME NEW c \in Config, KeptAll(c.entries), NEW k \in 1..Len(c.entries),
           NEW text, NEW s, Says(text, LineLength, s), Got(c.entries, k - 1, s)
    PROVE  \E r : Says(text \o Written(c.entries, k), LineLength, r) /\ Got(c.entries, k, r)
<1> DEFINE e == c.entries[k]
           opened == [section |-> e.section, config |-> s.config]
           head == Heading(c.entries, k)
           line == EntryLine(e)
           r == Parsed(opened, line)
<1>1. opened \in Reading /\ Says(text \o head, LineLength, opened)
  BY SaysHeading
<1>2. FullLine(line, LineLength) /\ Got(c.entries, k, r)
  BY EntryGot
<1>3. Written(c.entries, k) = head \o line /\ head \in Data /\ line \in Data /\ text \in Data
  BY WrittenIs DEF Says
<1> HIDE DEF opened, head, line, e
<1>4. Says(text \o head \o line, LineLength, r)
  BY <1>1, <1>2, SaysMore, ConfigFileAssumption
<1>5. text \o head \o line = text \o (head \o line)
  <2>1. JoinsTwo(text, head, line)
    BY <1>3, JoinedTwo
  <2> QED BY <2>1, Zenon DEF JoinsTwo
<1> HIDE DEF r
<1>6. Says(text \o Written(c.entries, k), LineLength, r)
  BY <1>3, <1>4, <1>5, Zenon
<1> QED BY <1>2, <1>6

\* What the entries are when the file ends within entry k.
Part(entries, k, r) ==
    /\ Len(r) \in {k - 1, k} /\ \A i \in 1..(k - 1) : r[i] = entries[i]
    /\ Len(r) = k => SameEntry(r[k], entries[k]) /\ IsPrefix(r[k].value, entries[k].value)

LEMMA NotYet ==
    ASSUME NEW entries, NEW k \in Nat \ {0}, NEW s, Got(entries, k - 1, s)
    PROVE  Part(entries, k, s.config.entries)
BY DEF Got, Part

LEMMA PrefixOf ==
    ASSUME NEW a \in Data, NEW b \in Data, Len(a) <= Len(b), \A i \in 1..Len(a) : a[i] = b[i]
    PROVE  IsPrefix(a, b)
<1>1. Len(a) \in Nat /\ Len(b) \in Nat /\ Len(a) \in 0..Len(a) /\ Len(a) \in 0..Len(b)
  BY Bytes
<1> DEFINE x == SubSeq(b, 1, Len(a))
<1>2. x \in Data /\ Len(x) = Len(a) /\ \A i \in 1..Len(a) : x[i] = b[i]
  BY <1>1, Beginning
<1>3. SubSeq(a, 1, Len(a)) = a
  BY WholePart
<1> HIDE DEF x
<1>4. a = x
  BY <1>2, SameText
<1> QED BY <1>3, <1>4 DEF IsPrefix, x

\* What is left of a value is a value.
LEMMA PartReadable ==
    ASSUME NEW key, NEW value, Readable(key, value), NEW v \in Data, v # <<>>, Len(v) <= Len(value),
           \A i \in 1..Len(v) : v[i] = value[i]
    PROVE  \E u \in Data : \E w \in Data :
              /\ v = u \o w /\ Readable(key, u) /\ \A j \in 1..Len(w) : w[j] \in White
              /\ Len(u) <= Len(value) /\ IsPrefix(u, value)
<1>1. value \in Data /\ Solid(value) /\ Places(value, {Hash, Semicolon, Quote}) = {}
      /\ Len(value) \in Nat /\ Len(v) \in Nat
  BY Bytes DEF Readable
<1>2. Len(v) > 0 /\ 1 \in 1..Len(v)
  BY <1>1, Bytes
<1>3. value # <<>> /\ v[1] \notin White
  <2>1. Len(value) # 0
    BY <1>1, <1>2
  <2>2. value # <<>>
    BY <1>1, <2>1, Bytes
  <2> QED BY <1>1, <1>2, <2>2 DEF Solid
<1>4. PICK w \in Data : \E u \in Data : /\ v = u \o w /\ u # <<>> /\ Solid(u)
                                        /\ \A j \in 1..Len(w) : w[j] \in White
  BY <1>3, TrimmedEnd
<1>5. PICK u \in Data : v = u \o w /\ Solid(u)
  BY <1>4
<1>6. /\ Len(v) = Len(u) + Len(w) /\ Len(u) \in Nat /\ Len(w) \in Nat
      /\ \A i \in 1..Len(u) : v[i] = u[i]
  BY <1>5, JoinedBytes
<1>7. Len(u) <= Len(value) /\ \A i \in 1..Len(u) : u[i] = value[i] /\ i \in 1..Len(value)
  <2>1. \A i \in 1..Len(u) : i \in 1..Len(v) /\ i \in 1..Len(value)
    BY <1>1, <1>6
  <2> QED BY <1>1, <1>6, <2>1
<1>8. IsPrefix(u, value)
  BY <1>1, <1>7, PrefixOf
<1>9. Places(u, {Hash, Semicolon, Quote}) = {}
  <2>1. \A i \in 1..Len(value) : value[i] \notin {Hash, Semicolon, Quote}
    BY <1>1, NoneThere
  <2>2. \A i \in 1..Len(u) : u[i] \notin {Hash, Semicolon, Quote}
    BY <1>7, <2>1
  <2> QED BY <2>2, NoneThere
<1>10. Readable(key, u)
  BY <1>5, <1>9 DEF Readable
<1> QED BY <1>4, <1>5, <1>7, <1>8, <1>10

\* The entries of the file so far.
EntriesOf(text) == ReadIn(LinesOf(text, LineLength)).config.entries

LEMMA NothingReadable ==
    ASSUME NEW key, NEW value, Readable(key, value)
    PROVE  Readable(key, <<>>) /\ <<>> \in Data /\ Len(<<>>) = 0 /\ IsPrefix(<<>>, value)
<1> DEFINE n == <<>>
<1>1. n \in Data /\ Len(n) = 0
  BY EmptySeq DEF Data
<1>2. n = <<>>
  OBVIOUS
<1> HIDE DEF n
<1>3. \A i \in 1..Len(n) : FALSE
  BY <1>1
<1>4. Solid(n) /\ Places(n, {Hash, Semicolon, Quote}) = {}
  <2>1. Places(n, {Hash, Semicolon, Quote}) = {}
    BY <1>1, <1>3, NoneThere
  <2> QED BY <1>2, <2>1 DEF Solid
<1>5. Readable(key, n)
  BY <1>1, <1>4 DEF Readable
<1>6. IsPrefix(n, value)
  <2>1. Len(n) <= Len(value) /\ value \in Data
    BY <1>1, Bytes DEF Readable
  <2> QED BY <1>1, <1>3, <2>1, PrefixOf
<1> QED BY <1>1, <1>2, <1>5, <1>6

LEMMA CutPair ==
    ASSUME NEW c \in Config, NEW k \in 1..Len(c.entries), Kept(c.entries[k]),
           NEW s, Got(c.entries, k - 1, s),
           NEW u \in Data, Len(u) <= Len(c.entries[k].value), Readable(c.entries[k].key, u),
           IsPrefix(u, c.entries[k].value),
           NEW w \in Data, \A j \in 1..Len(w) : w[j] \in White
    PROVE  Part(c.entries, k, Parsed([section |-> c.entries[k].section, config |-> s.config],
                                     c.entries[k].key \o <<Equals>> \o u \o w).config.entries)
<1> DEFINE e == c.entries[k]
           r == Parsed([section |-> e.section, config |-> s.config], e.key \o <<Equals>> \o u \o w).config.entries
           new == [section |-> e.section, key |-> e.key, value |-> u]
<1>1. Len(r) = k /\ (\A i \in 1..(k - 1) : r[i] = c.entries[i]) /\ r[k] = new
  BY PairGot
<1>2. new.section = e.section /\ new.key = e.key /\ new.value = u /\ IsPrefix(u, e.value)
  OBVIOUS
<1> HIDE DEF r, new
<1>3. SameEntry(r[k], e) /\ IsPrefix(r[k].value, e.value)
  BY <1>1, <1>2 DEF SameEntry
<1> QED BY <1>1, <1>3 DEF Part, r, e

LEMMA PartOfPair ==
    ASSUME NEW c \in Config, KeptAll(c.entries), NEW k \in 1..Len(c.entries),
           NEW s, Got(c.entries, k - 1, s), NEW text,
           NEW opened, opened = [section |-> c.entries[k].section, config |-> s.config],
           opened \in Reading, Says(text, LineLength, opened),
           NEW j \in Nat, j < Len(EntryLine(c.entries[k]))
    PROVE  Part(c.entries, k, EntriesOf(text \o SubSeq(EntryLine(c.entries[k]), 1, j)))
<1> DEFINE e == c.entries[k]
           key == e.key
           value == e.value
           ke == key \o <<Equals>>
           line == ke \o value
<1>1. Kept(e) /\ k \in Nat \ {0}
  <2>1. Len(c.entries) \in Nat
    BY ConfigType
  <2> QED BY <2>1 DEF KeptAll
<1>2. key \in Data /\ value \in Data /\ Readable(key, value) /\ Len(key) + Len(value) + 2 < LineLength
      /\ NoNewline(key) /\ NoNewline(value) /\ EntryLine(e) = line \o <<Newline>>
      /\ Len(EntryLine(e)) = Len(key) + Len(value) + 2
  <2>1. Len(key) + Len(value) + 2 < LineLength
    BY <1>1, KeptEntry
  <2>2. Len(EntryLine(e)) = Len(key) + Len(value) + 2
    <3> HIDE DEF e
    <3> QED BY <1>1, <2>1, EntryFull, ConfigFileAssumption
  <2>3. Readable(key, value) /\ NoNewline(key) /\ NoNewline(value)
    BY <1>1, KeptEntry
  <2>4. EntryLine(e) = line \o <<Newline>>
    BY DEF EntryLine
  <2> HIDE DEF key, value, line, e
  <2> QED BY <2>1, <2>2, <2>3, <2>4 DEF Readable
<1>3. line \in Data /\ Len(line) = Len(key) + 1 + Len(value) /\ NoNewline(line)
  <2> HIDE DEF key, value
  <2> QED BY <1>2, EntryText
<1>4. ke \in Data /\ Len(ke) = Len(key) + 1 /\ Len(key) \in Nat /\ Len(value) \in Nat
  <2>1. Equals \in Byte
    BY DEF Byte, Equals
  <2> HIDE DEF key, value
  <2> QED BY <1>2, <2>1, ByteLast, Bytes
<1>5. opened.config = s.config /\ j < Len(EntryLine(e)) /\ opened = [section |-> e.section, config |-> s.config]
  OBVIOUS
<1>6. \A u \in Data, w \in Data :
          /\ Len(u) <= Len(value) /\ Readable(key, u) /\ IsPrefix(u, value)
          /\ \A i \in 1..Len(w) : w[i] \in White
          => Part(c.entries, k, Parsed(opened, key \o <<Equals>> \o u \o w).config.entries)
  BY <1>1, <1>5, CutPair
<1> HIDE DEF line
<1>7. j \in 0..Len(line) /\ j < LineLength
  <2> HIDE DEF key, value, e
  <2> QED BY <1>2, <1>3, <1>4, <1>5, ConfigFileAssumption
<1> DEFINE x == SubSeq(line, 1, j)
<1>8. x \in Data /\ Len(x) = j /\ NoNewline(x) /\ SubSeq(EntryLine(e), 1, j) = x
  <2>1. SubSeq(line \o <<Newline>>, 1, j) = x /\ x \in Data /\ Len(x) = j /\ NoNewline(x)
    BY <1>3, <1>7, CutLine
  <2> HIDE DEF x, e
  <2> QED BY <1>2, <2>1
<1> DEFINE r == ReadIn(LinesOf(text \o x, LineLength))
<1>9. r = IF x = <<>> THEN opened ELSE Parsed(opened, x)
  <2>1. \A i \in 1..Len(x) : x[i] # Newline
    BY <1>8 DEF NoNewline
  <2> HIDE DEF x
  <2> QED BY <1>7, <1>8, <2>1, SaysLast, ConfigFileAssumption
<1>10. EntriesOf(text \o SubSeq(EntryLine(e), 1, j)) = r.config.entries
  BY <1>8 DEF EntriesOf
<1>11. r.config = s.config => Part(c.entries, k, r.config.entries)
  <2>1. Part(c.entries, k, s.config.entries)
    BY <1>1, NotYet
  <2> HIDE DEF r
  <2> QED BY <2>1
<1>12. x = IF j <= Len(ke) THEN SubSeq(ke, 1, j) ELSE ke \o SubSeq(value, 1, j - Len(ke))
  <2>1. j \in 0..(Len(ke) + Len(value))
    BY <1>3, <1>4, <1>7
  <2> HIDE DEF ke, value
  <2>2. SubSeq(ke \o value, 1, j) = IF j <= Len(ke) THEN SubSeq(ke, 1, j) ELSE ke \o SubSeq(value, 1, j - Len(ke))
    BY <1>2, <1>4, <2>1, BeginningOfTwo
  <2> QED BY <2>2 DEF line
<1> HIDE DEF x, r
<1> SUFFICES Part(c.entries, k, r.config.entries)
  BY <1>10, Zenon DEF e
<1>13. CASE x = <<>>
  BY <1>5, <1>9, <1>11, <1>13
<1>14. CASE x # <<>> /\ j <= Len(key)
  <2>1. x = SubSeq(key, 1, j)
    <3>1. j <= Len(ke) /\ j \in 0..(Len(key) + Len(<<Equals>>)) /\ Len(<<Equals>>) = 1
      BY <1>4, <1>14
    <3>2. <<Equals>> \in Data
      BY DEF Data, Byte, Equals
    <3> DEFINE d == <<Equals>>
    <3>3. d \in Data /\ j \in 0..(Len(key) + Len(d))
      BY <3>1, <3>2
    <3> HIDE DEF d, key, value, e
    <3>4. SubSeq(key \o d, 1, j) = SubSeq(key, 1, j)
      BY <1>2, <1>14, <3>3, BeginningOfTwo
    <3> QED BY <1>12, <3>1, <3>4 DEF d
  <2>2. Places(x, {Equals}) = {}
    <3> HIDE DEF key, value, e
    <3>1. j \in 0..Len(key)
      BY <1>4, <1>14
    <3>2. Len(x) = j /\ \A i \in 1..j : x[i] = key[i] /\ i \in 1..Len(key)
      BY <1>2, <2>1, <3>1, Beginning
    <3>3. \A i \in 1..Len(key) : key[i] \notin {Equals}
      BY <1>2, NoneThere DEF Readable
    <3>4. \A i \in 1..Len(x) : x[i] \notin {Equals}
      BY <3>2, <3>3
    <3> QED BY <1>8, <3>4, NoneThere
  <2>3. Parsed(opened, x).config = opened.config
    BY <1>8, <2>2, NoEquals
  <2> QED BY <1>5, <1>9, <1>11, <1>14, <2>3
<1>15. CASE x # <<>> /\ j = Len(key) + 1
  <2> DEFINE n == <<>>
  <2>1. x = ke
    <3> HIDE DEF ke
    <3>1. SubSeq(ke, 1, Len(ke)) = ke
      BY <1>4, WholePart
    <3> QED BY <1>4, <1>12, <1>15, <3>1
  <2>2. Readable(key, n) /\ n \in Data /\ Len(n) = 0 /\ IsPrefix(n, value)
    BY <1>2, NothingReadable
  <2>3. ke \o n \o n = ke
    <3>1. ke \o <<>> = ke
      <4> HIDE DEF ke
      <4> QED BY <1>4, Bytes, ConcatEmptySeq
    <3> QED BY <3>1
  <2> HIDE DEF n
  <2>4. \A i \in 1..Len(n) : n[i] \in White
    BY <2>2
  <2>5. Len(n) <= Len(value)
    BY <1>4, <2>2
  <2>6. Part(c.entries, k, Parsed(opened, key \o <<Equals>> \o n \o n).config.entries)
    <3> HIDE DEF key, value, e
    <3> QED BY <1>6, <2>2, <2>4, <2>5
  <2>7. Parsed(opened, key \o <<Equals>> \o n \o n) = r
    <3>1. r = Parsed(opened, x)
      BY <1>9, <1>15
    <3> QED BY <2>1, <2>3, <3>1
  <2> QED BY <2>6, <2>7
<1>16. CASE x # <<>> /\ j > Len(key) + 1
  <2> DEFINE v == SubSeq(value, 1, j - Len(ke))
  <2>1. x = ke \o v
    <3> HIDE DEF key, value, ke, e, v
    <3>1. ~ j <= Len(ke)
      BY <1>4, <1>16
    <3> QED BY <1>12, <3>1 DEF v
  <2>2. j - Len(ke) \in 0..Len(value) /\ j - Len(ke) > 0
    <3> HIDE DEF key, value, ke, e, v
    <3>1. j <= Len(line) /\ Len(line) = Len(key) + 1 + Len(value) /\ Len(ke) = Len(key) + 1 /\ j > Len(key) + 1
      BY <1>3, <1>4, <1>7, <1>16
    <3> QED BY <1>4, <3>1
  <2>3. v \in Data /\ Len(v) = j - Len(ke) /\ \A i \in 1..Len(v) : v[i] = value[i]
    <3> HIDE DEF value, ke
    <3> QED BY <1>2, <2>2, Beginning
  <2> HIDE DEF v
  <2>4. v # <<>> /\ Len(v) <= Len(value)
    <3> HIDE DEF value, ke
    <3>1. Len(v) # 0 /\ Len(v) <= Len(value)
      BY <1>4, <2>2, <2>3
    <3> QED BY <2>3, <3>1, Bytes
  <2>5. PICK u \in Data, w \in Data :
            /\ v = u \o w /\ Readable(key, u) /\ \A i \in 1..Len(w) : w[i] \in White
            /\ Len(u) <= Len(value) /\ IsPrefix(u, value)
    <3> HIDE DEF key, value, ke
    <3> QED BY <1>2, <2>3, <2>4, PartReadable
  <2>6. Part(c.entries, k, Parsed(opened, key \o <<Equals>> \o u \o w).config.entries)
    <3> HIDE DEF key, value, e
    <3> QED BY <1>6, <2>5
  <2>7. r = Parsed(opened, key \o <<Equals>> \o u \o w)
    <3>1. ke \o u \o w = ke \o (u \o w)
      <4>1. JoinsTwo(ke, u, w)
        BY <1>4, JoinedTwo
      <4> HIDE DEF ke
      <4> QED BY <4>1, Zenon DEF JoinsTwo
    <3>2. x = ke \o u \o w
      BY <2>1, <2>5, <3>1
    <3> QED BY <1>9, <1>16, <3>2
  <2> QED BY <2>6, <2>7
<1>17. j <= Len(key) \/ j = Len(key) + 1 \/ j > Len(key) + 1
  <2> HIDE DEF key
  <2> QED BY <1>4
<1> QED BY <1>13, <1>14, <1>15, <1>16, <1>17

\* A header that is cut short adds no entry.
LEMMA PartOfSection ==
    ASSUME NEW e, Kept(e), NEW text, NEW s, s \in Reading, Says(text, LineLength, s),
           NEW j \in 0..Len(SectionLine(e.section))
    PROVE  ReadIn(LinesOf(text \o SubSeq(SectionLine(e.section), 1, j), LineLength)).config = s.config
<1> DEFINE sec == e.section
           full == SectionLine(sec)
           line == <<Opening>> \o sec \o <<Closing>>
           opened == [section |-> sec, config |-> s.config]
<1>1. FullLine(full, LineLength) /\ Says(text \o full, LineLength, opened)
  BY SaysSection
<1>2. sec \in Data /\ NoNewline(sec) /\ Len(sec) < NameLength
  BY KeptEntry
<1>3. /\ line \in Data /\ Len(line) = Len(sec) + 2 /\ NoNewline(line) /\ line[1] = Opening
      /\ full = line \o <<Newline>>
  <2> HIDE DEF sec
  <2> QED BY <1>2, SectionText2
<1>4. j \in 0..Len(full) /\ opened.config = s.config
  OBVIOUS
<1> SUFFICES ReadIn(LinesOf(text \o SubSeq(full, 1, j), LineLength)).config = s.config
  OBVIOUS
<1> HIDE DEF opened
<1>5. full \in Data /\ Len(full) < LineLength /\ Len(full) = Len(line) + 1 /\ Len(line) \in Nat /\ Len(full) \in Nat
  <2>1. Newline \in Byte
    BY DEF Byte, Newline
  <2> HIDE DEF line, full
  <2>2. Len(line \o <<Newline>>) = Len(line) + 1 /\ Len(line) \in Nat
    BY <1>3, <2>1, ByteLast
  <2>3. full \in Data /\ Len(full) \in 1..(LineLength - 1)
    BY <1>1 DEF FullLine
  <2> QED BY <1>3, <2>2, <2>3, ConfigFileAssumption
<1> HIDE DEF full, line, sec
<1>6. CASE j = Len(full)
  <2>1. SubSeq(full, 1, j) = full
    BY <1>5, <1>6, WholePart
  <2>2. ReadIn(LinesOf(text \o full, LineLength)) = opened
    BY <1>1 DEF Says
  <2> QED BY <1>4, <2>1, <2>2
<1>7. CASE j < Len(full)
  <2> DEFINE x == SubSeq(line, 1, j)
  <2>1. j \in 0..Len(line) /\ j < LineLength /\ j \in Nat
    BY <1>4, <1>5, <1>7, ConfigFileAssumption
  <2>2. x \in Data /\ Len(x) = j /\ NoNewline(x) /\ SubSeq(line \o <<Newline>>, 1, j) = x
    BY <1>3, <2>1, CutLine
  <2>3. \A i \in 1..j : x[i] = line[i]
    BY <1>3, <2>1, Beginning
  <2> HIDE DEF x
  <2>4. SubSeq(full, 1, j) = x
    BY <1>3, <2>2
  <2>5. ReadIn(LinesOf(text \o x, LineLength)) = IF x = <<>> THEN s ELSE Parsed(s, x)
    <3>1. \A i \in 1..Len(x) : x[i] # Newline
      BY <2>2 DEF NoNewline
    <3> QED BY <2>1, <2>2, <3>1, SaysLast, ConfigFileAssumption
  <2>6. CASE x = <<>>
    BY <2>4, <2>5, <2>6
  <2>7. CASE x # <<>>
    <3>1. 1 \in 1..j /\ x[1] = Opening
      <4>1. 1 \in 1..j
        BY <2>2, <2>7, Bytes
      <4> QED BY <1>3, <2>3, <4>1
    <3>2. Head(x) = x[1] /\ Tail(x) \in Seq(Byte) /\ x \in Seq(Byte)
      BY <2>2, <2>7, HeadTailProperties DEF Data
    <3> DEFINE t == Tail(x)
    <3>3. t \in Data /\ x = <<Opening>> \o t
      <4>1. t \in Data /\ Len(t) = Len(x) - 1 /\ \A i \in 1..Len(t) : t[i] = x[i + 1]
        BY <2>2, <2>7, HeadTailProperties DEF Data
      <4>2. Opening \in Byte
        BY DEF Byte, Opening
      <4> HIDE DEF t
      <4> DEFINE y == <<Opening>> \o t
      <4>3. /\ y \in Data /\ Len(y) = 1 + Len(t) /\ y[1] = Opening
            /\ \A i \in 1..Len(t) : y[1 + i] = t[i]
        BY <4>1, <4>2, ByteFirst
      <4> HIDE DEF y
      <4>4. Len(y) = Len(x) /\ Len(t) \in Nat /\ Len(x) = 1 + Len(t)
        <5>1. Len(t) \in Nat /\ Len(x) \in Nat
          BY <2>2, <4>1, Bytes
        <5> QED BY <4>1, <4>3, <5>1
      <4>5. ASSUME NEW i \in 1..Len(y) PROVE y[i] = x[i]
        <5>1. CASE i = 1
          BY <3>1, <4>3, <5>1
        <5>2. CASE i # 1
          <6>1. i - 1 \in 1..Len(t) /\ 1 + (i - 1) = i /\ (i - 1) + 1 = i
            BY <4>4, <5>2
          <6>2. y[1 + (i - 1)] = t[i - 1] /\ t[i - 1] = x[(i - 1) + 1]
            BY <4>1, <4>3, <6>1
          <6> QED BY <6>1, <6>2
        <5> QED BY <5>1, <5>2
      <4>6. y = x
        BY <2>2, <4>3, <4>4, <4>5, SameText
      <4> QED BY <4>1, <4>6 DEF y
    <3> HIDE DEF t
    <3>4. Parsed(s, x).config = s.config
      BY <3>3, OpenHeader
    <3> QED BY <2>4, <2>5, <2>7, <3>4
  <2> QED BY <2>6, <2>7
<1>8. j = Len(full) \/ j < Len(full)
  BY <1>4, <1>5
<1> QED BY <1>6, <1>7, <1>8

LEMMA PartOfHeading ==
    ASSUME NEW c \in Config, KeptAll(c.entries), NEW k \in 1..Len(c.entries),
           NEW text, NEW s, Says(text, LineLength, s), Got(c.entries, k - 1, s),
           NEW j \in 0..Len(Heading(c.entries, k))
    PROVE  Part(c.entries, k, EntriesOf(text \o SubSeq(Heading(c.entries, k), 1, j)))
<1> DEFINE e == c.entries[k]
           head == Heading(c.entries, k)
           x == SubSeq(head, 1, j)
           r == ReadIn(LinesOf(text \o x, LineLength))
<1>1. Kept(e) /\ k \in Nat \ {0} /\ s \in Reading /\ text \in Data /\ head \in Data
  <2>1. Len(c.entries) \in Nat
    BY ConfigType
  <2>2. head \in Data
    BY WrittenIs
  <2> QED BY <2>1, <2>2 DEF KeptAll, Got, Says
<1>2. r.config = s.config => Part(c.entries, k, r.config.entries)
  <2>1. Part(c.entries, k, s.config.entries)
    BY <1>1, NotYet
  <2> HIDE DEF r
  <2> QED BY <2>1
<1>3. ReadIn(LinesOf(text, LineLength)) = s
  BY DEF Says
<1> DEFINE g == Gap(k)
           line == SectionLine(e.section)
<1>4. head = <<>> \/ head = g \o line
  BY DEF Heading
<1>5. g \in Data /\ line \in Data /\ Says(text \o g, LineLength, s) /\ Len(g) \in Nat /\ Len(line) \in Nat
  <2>1. g \in Data /\ line \in Data
    BY WrittenIs
  <2>2. Says(text \o g, LineLength, s)
    BY <1>1, SaysGap
  <2> QED BY <2>1, <2>2, Bytes
<1>6. j \in 0..Len(head)
  OBVIOUS
<1>7. g = <<>> \/ Len(g) = 1
  BY DEF Gap
<1>8. EntriesOf(text \o x) = r.config.entries
  BY DEF EntriesOf
<1> SUFFICES r.config = s.config
  BY <1>2, <1>8
<1>9. ASSUME NEW i \in 0..Len(line)
      PROVE  ReadIn(LinesOf(text \o g \o SubSeq(line, 1, i), LineLength)).config = s.config
  <2>1. i \in 0..Len(SectionLine(e.section))
    OBVIOUS
  <2> HIDE DEF g, e
  <2> QED BY <1>1, <1>5, <2>1, PartOfSection
<1> HIDE DEF e, head, g, line
<1>10. CASE j = 0
  <2>1. x = <<>>
    <3>1. x \in Data /\ Len(x) = j
      BY <1>1, <1>6, Beginning
    <3> HIDE DEF x
    <3> QED BY <1>10, <3>1, Bytes
  <2>2. text \o <<>> = text
    BY <1>1, Bytes, ConcatEmptySeq
  <2> QED BY <1>3, <2>1, <2>2
<1>11. CASE j > 0
  <2>1. head = g \o line
    <3>1. Len(head) \in Nat /\ Len(head) # 0
      BY <1>1, <1>6, <1>11, Bytes
    <3> QED BY <1>1, <1>4, <3>1, Bytes
  <2>2. Len(head) = Len(g) + Len(line)
    BY <1>5, <2>1, JoinedBytes
  <2>3. x = IF j <= Len(g) THEN SubSeq(g, 1, j) ELSE g \o SubSeq(line, 1, j - Len(g))
    <3>1. j \in 0..(Len(g) + Len(line))
      BY <1>6, <2>2
    <3>2. SubSeq(g \o line, 1, j) = IF j <= Len(g) THEN SubSeq(g, 1, j) ELSE g \o SubSeq(line, 1, j - Len(g))
      BY <1>5, <3>1, BeginningOfTwo
    <3> QED BY <2>1, <3>2
  <2>4. CASE j <= Len(g)
    <3>1. j = Len(g)
      <4>1. Len(g) = 1
        <5>1. Len(g) # 0
          BY <1>5, <1>6, <1>11, <2>4
        <5> QED BY <1>5, <1>7, <5>1, Bytes
      <4> QED BY <1>5, <1>6, <1>11, <2>4, <4>1
    <3>2. x = g
      BY <1>5, <2>3, <2>4, <3>1, WholePart
    <3>3. ReadIn(LinesOf(text \o g, LineLength)) = s
      BY <1>5 DEF Says
    <3> QED BY <3>2, <3>3
  <2>5. CASE ~ j <= Len(g)
    <3> DEFINE i == j - Len(g)
               y == SubSeq(line, 1, i)
    <3>1. i \in 0..Len(line)
      BY <1>5, <1>6, <2>2, <2>5
    <3>2. x = g \o y
      BY <2>3, <2>5
    <3>3. y \in Data
      <4> HIDE DEF i
      <4> QED BY <1>5, <3>1, Beginning
    <3>4. ReadIn(LinesOf(text \o g \o y, LineLength)).config = s.config
      <4> HIDE DEF i
      <4> QED BY <1>9, <3>1
    <3> HIDE DEF y, x
    <3>5. text \o g \o y = text \o (g \o y)
      <4>1. JoinsTwo(text, g, y)
        BY <1>1, <1>5, <3>3, JoinedTwo
      <4> QED BY <4>1, Zenon DEF JoinsTwo
    <3>6. text \o x = text \o g \o y
      BY <3>2, <3>5, Zenon
    <3>7. r = ReadIn(LinesOf(text \o g \o y, LineLength))
      BY <3>6, Zenon
    <3> QED BY <3>4, <3>7, Zenon
  <2> QED BY <2>4, <2>5
<1>12. j = 0 \/ j > 0
  <2>1. Len(head) \in Nat
    BY <1>1, Bytes
  <2> QED BY <1>6, <2>1
<1> QED BY <1>10, <1>11, <1>12

LEMMA PartOfEntry ==
    ASSUME NEW c \in Config, KeptAll(c.entries), NEW k \in 1..Len(c.entries),
           NEW text, NEW s, Says(text, LineLength, s), Got(c.entries, k - 1, s),
           NEW j \in 0..(Len(Written(c.entries, k)) - 1)
    PROVE  Part(c.entries, k, EntriesOf(text \o SubSeq(Written(c.entries, k), 1, j)))
<1> DEFINE e == c.entries[k]
           head == Heading(c.entries, k)
           line == EntryLine(e)
           opened == [section |-> e.section, config |-> s.config]
           full == Written(c.entries, k)
           x == SubSeq(full, 1, j)
<1>1. head \in Data /\ line \in Data /\ full = head \o line /\ text \in Data
  BY WrittenIs DEF Says
<1>2. opened \in Reading /\ Says(text \o head, LineLength, opened)
  BY SaysHeading
<1>3. \A i \in 0..Len(head) : Part(c.entries, k, EntriesOf(text \o SubSeq(head, 1, i)))
  BY PartOfHeading
<1>4. \A i \in Nat : i < Len(line) => Part(c.entries, k, EntriesOf(text \o head \o SubSeq(line, 1, i)))
  <2> HIDE DEF head
  <2> QED BY <1>2, PartOfPair
<1> HIDE DEF head, line, full, opened
<1>5. Len(full) = Len(head) + Len(line) /\ Len(head) \in Nat /\ Len(line) \in Nat /\ j \in 0..(Len(full) - 1)
  BY <1>1, JoinedBytes DEF full
<1>6. x = IF j <= Len(head) THEN SubSeq(head, 1, j) ELSE head \o SubSeq(line, 1, j - Len(head))
  <2>1. j \in 0..(Len(head) + Len(line))
    BY <1>5
  <2>2. SubSeq(head \o line, 1, j) = IF j <= Len(head) THEN SubSeq(head, 1, j) ELSE head \o SubSeq(line, 1, j - Len(head))
    BY <1>1, <2>1, BeginningOfTwo
  <2> QED BY <1>1, <2>2
<1> SUFFICES Part(c.entries, k, EntriesOf(text \o x))
  BY DEF full
<1>7. CASE j <= Len(head)
  <2>1. j \in 0..Len(head) /\ x = SubSeq(head, 1, j)
    BY <1>5, <1>6, <1>7
  <2> HIDE DEF x
  <2> QED BY <1>3, <2>1
<1>8. CASE ~ j <= Len(head)
  <2> DEFINE i == j - Len(head)
             y == SubSeq(line, 1, i)
  <2>1. x = head \o y
    BY <1>6, <1>8
  <2>2. i \in Nat /\ i < Len(line) /\ i \in 0..Len(line)
    BY <1>5, <1>8
  <2>3. y \in Data
    <3> HIDE DEF i
    <3> QED BY <1>1, <2>2, Beginning
  <2>4. Part(c.entries, k, EntriesOf(text \o head \o y))
    <3> HIDE DEF i
    <3> QED BY <1>4, <2>2
  <2> HIDE DEF x, y
  <2>5. text \o x = text \o head \o y
    <3>1. JoinsTwo(text, head, y)
      BY <1>1, <2>3, JoinedTwo
    <3>2. text \o head \o y = text \o (head \o y)
      BY <3>1, Zenon DEF JoinsTwo
    <3> QED BY <2>1, <3>2, Zenon
  <2> QED BY <2>4, <2>5, Zenon
<1> QED BY <1>7, <1>8

\* What a beginning of a saved file reads as.
ReadsAs(entries, r) ==
    LET n == Len(r)
    IN  /\ n <= Len(entries) /\ \A i \in 1..n - 1 : r[i] = entries[i]
        /\ n > 0 => SameEntry(r[n], entries[n]) /\ IsPrefix(r[n].value, entries[n].value)

LEMMA PrefixOfItself ==
    ASSUME NEW a \in Data
    PROVE  IsPrefix(a, a)
<1>1. Len(a) <= Len(a)
  BY Bytes
<1> QED BY <1>1, PrefixOf

LEMMA GotReads ==
    ASSUME NEW c \in Config, NEW k \in 0..Len(c.entries), NEW s, Got(c.entries, k, s)
    PROVE  ReadsAs(c.entries, s.config.entries)
<1> DEFINE r == s.config.entries
<1>1. Len(r) = k /\ (\A i \in 1..k : r[i] = c.entries[i]) /\ k \in Nat /\ k <= Len(c.entries)
  BY ConfigType DEF Got
<1> HIDE DEF r
<1>2. \A i \in 1..(k - 1) : i \in 1..k
  BY <1>1
<1>3. ASSUME k > 0 PROVE SameEntry(r[k], c.entries[k]) /\ IsPrefix(r[k].value, c.entries[k].value)
  <2>1. k \in 1..k /\ k \in 1..Len(c.entries)
    BY <1>1, <1>3, ConfigType
  <2>2. c.entries[k] \in FitEntry
    BY <2>1, ConfigType
  <2>3. c.entries[k].value \in Data
    BY <2>2 DEF FitEntry
  <2> QED BY <1>1, <2>1, <2>3, PrefixOfItself DEF SameEntry
<1> QED BY <1>1, <1>2, <1>3 DEF ReadsAs, r

LEMMA PartReads ==
    ASSUME NEW c \in Config, NEW k \in 1..Len(c.entries), NEW r, Part(c.entries, k, r)
    PROVE  ReadsAs(c.entries, r)
<1>1. k \in Nat \ {0} /\ k <= Len(c.entries) /\ Len(c.entries) \in Nat
  BY ConfigType
<1>2. CASE Len(r) = k
  BY <1>1, <1>2 DEF Part, ReadsAs
<1>3. CASE Len(r) # k
  <2>1. Len(r) = k - 1 /\ \A i \in 1..(k - 1) : r[i] = c.entries[i]
    BY <1>3 DEF Part
  <2>2. Len(r) <= Len(c.entries) /\ Len(r) \in Nat
    BY <1>1, <2>1
  <2>3. \A i \in 1..(Len(r) - 1) : r[i] = c.entries[i]
    <3>1. \A i \in 1..(Len(r) - 1) : i \in 1..(k - 1)
      BY <1>1, <2>1
    <3> QED BY <2>1, <3>1
  <2>4. ASSUME Len(r) > 0
        PROVE  SameEntry(r[Len(r)], c.entries[Len(r)]) /\ IsPrefix(r[Len(r)].value, c.entries[Len(r)].value)
    <3>1. Len(r) \in 1..(k - 1) /\ Len(r) \in 1..Len(c.entries)
      BY <1>1, <2>1, <2>4
    <3>2. c.entries[Len(r)] \in FitEntry /\ r[Len(r)] = c.entries[Len(r)]
      BY <2>1, <3>1, ConfigType
    <3>3. c.entries[Len(r)].value \in Data
      BY <3>2 DEF FitEntry
    <3> QED BY <3>2, <3>3, PrefixOfItself DEF SameEntry
  <2> QED BY <2>2, <2>3, <2>4 DEF ReadsAs
<1> QED BY <1>2, <1>3

LEMMA BegunGot ==
    ASSUME NEW entries
    PROVE  Begun \in Reading /\ Got(entries, 0, Begun)
<1> DEFINE n == <<>>
<1>1. n \in Data /\ Len(n) = 0 /\ n \in Seq(FitEntry)
  BY EmptySeq DEF Data
<1>2. ya_config_init = [entries |-> n, capacity |-> 0] /\ Begun = [section |-> n, config |-> ya_config_init]
  BY DEF ya_config_init, Begun
<1>3. SectionAt(entries, 0) = n
  BY DEF SectionAt
<1> HIDE DEF n
<1>4. ya_config_init \in Config
  BY <1>1, <1>2 DEF Config
<1>5. Begun \in Reading
  BY <1>1, <1>2, <1>4 DEF Reading
<1> QED BY <1>1, <1>2, <1>3, <1>5 DEF Got

LEMMA SameEntries ==
    ASSUME NEW c \in Config, NEW d \in Config, Len(c.entries) = Len(d.entries),
           \A i \in 1..Len(c.entries) : c.entries[i] = d.entries[i]
    PROVE  c.entries = d.entries
<1>1. c.entries \in Seq(FitEntry) /\ d.entries \in Seq(FitEntry)
  BY ConfigType
<1> QED BY <1>1, SeqEqual

\* However much of a saved file is there.
SavedUpTo(c, T, k) ==
    /\ \E s : Says(T[k], LineLength, s) /\ Got(c.entries, k, s)
    /\ \A m \in 0..Len(T[k]) : ReadsAs(c.entries, EntriesOf(SubSeq(T[k], 1, m)))

LEMMA SavedNothing ==
    ASSUME NEW c \in Config, NEW T, T[0] = <<>>
    PROVE  SavedUpTo(c, T, 0)
<1> DEFINE t == T[0]
<1>1. t \in Data /\ Len(t) = 0
  BY EmptySeq DEF Data
<1>2. Says(t, LineLength, Begun) /\ Got(c.entries, 0, Begun)
  BY SaysNothing, BegunGot, ConfigFileAssumption
<1> HIDE DEF t
<1>3. ReadsAs(c.entries, Begun.config.entries)
  <2>1. 0 \in 0..Len(c.entries)
    BY ConfigType
  <2> QED BY <1>2, <2>1, GotReads
<1>4. ASSUME NEW m \in 0..Len(t) PROVE ReadsAs(c.entries, EntriesOf(SubSeq(t, 1, m)))
  <2>1. m = Len(t)
    BY <1>1
  <2>2. SubSeq(t, 1, m) = t
    BY <1>1, <2>1, WholePart
  <2>3. EntriesOf(t) = Begun.config.entries
    BY <1>2 DEF Says, EntriesOf
  <2> QED BY <1>3, <2>2, <2>3
<1> QED BY <1>2, <1>4 DEF SavedUpTo, t

LEMMA SavedNext ==
    ASSUME NEW c \in Config, KeptAll(c.entries), NEW k \in 1..Len(c.entries), NEW T,
           T[k - 1] \in Data, T[k] = T[k - 1] \o Written(c.entries, k),
           Written(c.entries, k) \in Data, SavedUpTo(c, T, k - 1)
    PROVE  SavedUpTo(c, T, k)
<1> DEFINE a == T[k - 1]
           w == Written(c.entries, k)
           b == T[k]
<1>1. a \in Data /\ w \in Data /\ b = a \o w
  OBVIOUS
<1>2. PICK s : Says(a, LineLength, s) /\ Got(c.entries, k - 1, s)
  BY DEF SavedUpTo
<1>3. \A m \in 0..Len(a) : ReadsAs(c.entries, EntriesOf(SubSeq(a, 1, m)))
  BY DEF SavedUpTo
<1>4. PICK r : Says(a \o w, LineLength, r) /\ Got(c.entries, k, r)
  BY <1>2, SaysEntry
<1>5. \A j \in 0..(Len(w) - 1) : Part(c.entries, k, EntriesOf(a \o SubSeq(w, 1, j)))
  BY <1>2, PartOfEntry
<1> HIDE DEF a, b, w
<1>6. Len(b) = Len(a) + Len(w) /\ Len(a) \in Nat /\ Len(w) \in Nat /\ b \in Data
  BY <1>1, JoinedBytes
<1>7. ASSUME NEW m \in 0..Len(b) PROVE ReadsAs(c.entries, EntriesOf(SubSeq(b, 1, m)))
  <2>1. SubSeq(b, 1, m) = IF m <= Len(a) THEN SubSeq(a, 1, m) ELSE a \o SubSeq(w, 1, m - Len(a))
    <3>1. m \in 0..(Len(a) + Len(w))
      BY <1>6
    <3>2. SubSeq(a \o w, 1, m) = IF m <= Len(a) THEN SubSeq(a, 1, m) ELSE a \o SubSeq(w, 1, m - Len(a))
      BY <1>1, <3>1, BeginningOfTwo
    <3> QED BY <1>1, <3>2
  <2>2. CASE m <= Len(a)
    <3>1. m \in 0..Len(a)
      BY <1>6, <2>2
    <3> QED BY <1>3, <2>1, <2>2, <3>1
  <2>3. CASE ~ m <= Len(a) /\ m < Len(b)
    <3> DEFINE j == m - Len(a)
    <3>1. j \in 0..(Len(w) - 1)
      BY <1>6, <2>3
    <3>2. SubSeq(b, 1, m) = a \o SubSeq(w, 1, j)
      BY <2>1, <2>3
    <3> HIDE DEF j
    <3>3. Part(c.entries, k, EntriesOf(SubSeq(b, 1, m)))
      BY <1>5, <3>1, <3>2
    <3> QED BY <3>3, PartReads
  <2>4. CASE m = Len(b)
    <3>1. SubSeq(b, 1, m) = b
      BY <1>6, <2>4, WholePart
    <3>2. EntriesOf(b) = r.config.entries
      BY <1>1, <1>4 DEF Says, EntriesOf
    <3>3. ReadsAs(c.entries, r.config.entries)
      <4>1. k \in 0..Len(c.entries)
        BY ConfigType
      <4> QED BY <1>4, <4>1, GotReads
    <3> QED BY <3>1, <3>2, <3>3
  <2> QED BY <1>6, <2>2, <2>3, <2>4
<1>8. Says(b, LineLength, r) /\ Got(c.entries, k, r)
  BY <1>1, <1>4
<1> QED BY <1>7, <1>8 DEF SavedUpTo, b

LEMMA SavedReads ==
    ASSUME NEW c \in Config, KeptAll(c.entries)
    PROVE  /\ EntriesOf(ya_config_save(c)) = c.entries
           /\ \A m \in 0..Len(ya_config_save(c)) : ReadsAs(c.entries, EntriesOf(SubSeq(ya_config_save(c), 1, m)))
<1> DEFINE n == Len(c.entries)
<1>1. n \in Nat
  BY ConfigType
<1>2. \A i \in 1..n : Written(c.entries, i) \in Data
  BY WrittenFits
<1> HIDE DEF n
<1>3. n = Len(c.entries)
  BY DEF n
<1>4. PICK T \in [0..n -> Data] :
        /\ T[0] = <<>> /\ \A k \in 1..n : T[k] = T[k - 1] \o Written(c.entries, k)
        /\ ya_config_save(c) = T[n]
  BY <1>3, SavedInTurn
<1> DEFINE P == {k \in 0..n : SavedUpTo(c, T, k)}
<1>5. P \in SUBSET Nat /\ 0 \in P
  <2>1. SavedUpTo(c, T, 0)
    BY <1>4, SavedNothing
  <2> QED BY <1>1, <2>1
<1>6. ASSUME NEW k \in 1..n, k - 1 \in P PROVE k \in P
  <2>1. T[k - 1] \in Data /\ Written(c.entries, k) \in Data /\ T[k] = T[k - 1] \o Written(c.entries, k) /\ k \in 0..n
    <3>1. k - 1 \in 0..n /\ k \in 0..n
      BY <1>1
    <3> QED BY <1>2, <1>3, <1>4, <3>1
  <2>2. SavedUpTo(c, T, k - 1) /\ k \in 1..Len(c.entries)
    BY <1>3, <1>6
  <2>3. SavedUpTo(c, T, k)
    BY <2>1, <2>2, SavedNext
  <2> QED BY <2>1, <2>3
<1> HIDE DEF P
<1>7. \A k \in 0..n : k \in P
  BY <1>1, <1>5, <1>6, UpTo
<1>8. SavedUpTo(c, T, n)
  <2>1. n \in 0..n
    BY <1>1
  <2> QED BY <1>7, <2>1 DEF P
<1>9. PICK s : Says(T[n], LineLength, s) /\ Got(c.entries, n, s)
  BY <1>8 DEF SavedUpTo
<1>10. EntriesOf(ya_config_save(c)) = s.config.entries
  BY <1>4, <1>9 DEF Says, EntriesOf
<1>11. s.config.entries = c.entries
  <2>1. /\ s.config \in Config /\ Len(s.config.entries) = Len(c.entries)
        /\ \A i \in 1..Len(s.config.entries) : s.config.entries[i] = c.entries[i]
    BY <1>3, <1>9 DEF Got, Reading
  <2> QED BY <2>1, SameEntries
<1>12. \A m \in 0..Len(ya_config_save(c)) : ReadsAs(c.entries, EntriesOf(SubSeq(ya_config_save(c), 1, m)))
  BY <1>4, <1>8 DEF SavedUpTo
<1> QED BY <1>10, <1>11, <1>12

---------------------------------------------------------------------------
(* Reading it with the desktop application's parser. *)

Found == [section : Data, key : Data, value : Data]
DesktopReading == [group : Data, settings : SUBSET Found]

Opens(line) == Len(line) > 1 /\ Head(line) = Opening /\ Last(line) = Closing
Regrouped(s, group) == [group |-> group, settings |-> {x \in s.settings : x.section # group}]
Put(s, key, value) ==
    [group |-> s.group,
     settings |-> {x \in s.settings : x.section # s.group \/ x.key # key} \cup {Setting(s.group, key, value)}]

PutLine(s, line) ==
    Put(s, trim_whitespace(Before(line, {Equals})), trim_whitespace(After(line, {Equals})))

LEMMA DesktopCases ==
    ASSUME NEW s \in DesktopReading, NEW text, NEW line, line = trim_whitespace(text)
    PROVE  /\ line = <<>> \/ Head(line) = Hash => DesktopParsed(s, text) = s
           /\ line # <<>> /\ Head(line) # Hash /\ Opens(line) =>
                 DesktopParsed(s, text) = Regrouped(s, SubSeq(line, 2, Len(line) - 1))
           /\ line # <<>> /\ Head(line) # Hash /\ ~ Opens(line) =>
                 DesktopParsed(s, text) =
                    IF s.group = <<>> \/ Places(line, {Equals}) = {} THEN s ELSE PutLine(s, line)
<1> DEFINE key == trim_whitespace(Before(line, {Equals}))
           value == trim_whitespace(After(line, {Equals}))
           group == SubSeq(line, 2, Len(line) - 1)
           new == {x \in s.settings : x.section # s.group \/ x.key # key} \cup {Setting(s.group, key, value)}
           put == [s EXCEPT !.settings = new]
           opened == Regrouped(s, group)
<1>1. s = [group |-> s.group, settings |-> s.settings]
  BY DEF DesktopReading
<1>2. put = PutLine(s, line)
  <2>1. Put(s, key, value) = [group |-> s.group, settings |-> new]
    BY Zenon DEF Put
  <2> HIDE DEF new
  <2>2. put = [group |-> s.group, settings |-> new]
    BY <1>1
  <2> QED BY <2>1, <2>2, Zenon DEF PutLine
<1> DEFINE putting == IF s.group = <<>> \/ Places(line, {Equals}) = {} THEN s ELSE put
<1>3. DesktopParsed(s, text) =
         CASE line = <<>> \/ Head(line) = Hash -> s
           [] Len(line) > 1 /\ Head(line) = Opening /\ Last(line) = Closing -> opened
           [] OTHER -> putting
  BY Zenon DEF DesktopParsed, Regrouped
<1>4. Opens(line) <=> Len(line) > 1 /\ Head(line) = Opening /\ Last(line) = Closing
  BY DEF Opens
<1>5. Opens(line) => Head(line) # Hash
  BY <1>4 DEF Opening, Hash
<1> DEFINE blank == line = <<>> \/ Head(line) = Hash
<1>6. DesktopParsed(s, text) = CASE blank -> s [] Opens(line) -> opened [] OTHER -> putting
  BY <1>3, <1>4, Zenon
<1>9. ~ (<<>> # <<>>) /\ Len(<<>>) = 0
  BY EmptySeq
<1>10. blank => ~ Opens(line)
  BY <1>4, <1>5, <1>9
<1>11. line # <<>> /\ Head(line) # Hash <=> ~ blank
  OBVIOUS
<1> HIDE DEF opened, putting, blank
<1>7. /\ blank => DesktopParsed(s, text) = s
      /\ ~ blank /\ Opens(line) => DesktopParsed(s, text) = opened
      /\ ~ blank /\ ~ Opens(line) => DesktopParsed(s, text) = putting
  BY <1>6, <1>10
<1>8. putting = IF s.group = <<>> \/ Places(line, {Equals}) = {} THEN s ELSE PutLine(s, line)
  BY <1>2 DEF putting
<1>12. line = <<>> \/ Head(line) = Hash <=> blank
  BY DEF blank
<1> QED BY <1>7, <1>8, <1>11, <1>12, Zenon DEF opened

LEMMA DesktopFits ==
    ASSUME NEW s \in DesktopReading, NEW text \in Data
    PROVE  DesktopParsed(s, text) \in DesktopReading
<1> DEFINE line == trim_whitespace(text)
           key == trim_whitespace(Before(line, {Equals}))
           value == trim_whitespace(After(line, {Equals}))
           group == SubSeq(line, 2, Len(line) - 1)
<1>1. s.group \in Data /\ s.settings \in SUBSET Found
  BY DEF DesktopReading
<1>2. line \in Data
  BY TrimmedText
<1> HIDE DEF line
<1>3. key \in Data /\ value \in Data
  BY <1>2, CutText, TrimmedText
<1>4. Opens(line) => group \in Data
  <2>1. Len(line) \in Nat
    BY <1>2, Bytes
  <2>2. Len(line) - 1 \in Int /\ Len(line) - 1 <= Len(line) /\ 2 \in Nat \ {0}
    BY <2>1
  <2> DEFINE l == Len(line) - 1
  <2>3. l \in Int /\ l <= Len(line)
    BY <2>2
  <2> HIDE DEF l
  <2>4. SubSeq(line, 2, l) \in Data
    BY <1>2, <2>2, <2>3, PartOfText
  <2> QED BY <2>4 DEF l
<1> HIDE DEF key, value, group
<1>5. Put(s, key, value) \in DesktopReading
  <2>1. Setting(s.group, key, value) \in Found
    BY <1>1, <1>3 DEF Setting, Found
  <2> DEFINE x == Setting(s.group, key, value)
             S == s.settings
             kept == {y \in S : y.section # s.group \/ y.key # key}
  <2>2. kept \cup {x} \in SUBSET Found
    <3> HIDE DEF x
    <3> QED BY <1>1, <2>1 DEF x
  <2> HIDE DEF x, kept
  <2>3. [group |-> s.group, settings |-> kept \cup {x}] \in DesktopReading
    BY <1>1, <2>2 DEF DesktopReading
  <2> QED BY <2>3, Zenon DEF Put, x, kept
<1>6. group \in Data => Regrouped(s, group) \in DesktopReading
  BY <1>1 DEF Regrouped, DesktopReading
<1> DEFINE put == PutLine(s, line)
           opened == Regrouped(s, group)
<1>7. put = Put(s, key, value)
  BY Zenon DEF PutLine, key, value
<1>8. line = trim_whitespace(text)
  BY DEF line
<1> HIDE DEF put, opened
<1>10. /\ line = <<>> \/ Head(line) = Hash => DesktopParsed(s, text) = s
       /\ line # <<>> /\ Head(line) # Hash /\ Opens(line) => DesktopParsed(s, text) = opened
       /\ line # <<>> /\ Head(line) # Hash /\ ~ Opens(line) =>
             DesktopParsed(s, text) = IF s.group = <<>> \/ Places(line, {Equals}) = {} THEN s ELSE put
  BY <1>8, DesktopCases, Zenon DEF put, opened, group
<1>9. put \in DesktopReading /\ (Opens(line) => opened \in DesktopReading)
  BY <1>4, <1>5, <1>6, <1>7 DEF opened
<1> QED BY <1>9, <1>10

LEMMA DesktopBlank ==
    ASSUME NEW s \in DesktopReading
    PROVE  <<Newline>> \in Data /\ DesktopParsed(s, <<Newline>>) = s
<1>1. <<Newline>> \in Data /\ \A k \in 1..Len(<<Newline>>) : <<Newline>>[k] \in White
  BY DEF Data, Byte, Newline, White
<1> DEFINE text == <<Newline>>
           line == trim_whitespace(text)
<1>2. line = <<>>
  BY <1>1, TrimmedWhite
<1> HIDE DEF text, line
<1>3. line = trim_whitespace(text)
  BY DEF line
<1>4. DesktopParsed(s, text) = s
  BY <1>2, <1>3, DesktopCases
<1> QED BY <1>1, <1>4 DEF text

\* The text between the brackets.
LEMMA Bracketed ==
    ASSUME NEW sec \in Data, NEW m, m = <<Opening>> \o sec \o <<Closing>>
    PROVE  /\ m \in Data /\ Len(m) = Len(sec) + 2 /\ Len(sec) \in Nat /\ m # <<>>
           /\ Head(m) = Opening /\ m[1] = Opening /\ m[Len(m)] = Closing /\ Last(m) = Closing
           /\ SubSeq(m, 2, Len(m) - 1) = sec
<1> DEFINE o == <<Opening>> \o sec
           x == o \o <<Closing>>
<1>1. Opening \in Byte /\ Closing \in Byte
  BY DEF Byte, Opening, Closing
<1>2. /\ o \in Data /\ Len(o) = 1 + Len(sec) /\ o[1] = Opening /\ Len(sec) \in Nat
      /\ \A i \in 1..Len(sec) : o[1 + i] = sec[i]
  BY <1>1, ByteFirst, Bytes
<1>3. m = x
  OBVIOUS
<1> HIDE DEF o
<1>4. x \in Data /\ Len(x) = Len(o) + 1 /\ (\A i \in 1..Len(o) : x[i] = o[i]) /\ x[Len(o) + 1] = Closing
  BY <1>1, <1>2, ByteLast
<1> HIDE DEF x
<1>5. m \in Data /\ Len(m) = Len(sec) + 2 /\ m[1] = Opening /\ m[Len(m)] = Closing
  <2>1. 1 \in 1..Len(o) /\ Len(o) + 1 = Len(sec) + 2
    BY <1>2
  <2> DEFINE n == Len(o) + 1
  <2>2. n = Len(sec) + 2
    BY <2>1
  <2>3. Len(x) = n /\ x[n] = Closing /\ x[1] = o[1]
    BY <1>4, <2>1, Zenon
  <2> HIDE DEF n
  <2>4. Len(m) = n /\ m[n] = Closing /\ m[1] = o[1] /\ m \in Data
    BY <1>3, <1>4, <2>3, Zenon
  <2>5. Len(m) = Len(sec) + 2 /\ m[Len(m)] = Closing
    BY <2>2, <2>4, Zenon
  <2> QED BY <1>2, <2>4, <2>5, Zenon
<1>6. m # <<>> /\ Head(m) = m[1] /\ Last(m) = m[Len(m)]
  <2>1. m # <<>>
    BY <1>2, <1>5, Bytes
  <2> QED BY <1>5, <2>1, HeadTailProperties DEF Data, Last
<1>7. SubSeq(m, 2, Len(m) - 1) = sec
  <2> DEFINE l == Len(sec) + 1
             y == SubSeq(m, 2, l)
             two == 2
  <2>1. l \in Nat /\ l <= Len(m) /\ 2 \in Nat \ {0} /\ (IF 2 <= l THEN l - 2 + 1 ELSE 0) = Len(sec)
        /\ l - 2 + 1 = Len(sec) /\ Len(m) - 1 = l
    BY <1>2, <1>5
  <2> HIDE DEF l
  <2>5. /\ SubSeq(m, two, l) \in Data
        /\ Len(SubSeq(m, two, l)) = IF two <= l THEN l - two + 1 ELSE 0
        /\ \A i \in 1..(l - two + 1) : SubSeq(m, two, l)[i] = m[two + i - 1]
    <3>1. m \in Data /\ two \in Nat \ {0} /\ l \in Nat /\ l <= Len(m)
      BY <1>5, <2>1
    <3> HIDE DEF two
    <3> QED BY <3>1, PartBytes, Zenon
  <2>6. y = SubSeq(m, two, l)
    BY Zenon
  <2>7. (IF two <= l THEN l - two + 1 ELSE 0) = Len(sec) /\ l - two + 1 = Len(sec)
    BY <2>1
  <2>8. y \in Data /\ Len(y) = Len(sec) /\ \A i \in 1..Len(sec) : y[i] = m[two + i - 1]
    <3> HIDE DEF two, y
    <3> QED BY <2>5, <2>6, <2>7, Zenon
  <2>2. y \in Data /\ Len(y) = Len(sec) /\ \A i \in 1..Len(sec) : y[i] = m[2 + i - 1]
    BY <2>8, Zenon
  <2> HIDE DEF y
  <2>3. ASSUME NEW i \in 1..Len(sec) PROVE y[i] = sec[i]
    <3>1. 2 + i - 1 = 1 + i /\ 1 + i \in 1..Len(o)
      BY <1>2
    <3>2. m[1 + i] = o[1 + i]
      BY <1>3, <1>4, <3>1
    <3> QED BY <1>2, <2>2, <3>1, <3>2
  <2>4. y = sec
    BY <2>2, <2>3, SameText
  <2> QED BY <2>1, <2>4 DEF y
<1> QED BY <1>2, <1>5, <1>6, <1>7

LEMMA DesktopHeader ==
    ASSUME NEW s \in DesktopReading, NEW sec \in Data, NoNewline(sec)
    PROVE  SectionLine(sec) \in Data /\ DesktopParsed(s, SectionLine(sec)) = Regrouped(s, sec)
<1> DEFINE m == <<Opening>> \o sec \o <<Closing>>
           text == SectionLine(sec)
<1>1. SectionLine(sec) = m \o <<Newline>>
  BY SectionText2
<1>2. m = <<Opening>> \o sec \o <<Closing>>
  OBVIOUS
<1> HIDE DEF m
<1>3. /\ m \in Data /\ Len(m) = Len(sec) + 2 /\ Len(sec) \in Nat /\ m # <<>>
      /\ Head(m) = Opening /\ m[1] = Opening /\ m[Len(m)] = Closing /\ Last(m) = Closing
      /\ SubSeq(m, 2, Len(m) - 1) = sec
  BY <1>2, Bracketed
<1>4. <<Newline>> \in Data /\ \A k \in 1..Len(<<Newline>>) : <<Newline>>[k] \in White
  BY DEF Data, Byte, White, Newline
<1>5. text \in Data
  BY <1>1, <1>3, <1>4, JoinedText
<1>6. Solid(m)
  BY <1>3 DEF Solid, White, Opening, Closing
<1>7. m = trim_whitespace(text)
  BY <1>1, <1>3, <1>4, <1>6, TrimmedLine
<1>8. Opens(m) /\ Head(m) # Hash
  BY <1>3 DEF Opens, Opening, Hash
<1> HIDE DEF text
<1>9. DesktopParsed(s, text) = Regrouped(s, SubSeq(m, 2, Len(m) - 1))
  BY <1>3, <1>7, <1>8, DesktopCases
<1> QED BY <1>3, <1>5, <1>9 DEF text

LEMMA DesktopPair ==
    ASSUME NEW s \in DesktopReading, s.group # <<>>, NEW e, Kept(e)
    PROVE  EntryLine(e) \in Data /\ DesktopParsed(s, EntryLine(e)) = Put(s, e.key, e.value)
<1> DEFINE key == e.key
           value == e.value
           w == <<Newline>>
           line == key \o <<Equals>> \o value
           text == line \o w
<1>1. Readable(key, value)
  BY KeptEntry
<1>2. w \in Data /\ \A k \in 1..Len(w) : w[k] \in White
  BY DEF Data, Byte, White, Newline
<1>3. EntryLine(e) = text
  BY DEF EntryLine
<1> HIDE DEF key, value, w
<1>4. /\ line \in Data /\ text \in Data /\ trim_whitespace(text) = line /\ line # <<>>
      /\ Head(line) \notin {Hash, Semicolon, Opening}
      /\ Before(line, {Equals}) = key /\ After(line, {Equals}) = value
      /\ Places(line, {Equals}) # {}
  BY <1>1, <1>2, PairText
<1>5. trim_whitespace(key) = key /\ trim_whitespace(value) = value
  BY <1>1, TrimmedSolid DEF Readable
<1> HIDE DEF line, text
<1>6. Head(line) # Hash /\ ~ Opens(line)
  BY <1>4 DEF Opens
<1>7. DesktopParsed(s, text) = PutLine(s, line)
  BY <1>4, <1>6, DesktopCases
<1>8. PutLine(s, line) = Put(s, key, value)
  BY <1>4, <1>5, Zenon DEF PutLine
<1> QED BY <1>3, <1>4, <1>7, <1>8 DEF key, value

\* What the desktop application makes of the lines.
DesktopBegun == [group |-> <<>>, settings |-> {}]
DesktopReadIn(lines) == FoldLeft(DesktopParsed, DesktopBegun, lines)

LEMMA DesktopReadInTurn ==
    ASSUME NEW lines \in Seq(Data), NEW n, n = Len(lines)
    PROVE  \E R \in [0..n -> DesktopReading] :
              /\ R[0] = DesktopBegun /\ \A k \in 1..n : R[k] = DesktopParsed(R[k - 1], lines[k])
              /\ DesktopReadIn(lines) = R[n]
<1> DEFINE base == DesktopBegun
           f == [p \in DesktopReading \X (1..n) |-> DesktopParsed(p[1], lines[p[2]])]
           Fix(g) == g = [s \in SUBSET DOMAIN lines |->
                            IF s = {} THEN base ELSE DesktopParsed(g[s \ {Max(s)}], lines[Max(s)])]
           iter == CHOOSE g : Fix(g)
<1>2. n \in Nat /\ DOMAIN lines = 1..n /\ \A i \in 1..n : lines[i] \in Data
  BY ElementOfSeq, LenProperties
<1>3. DesktopReadIn(lines) = iter[DOMAIN lines]
  BY DEF DesktopReadIn, FoldLeft, MapThenFoldSet
<1> HIDE DEF iter
<1>4. base \in DesktopReading
  <2> DEFINE n0 == <<>>
  <2>1. n0 \in Data
    BY EmptySeq DEF Data
  <2> HIDE DEF n0
  <2>2. [group |-> n0, settings |-> {}] \in DesktopReading
    BY <2>1 DEF DesktopReading
  <2> QED BY <2>2 DEF n0, DesktopBegun
<1> HIDE DEF base
<1>5. \A t \in DesktopReading : \A k \in 1..n : f[<<t, k>>] = DesktopParsed(t, lines[k]) /\ f[<<t, k>>] \in DesktopReading
  BY <1>2, DesktopFits
<1> HIDE DEF f
<1>6. PICK g \in [SUBSET (1..n) -> DesktopReading] :
         \A s \in SUBSET (1..n) : g[s] = IF s = {} THEN base ELSE f[<<g[s \ {Max(s)}], Max(s)>>]
  <2>1. StaysIn(DesktopReading, n, f)
    BY <1>5, Zenon DEF StaysIn
  <2>2. n \in Nat
    BY <1>2
  <2>3. \E g : Runs(DesktopReading, n, base, f, g)
    BY <1>4, <2>1, <2>2, FoldExists, Zenon
  <2> QED BY <2>3 DEF Runs
<1>7. ASSUME NEW s \in SUBSET (1..n), s # {}
      PROVE  Max(s) \in 1..n /\ s \ {Max(s)} \in SUBSET (1..n)
  <2>1. s \in SUBSET (0..n)
    BY <1>2
  <2>2. Max(s) \in s
    BY <1>2, <1>7, <2>1, MaxOfNat
  <2> QED BY <2>2
<1>8. Fix(g)
  <2>1. ASSUME NEW s \in SUBSET (1..n)
        PROVE  g[s] = IF s = {} THEN base ELSE DesktopParsed(g[s \ {Max(s)}], lines[Max(s)])
    <3>1. CASE s = {}
      BY <1>6, <3>1
    <3>2. CASE s # {}
      <4>1. g[s \ {Max(s)}] \in DesktopReading
        BY <1>6, <1>7, <3>2
      <4> QED BY <1>5, <1>6, <1>7, <3>2, <4>1
    <3> QED BY <3>1, <3>2
  <2> QED BY <1>2, <1>6, <2>1
<1>9. Fix(iter)
  BY <1>8, Zenon DEF iter
<1> DEFINE R == [k \in 0..n |-> iter[1..k]]
<1>10. R[0] = base
  <2>1. 1..0 = {} /\ {} \in SUBSET DOMAIN lines /\ 0 \in 0..n
    BY <1>2
  <2> QED BY <1>9, <2>1
<1>11. ASSUME NEW k \in 1..n PROVE k - 1 \in 0..n /\ R[k] = DesktopParsed(R[k - 1], lines[k])
  <2>4. 1..k \in SUBSET (1..n)
    BY <1>2
  <2>1. /\ k \in Nat \ {0} /\ 1..k \in SUBSET DOMAIN lines /\ 1..k # {} /\ k \in 0..n /\ k - 1 \in 0..n
        /\ k \in 1..k
    <3>1. k \in 1..k /\ k \in Nat \ {0} /\ k \in 0..n /\ k - 1 \in 0..n
      BY <1>2
    <3> QED BY <1>2, <2>4, <3>1
  <2>2. Max(1..k) = k /\ (1..k) \ {k} = 1..(k - 1)
    BY <2>1, MaxOfInterval
  <2>3. iter[1..k] = DesktopParsed(iter[(1..k) \ {Max(1..k)}], lines[Max(1..k)])
    BY <1>9, <2>1
  <2> HIDE DEF Fix
  <2> QED BY <2>1, <2>2, <2>3
<1>12. R \in [0..n -> DesktopReading]
  <2> DEFINE Q == {k \in 0..n : R[k] \in DesktopReading}
  <2>1. Q \in SUBSET Nat /\ 0 \in Q
    BY <1>2, <1>4, <1>10
  <2>2. ASSUME NEW k \in 1..n, k - 1 \in Q PROVE k \in Q
    <3> HIDE DEF R
    <3> QED BY <1>2, <1>11, <2>2, DesktopFits
  <2> HIDE DEF Q
  <2>3. \A k \in 0..n : k \in Q
    BY <1>2, <2>1, <2>2, UpTo
  <2> QED BY <2>3 DEF Q
<1>13. DesktopReadIn(lines) = R[n]
  <2>1. n \in 0..n
    BY <1>2
  <2> QED BY <1>2, <1>3, <2>1
<1> HIDE DEF R
<1>14. /\ R[0] = DesktopBegun /\ \A k \in 1..n : R[k] = DesktopParsed(R[k - 1], lines[k])
       /\ DesktopReadIn(lines) = R[n] /\ R \in [0..n -> DesktopReading]
  BY <1>10, <1>11, <1>12, <1>13 DEF base
<1> QED BY <1>14

LEMMA DesktopReadNone == DesktopReadIn(<<>>) = DesktopBegun
<1> DEFINE e == <<>>
<1>1. e \in Seq(Data) /\ Len(e) = 0
  BY EmptySeq
<1> HIDE DEF e
<1>2. PICK R \in [0..0 -> DesktopReading] : R[0] = DesktopBegun /\ DesktopReadIn(e) = R[0]
  BY <1>1, DesktopReadInTurn
<1> QED BY <1>1, <1>2 DEF e

\* One more line.
LEMMA DesktopReadMore ==
    ASSUME NEW lines \in Seq(Data), NEW a \in Data
    PROVE  /\ DesktopReadIn(lines) \in DesktopReading /\ lines \o <<a>> \in Seq(Data)
           /\ DesktopReadIn(lines \o <<a>>) = DesktopParsed(DesktopReadIn(lines), a)
<1> DEFINE n == Len(lines)
           more == lines \o <<a>>
<1>1. <<a>> \in Seq(Data) /\ Len(<<a>>) = 1 /\ <<a>>[1] = a /\ n \in Nat
  BY LenProperties
<1>2. /\ more \in Seq(Data) /\ Len(more) = n + 1
      /\ \A i \in 1..(n + 1) : more[i] = IF i <= n THEN lines[i] ELSE <<a>>[i - n]
  BY <1>1, ConcatProperties
<1> HIDE DEF more, n
<1>3. (\A i \in 1..n : more[i] = lines[i]) /\ more[n + 1] = a
  <2>1. \A i \in 1..n : i \in 1..(n + 1) /\ i <= n
    BY <1>1
  <2>2. n + 1 \in 1..(n + 1) /\ ~ n + 1 <= n /\ (n + 1) - n = 1
    BY <1>1
  <2>3. more[n + 1] = <<a>>[(n + 1) - n]
    BY <1>2, <2>2
  <2>4. \A i \in 1..n : more[i] = lines[i]
    BY <1>2, <2>1
  <2> QED BY <1>1, <2>2, <2>3, <2>4
<1>4. PICK R \in [0..n -> DesktopReading] : /\ R[0] = DesktopBegun /\ \A k \in 1..n : R[k] = DesktopParsed(R[k - 1], lines[k])
                                     /\ DesktopReadIn(lines) = R[n]
  BY DesktopReadInTurn DEF n
<1>5. PICK Q \in [0..(n + 1) -> DesktopReading] : /\ Q[0] = DesktopBegun
                                           /\ \A k \in 1..(n + 1) : Q[k] = DesktopParsed(Q[k - 1], more[k])
                                           /\ DesktopReadIn(more) = Q[n + 1]
  BY <1>2, DesktopReadInTurn
<1> DEFINE P == {k \in 0..n : Q[k] = R[k]}
<1>6. P \in SUBSET Nat /\ 0 \in P
  BY <1>1, <1>4, <1>5
<1>7. ASSUME NEW k \in 1..n, k - 1 \in P PROVE k \in P
  <2>1. k \in 1..(n + 1) /\ k \in 0..n
    BY <1>1
  <2> QED BY <1>3, <1>4, <1>5, <1>7, <2>1
<1> HIDE DEF P
<1>8. \A k \in 0..n : k \in P
  BY <1>1, <1>6, <1>7, UpTo
<1>9. n \in 0..n /\ n + 1 \in 1..(n + 1) /\ (n + 1) - 1 = n
  BY <1>1
<1>10. Q[n] = R[n]
  BY <1>8, <1>9 DEF P
<1>11. Q[n + 1] = DesktopParsed(Q[n], a)
  BY <1>3, <1>5, <1>9
<1> QED BY <1>2, <1>4, <1>5, <1>9, <1>10, <1>11 DEF more

\* What a text says to the desktop application.
DesktopSays(text, size, d) ==
    (\E s : Says(text, size, s)) /\ DesktopReadIn(LinesOf(text, size)) = d

LEMMA DesktopSaysNothing ==
    ASSUME NEW size \in Nat, size >= 2
    PROVE  DesktopSays(<<>>, size, DesktopBegun)
<1> DEFINE e == <<>>
<1>1. Says(e, size, Begun)
  BY SaysNothing
<1>2. LinesOf(e, size) = <<>>
  <2>1. e \in Data /\ Len(e) = 0 /\ e = <<>>
    BY EmptySeq DEF Data
  <2> HIDE DEF e
  <2>2. Len(e) < size /\ \A j \in 1..Len(e) : e[j] # Newline
    BY <2>1
  <2> QED BY <2>1, <2>2, LastLine
<1> QED BY <1>1, <1>2, DesktopReadNone DEF DesktopSays

LEMMA DesktopSaysMore ==
    ASSUME NEW size \in Nat, size >= 2, NEW text, NEW d, DesktopSays(text, size, d), NEW a, FullLine(a, size)
    PROVE  DesktopSays(text \o a, size, DesktopParsed(d, a))
<1>1. PICK s : Says(text, size, s)
  BY DEF DesktopSays
<1>2. text \in Data /\ a \in Data
  BY <1>1 DEF Says, FullLine
<1> DEFINE L == LinesOf(text, size)
<1>3. L \in Seq(Data) /\ LinesOf(text \o a, size) = L \o <<a>>
  BY <1>1, <1>2, LinesOfText, OneLine DEF Says
<1>4. DesktopReadIn(L) = d
  BY DEF DesktopSays
<1>5. Says(text \o a, size, Parsed(s, a))
  BY <1>1, SaysMore
<1> HIDE DEF L
<1>6. DesktopReadIn(L \o <<a>>) = DesktopParsed(d, a)
  BY <1>2, <1>3, <1>4, DesktopReadMore
<1> QED BY <1>3, <1>5, <1>6 DEF DesktopSays

\* The entries that both parsers read.
BothRead(entries) ==
    /\ KeptAll(entries) /\ UniqueKeys(entries) /\ Contiguous(entries)
    /\ \A i \in 1..Len(entries) : entries[i].section # <<>>

SettingAt(entries, i) == Setting(entries[i].section, entries[i].key, entries[i].value)
SettingsTo(entries, k) == {SettingAt(entries, i) : i \in 1..k}

\* After k entries: their section, and a setting for each.
DesktopGot(entries, k, s) ==
    s \in DesktopReading /\ s.group = SectionAt(entries, k) /\ s.settings = SettingsTo(entries, k)

\* The header of a section that is new empties nothing.
LEMMA NothingDropped ==
    ASSUME NEW c \in Config, BothRead(c.entries), NEW k \in 1..Len(c.entries),
           c.entries[k].section # SectionAt(c.entries, k - 1)
    PROVE  {x \in SettingsTo(c.entries, k - 1) : x.section # c.entries[k].section} = SettingsTo(c.entries, k - 1)
<1> DEFINE entries == c.entries
<1>1. Len(entries) \in Nat /\ DOMAIN entries = 1..Len(entries)
  BY ConfigType
<1>2. ASSUME NEW i \in 1..(k - 1) PROVE entries[i].section # entries[k].section
  <2> SUFFICES ASSUME entries[i].section = entries[k].section PROVE FALSE
    OBVIOUS
  <2>1. i \in DOMAIN entries /\ k \in DOMAIN entries /\ i < k /\ k - 1 \in i..k /\ k - 1 # 0
    BY <1>1
  <2>2. entries[k - 1].section = entries[i].section
    BY <2>1 DEF BothRead, Contiguous
  <2> QED BY <2>1, <2>2 DEF SectionAt
<1>3. \A i \in 1..(k - 1) : SettingAt(entries, i).section = entries[i].section
  BY DEF SettingAt, Setting
<1> HIDE DEF entries
<1>4. {x \in SettingsTo(entries, k - 1) : x.section # entries[k].section} = SettingsTo(entries, k - 1)
  BY <1>2, <1>3 DEF SettingsTo
<1> QED BY <1>4 DEF entries

\* Nor does an entry whose key is new.
LEMMA NothingReplaced ==
    ASSUME NEW c \in Config, BothRead(c.entries), NEW k \in 1..Len(c.entries)
    PROVE  LET e == c.entries[k]
           IN  {x \in SettingsTo(c.entries, k - 1) : x.section # e.section \/ x.key # e.key} \cup
                   {Setting(e.section, e.key, e.value)}
               = SettingsTo(c.entries, k)
<1> DEFINE entries == c.entries
           e == entries[k]
<1>1. Len(entries) \in Nat /\ DOMAIN entries = 1..Len(entries) /\ k \in 1..k
  BY ConfigType
<1>2. ASSUME NEW i \in 1..(k - 1) PROVE entries[i].section # e.section \/ entries[i].key # e.key
  <2>1. i \in DOMAIN entries /\ k \in DOMAIN entries /\ i # k
    BY <1>1
  <2> QED BY <2>1 DEF BothRead, UniqueKeys
<1>3. \A i \in 1..(k - 1) : /\ SettingAt(entries, i).section = entries[i].section
                            /\ SettingAt(entries, i).key = entries[i].key
  BY DEF SettingAt, Setting
<1>4. Setting(e.section, e.key, e.value) = SettingAt(entries, k)
  BY DEF SettingAt
<1>5. \A i : i \in 1..k <=> i \in 1..(k - 1) \/ i = k
  BY <1>1
<1> HIDE DEF entries, e
<1>6. {x \in SettingsTo(entries, k - 1) : x.section # e.section \/ x.key # e.key} = SettingsTo(entries, k - 1)
  BY <1>2, <1>3 DEF SettingsTo
<1>7. SettingsTo(entries, k - 1) \cup {SettingAt(entries, k)} = SettingsTo(entries, k)
  BY <1>5, Zenon DEF SettingsTo
<1> QED BY <1>4, <1>6, <1>7 DEF entries, e

LEMMA Newlines == Len(<<Newline>>) = 1 /\ <<Newline>>[1] = Newline /\ <<Newline>> \in Data
BY DEF Newline, Data, Byte

\* The header of an entry, if it has one, changes the group alone.
LEMMA DesktopSaysHeading ==
    ASSUME NEW c \in Config, BothRead(c.entries), NEW k \in 1..Len(c.entries),
           NEW size \in Nat, size >= 2, Len(Heading(c.entries, k)) < size,
           NEW text, NEW s, DesktopSays(text, size, s), DesktopGot(c.entries, k - 1, s)
    PROVE  LET e == c.entries[k]
               opened == [group |-> e.section, settings |-> SettingsTo(c.entries, k - 1)]
           IN  opened \in DesktopReading /\ DesktopSays(text \o Heading(c.entries, k), size, opened)
<1> DEFINE e == c.entries[k]
           sec == e.section
           old == SettingsTo(c.entries, k - 1)
           opened == [group |-> sec, settings |-> old]
           h == Heading(c.entries, k)
<1>1. Kept(e) /\ text \in Data
  BY DEF BothRead, KeptAll, DesktopSays, Says
<1>2. /\ s \in DesktopReading /\ s.group = SectionAt(c.entries, k - 1) /\ s.settings = old
      /\ s = [group |-> s.group, settings |-> s.settings] /\ old \in SUBSET Found
  BY DEF DesktopGot, DesktopReading
<1>3. sec \in Data /\ NoNewline(sec)
  <2> HIDE DEF e
  <2> QED BY <1>1, KeptEntry
<1>4. opened \in DesktopReading
  BY <1>2, <1>3 DEF DesktopReading
<1>5. h = IF sec = s.group THEN <<>> ELSE Gap(k) \o SectionLine(sec)
  BY <1>2 DEF Heading
<1>6. sec # s.group => {x \in old : x.section # sec} = old
  BY <1>2, NothingDropped
<1>7. Gap(k) \in Data /\ SectionLine(sec) \in Data
  BY WrittenIs
<1>8. Len(h) < size
  OBVIOUS
<1> HIDE DEF e, sec, old, h, opened
<1>9. ASSUME sec = s.group PROVE DesktopSays(text \o h, size, opened)
  <2>1. opened = s
    BY <1>2, <1>9 DEF opened
  <2>2. text \o <<>> = text
    BY <1>1, Bytes, ConcatEmptySeq
  <2>3. h = <<>>
    BY <1>5, <1>9
  <2> QED BY <2>1, <2>2, <2>3
<1>10. ASSUME sec # s.group PROVE DesktopSays(text \o h, size, opened)
  <2> DEFINE g == Gap(k)
             line == SectionLine(sec)
  <2>1. h = g \o line /\ g \in Data /\ line \in Data
    BY <1>5, <1>7, <1>10
  <2>2. Len(line) = Len(sec) + 3 /\ Len(sec) \in Nat
    <3>1. Len(sec) \in Nat
      BY <1>3, Bytes
    <3> DEFINE n == Len(sec) + 4
    <3>2. n \in Nat /\ Len(sec) + 3 < n
      BY <3>1
    <3> HIDE DEF n
    <3> QED BY <1>3, <3>1, <3>2, SectionFull
  <2> HIDE DEF g, line
  <2>3. Len(h) = Len(g) + Len(line) /\ Len(g) \in Nat /\ Len(line) \in Nat
    BY <2>1, JoinedBytes
  <2>4. FullLine(line, size)
    <3>1. Len(sec) + 3 < size
      BY <1>8, <2>2, <2>3
    <3> QED BY <1>3, <3>1, SectionFull DEF line
  <2>5. DesktopSays(text \o g, size, s)
    <3>1. CASE g = <<>>
      <4>1. text \o <<>> = text
        BY <1>1, Bytes, ConcatEmptySeq
      <4> QED BY <3>1, <4>1
    <3>2. CASE g # <<>>
      <4>1. g = <<Newline>>
        BY <3>2 DEF g, Gap
      <4>2. Len(<<Newline>>) = 1 /\ <<Newline>>[1] = Newline /\ <<Newline>> \in Data
        BY Newlines
      <4>3. Len(g) = 1 /\ g[1] = Newline
        BY <4>1, <4>2
      <4>4. FullLine(g, size)
        BY <2>1, <4>3 DEF FullLine
      <4>5. DesktopParsed(s, g) = s
        BY <1>2, <4>1, DesktopBlank
      <4>6. DesktopSays(text \o g, size, DesktopParsed(s, g))
        BY <4>4, DesktopSaysMore
      <4> QED BY <4>5, <4>6
    <3> QED BY <3>1, <3>2
  <2>6. DesktopParsed(s, line) = Regrouped(s, sec)
    BY <1>2, <1>3, DesktopHeader DEF line
  <2>7. Regrouped(s, sec) = opened
    BY <1>2, <1>6, <1>10, Zenon DEF Regrouped, opened
  <2>8. DesktopSays(text \o g \o line, size, opened)
    BY <2>4, <2>5, <2>6, <2>7, DesktopSaysMore
  <2>9. text \o g \o line = text \o (g \o line)
    <3>1. JoinsTwo(text, g, line)
      BY <1>1, <2>1, JoinedTwo
    <3> QED BY <3>1, Zenon DEF JoinsTwo
  <2> QED BY <2>1, <2>8, <2>9, Zenon
<1>11. opened \in DesktopReading /\ DesktopSays(text \o h, size, opened)
  BY <1>4, <1>9, <1>10
<1> QED BY <1>11, Zenon DEF opened, h, old, sec, e

LEMMA DesktopSaysEntry ==
    ASSUME NEW c \in Config, BothRead(c.entries), NEW k \in 1..Len(c.entries),
           NEW size \in Nat, Len(Written(c.entries, k)) < size,
           NEW text, NEW s, DesktopSays(text, size, s), DesktopGot(c.entries, k - 1, s)
    PROVE  \E r : DesktopSays(text \o Written(c.entries, k), size, r) /\ DesktopGot(c.entries, k, r)
<1> DEFINE e == c.entries[k]
           old == SettingsTo(c.entries, k - 1)
           opened == [group |-> e.section, settings |-> old]
           h == Heading(c.entries, k)
           line == EntryLine(e)
           w == Written(c.entries, k)
           r == DesktopParsed(opened, line)
<1>1. w = h \o line /\ h \in Data /\ line \in Data /\ text \in Data
  BY WrittenIs DEF DesktopSays, Says
<1>2. Kept(e) /\ e.section # <<>> /\ k \in Nat \ {0}
  <2>1. Len(c.entries) \in Nat
    BY ConfigType
  <2> QED BY <2>1 DEF BothRead, KeptAll
<1>3. Len(w) < size
  OBVIOUS
<1> HIDE DEF h, w, line
<1>4. Len(w) = Len(h) + Len(line) /\ Len(h) \in Nat /\ Len(line) \in Nat
  BY <1>1, JoinedBytes
<1>5. Len(line) = Len(e.key) + Len(e.value) + 2 /\ Len(line) >= 2
  <2> HIDE DEF e
  <2>1. e.key \in Data /\ e.value \in Data /\ Len(e.key) + Len(e.value) + 2 < LineLength
    BY <1>2, KeptEntry DEF Readable
  <2>2. Len(e.key) \in Nat /\ Len(e.value) \in Nat
    BY <2>1, Bytes
  <2>3. Len(EntryLine(e)) = Len(e.key) + Len(e.value) + 2
    BY <1>2, <2>1, EntryFull, ConfigFileAssumption
  <2>4. Len(EntryLine(e)) >= 2
    <3> DEFINE p == Len(e.key)
               q == Len(e.value)
               l == Len(EntryLine(e))
    <3>1. p \in Nat /\ q \in Nat /\ l = p + q + 2
      BY <2>2, <2>3, Zenon
    <3> HIDE DEF p, q, l
    <3>2. l >= 2
      BY <3>1
    <3> QED BY <3>2 DEF l
  <2> QED BY <2>3, <2>4, Zenon DEF line
<1>6. Len(h) < size /\ size >= 2 /\ Len(line) < size
  <2>1. Len(line) >= 2
    BY <1>5
  <2> DEFINE a == Len(h)
             b == Len(line)
             n == Len(w)
  <2>4. a \in Nat /\ b \in Nat /\ n = a + b
    BY <1>4, Zenon
  <2>5. b >= 2 /\ n < size
    BY <1>3, <2>1, Zenon
  <2> HIDE DEF a, b, n
  <2>3. a < size /\ size >= 2 /\ b < size
    BY <2>4, <2>5
  <2> QED BY <2>3 DEF a, b
<1>7. FullLine(line, size)
  <2> HIDE DEF e
  <2>1. Len(e.key) + Len(e.value) + 2 < size
    BY <1>5, <1>6
  <2> QED BY <1>2, <2>1, EntryFull DEF line
<1>8. opened \in DesktopReading /\ DesktopSays(text \o h, size, opened)
  BY <1>6, DesktopSaysHeading DEF h
<1>9. opened.group = e.section /\ opened.settings = old
  OBVIOUS
<1>10. r = Put(opened, e.key, e.value)
  <2> HIDE DEF e, opened
  <2> QED BY <1>2, <1>8, <1>9, DesktopPair DEF line
<1>11. DesktopSays(text \o h \o line, size, r)
  <2> HIDE DEF opened, e
  <2> QED BY <1>6, <1>7, <1>8, DesktopSaysMore
<1>12. text \o h \o line = text \o w
  <2>1. JoinsTwo(text, h, line)
    BY <1>1, JoinedTwo
  <2> QED BY <1>1, <2>1, Zenon DEF JoinsTwo
<1>13. {x \in old : x.section # e.section \/ x.key # e.key} \cup {Setting(e.section, e.key, e.value)}
          = SettingsTo(c.entries, k)
  BY NothingReplaced
<1>14. r = [group |-> e.section, settings |-> SettingsTo(c.entries, k)]
  <2> DEFINE new == {x \in old : x.section # e.section \/ x.key # e.key} \cup {Setting(e.section, e.key, e.value)}
  <2>1. Put(opened, e.key, e.value) = [group |-> e.section, settings |-> new]
    <3> HIDE DEF e, old
    <3>1. opened.group = e.section /\ opened.settings = old
      BY <1>9
    <3> HIDE DEF opened
    <3> QED BY <3>1, Zenon DEF Put
  <2>2. new = SettingsTo(c.entries, k)
    BY <1>13
  <2> HIDE DEF new, e, opened, r
  <2> QED BY <1>10, <2>1, <2>2
<1>15. r \in DesktopReading
  <2> HIDE DEF e, old, opened
  <2> QED BY <1>1, <1>8, DesktopFits
<1>16. DesktopGot(c.entries, k, r)
  <2>1. SectionAt(c.entries, k) = e.section
    BY <1>2 DEF SectionAt
  <2>2. r.group = e.section /\ r.settings = SettingsTo(c.entries, k)
    <3> HIDE DEF r, e
    <3> QED BY <1>14
  <2> HIDE DEF r, e
  <2> QED BY <1>15, <2>1, <2>2 DEF DesktopGot
<1> HIDE DEF r
<1> QED BY <1>11, <1>12, <1>16, Zenon DEF w

\* What the desktop application reads in the file of a configuration.
LEMMA DesktopReads ==
    ASSUME NEW c \in Config, BothRead(c.entries)
    PROVE  _parseConfigContent(ya_config_save(c)) = SettingsTo(c.entries, Len(c.entries))
<1> DEFINE n == Len(c.entries)
<1>1. n \in Nat
  BY ConfigType
<1>2. \A i \in 1..n : Written(c.entries, i) \in Data
  BY WrittenFits
<1> HIDE DEF n
<1>3. n = Len(c.entries)
  BY DEF n
<1>4. PICK T \in [0..n -> Data] :
        /\ T[0] = <<>> /\ \A k \in 1..n : T[k] = T[k - 1] \o Written(c.entries, k)
        /\ ya_config_save(c) = T[n]
  BY <1>3, SavedInTurn
<1> DEFINE text == ya_config_save(c)
           size == Len(text) + 2
<1>5. text = T[n] /\ text \in Data /\ size \in Nat /\ size >= 2 /\ Len(text) < size
  <2>1. n \in 0..n
    BY <1>1
  <2>2. text = T[n] /\ text \in Data
    BY <1>4, <2>1
  <2> HIDE DEF text
  <2>3. Len(text) \in Nat
    BY <2>2, Bytes
  <2> QED BY <2>2, <2>3
<1> HIDE DEF text, size
<1>6. ASSUME NEW k \in 1..n
      PROVE  /\ k - 1 \in 0..n /\ k \in 0..n /\ Written(c.entries, k) \in Data
             /\ T[k] = T[k - 1] \o Written(c.entries, k)
             /\ Len(T[k]) = Len(T[k - 1]) + Len(Written(c.entries, k))
             /\ Len(T[k - 1]) \in Nat /\ Len(Written(c.entries, k)) \in Nat
  <2> DEFINE a == T[k - 1]
             b == Written(c.entries, k)
  <2>1. k - 1 \in 0..n /\ k \in 0..n
    BY <1>1
  <2>2. a \in Data /\ b \in Data /\ T[k] = a \o b
    BY <1>2, <1>3, <1>4, <2>1
  <2> HIDE DEF a, b
  <2>3. Len(a \o b) = Len(a) + Len(b) /\ Len(a) \in Nat /\ Len(b) \in Nat
    BY <2>2, JoinedBytes
  <2>4. Len(T[k]) = Len(a) + Len(b)
    BY <2>2, <2>3, Zenon
  <2> QED BY <2>1, <2>2, <2>3, <2>4, Zenon DEF a, b
<1> DEFINE P == {k \in 0..n : Len(T[k]) < size =>
                    \E d : DesktopSays(T[k], size, d) /\ DesktopGot(c.entries, k, d)}
<1>7. P \in SUBSET Nat /\ 0 \in P
  <2>1. DesktopSays(T[0], size, DesktopBegun)
    BY <1>4, <1>5, DesktopSaysNothing
  <2>2. DesktopGot(c.entries, 0, DesktopBegun)
    <3> DEFINE e == <<>>
    <3>1. e \in Data
      BY EmptySeq DEF Data
    <3>2. SectionAt(c.entries, 0) = e /\ DesktopBegun = [group |-> e, settings |-> {}]
      BY DEF SectionAt, DesktopBegun
    <3> HIDE DEF e
    <3>3. DesktopBegun \in DesktopReading
      BY <3>1, <3>2 DEF DesktopReading
    <3>4. SettingsTo(c.entries, 0) = {}
      BY DEF SettingsTo
    <3> QED BY <3>2, <3>3, <3>4 DEF DesktopGot
  <2> QED BY <1>1, <2>1, <2>2
<1>8. ASSUME NEW k \in 1..n, k - 1 \in P PROVE k \in P
  <2> SUFFICES ASSUME Len(T[k]) < size
               PROVE  \E d : DesktopSays(T[k], size, d) /\ DesktopGot(c.entries, k, d)
    BY <1>6
  <2> DEFINE p == Len(T[k - 1])
             q == Len(Written(c.entries, k))
  <2>1. p \in Nat /\ q \in Nat /\ p + q < size
    BY <1>6
  <2> HIDE DEF p, q
  <2>2. p < size /\ q < size
    BY <1>5, <2>1
  <2>3. PICK s : DesktopSays(T[k - 1], size, s) /\ DesktopGot(c.entries, k - 1, s)
    BY <1>8, <2>2 DEF p
  <2>4. k \in 1..Len(c.entries) /\ Len(Written(c.entries, k)) < size
    BY <1>3, <2>2 DEF q
  <2>5. \E r : DesktopSays(T[k - 1] \o Written(c.entries, k), size, r) /\ DesktopGot(c.entries, k, r)
    BY <1>5, <2>3, <2>4, DesktopSaysEntry
  <2>6. T[k] = T[k - 1] \o Written(c.entries, k)
    BY <1>6
  <2> QED BY <2>5, <2>6, Zenon
<1> HIDE DEF P
<1>9. \A k \in 0..n : k \in P
  BY <1>1, <1>7, <1>8, UpTo
<1>10. PICK d : DesktopSays(text, size, d) /\ DesktopGot(c.entries, n, d)
  <2>1. n \in 0..n
    BY <1>1
  <2> QED BY <1>5, <1>9, <2>1 DEF P
<1>11. DesktopReadIn(LinesOf(text, size)).settings = SettingsTo(c.entries, n)
  BY <1>10 DEF DesktopSays, DesktopGot
<1>12. _parseConfigContent(text) = DesktopReadIn(LinesOf(text, size)).settings
  BY Zenon DEF _parseConfigContent, DesktopReadIn, DesktopBegun, DesktopLines, size
<1> QED BY <1>3, <1>11, <1>12 DEF text

---------------------------------------------------------------------------
(* Reading a request (mpack.c). *)

Reader == [data : Data, error : {"ok", "invalid", "type", "too_big", "unsupported"}]

LEMMA Announced ==
    ASSUME NEW b \in Byte
    PROVE  /\ SizeAfter(b) \in {0, 1, 2, 4, 8}
           /\ TypeOf(b) \in {"map", "array", "str"} => SizeAfter(b) \in {0, 1, 2, 4}
           /\ TypeOf(b) \in {"map", "array", "str"} => Inline(b) \in Data /\ Len(Inline(b)) = 1
<1>1. SizeAfter(b) \in {0, 1, 2, 4, 8}
  BY DEF SizeAfter, Byte
<1>2. TypeOf(b) \in {"map", "array", "str"} => b \notin {\hCB, \hCF, \hD3}
  <2>1. CASE b = \hCB
    BY <2>1 DEF TypeOf
  <2>2. CASE b = \hCF
    BY <2>2 DEF TypeOf
  <2>3. CASE b = \hD3
    BY <2>3 DEF TypeOf
  <2> QED BY <2>1, <2>2, <2>3
<1>3. b \notin {\hCB, \hCF, \hD3} => SizeAfter(b) \in {0, 1, 2, 4}
  BY DEF SizeAfter, Byte
<1>4. Inline(b) \in {<<b % 16>>, <<b % 32>>, <<b>>}
  BY DEF Inline
<1>5. b % 16 \in Byte /\ b % 32 \in Byte
  BY DEF Byte
<1>6. Inline(b) \in Data /\ Len(Inline(b)) = 1
  <2>1. \A x \in Byte : <<x>> \in Data /\ Len(<<x>>) = 1
    BY DEF Data
  <2> QED BY <1>4, <1>5, <2>1
<1> QED BY <1>1, <1>2, <1>3, <1>6

\* A count or length is a number.
LEMMA LengthIsNumber ==
    ASSUME NEW w \in Data, Len(w) = 4
    PROVE  Length(w) \in Nat
<1>1. w[1] \in Byte /\ w[2] \in Byte /\ w[3] \in Byte /\ w[4] \in Byte
  BY ElementOfSeq DEF Data
<1>2. w[1] \in Nat /\ w[2] \in Nat /\ w[3] \in Nat /\ w[4] \in Nat
  BY <1>1 DEF Byte
<1>3. MaxLength \in Nat
  BY DEF MaxLength
<1> QED BY <1>2, <1>3 DEF Length

LEMMA WidenedCount ==
    ASSUME NEW w \in Data, Len(w) \in 1..4
    PROVE  ZeroExtended(w, 4) \in Data /\ Len(ZeroExtended(w, 4)) = 4
<1> DEFINE zeros == Filled(4 - Len(w), 0)
<1>1. zeros \in Data /\ Len(zeros) = 4 - Len(w)
  <2> DEFINE k == 4 - Len(w)
  <2>0. \A l \in 1..4 : 4 - l \in Nat
    OBVIOUS
  <2>1. k \in Nat
    BY <2>0, Zenon
  <2> HIDE DEF k
  <2>2. [i \in 1..k |-> 0] \in [1..k -> Byte]
    BY DEF Byte
  <2>3. [i \in 1..k |-> 0] \in Seq(Byte)
    BY <2>1, <2>2, SeqDef
  <2>4. Len([i \in 1..k |-> 0]) = k
    BY <2>1, <2>3, LenProperties
  <2> QED BY <2>3, <2>4 DEF Filled, Data, k
<1> HIDE DEF zeros
<1>2. zeros \o w \in Data /\ Len(zeros \o w) = 4
  BY <1>1, ConcatProperties DEF Data
<1> QED BY <1>2 DEF ZeroExtended, zeros

\* Reading goes on with bytes, and what reads as a count or length is a number.
LEMMA FlaggedReader ==
    ASSUME NEW r \in Reader, NEW e \in {"invalid", "type", "too_big", "unsupported"}
    PROVE  mpack_reader_flag_error(r, e) \in Reader
<1>1. <<>> \in Data
  BY EmptySeq DEF Data
<1>2. mpack_reader_flag_error(r, e) \in {r, [data |-> <<>>, error |-> e]}
  BY DEF mpack_reader_flag_error
<1> QED BY <1>1, <1>2 DEF Reader

LEMMA SkippedReader ==
    ASSUME NEW r \in Reader, NEW n \in Nat
    PROVE  Skip(r, n) \in Reader
<1>1. r.data \in Data /\ Len(r.data) \in Nat
  BY PlacesIn DEF Reader
<1>2. SubSeq(r.data, n + 1, Len(r.data)) \in Data
  <2> DEFINE k == n + 1
  <2>1. k \in Nat \ {0}
    OBVIOUS
  <2> HIDE DEF k
  <2>2. SubSeq(r.data, k, Len(r.data)) \in Data
    BY <1>1, <2>1, PartOfText
  <2> QED BY <2>2 DEF k
<1>3. Skip(r, n) = [data |-> SubSeq(r.data, n + 1, Len(r.data)), error |-> r.error]
  <2>1. r = [data |-> r.data, error |-> r.error]
    BY DEF Reader
  <2>2. \A x : [r EXCEPT !.data = x] = [data |-> x, error |-> r.error]
    BY <2>1
  <2> QED BY <2>2, Zenon DEF Skip
<1> QED BY <1>2, <1>3 DEF Reader

LEMMA ParsedTag ==
    ASSUME NEW data \in Data, data # <<>>, 1 + SizeAfter(data[1]) <= Len(data),
           mpack_parse_tag(data).type \in {"map", "array", "str"}
    PROVE  Length(mpack_parse_tag(data).v) \in Nat
<1> DEFINE b == data[1]
           n == SizeAfter(b)
           bytes == IF n = 0 THEN Inline(b) ELSE SubSeq(data, 2, n + 1)
<1>1. Len(data) \in Nat \ {0} /\ b \in Byte
  BY EmptySeq, ElementOfSeq DEF Data
<1> HIDE DEF b
<1>2. mpack_parse_tag(data).type = TypeOf(b) /\ mpack_parse_tag(data).v = Widened(TypeOf(b), bytes)
  BY DEF mpack_parse_tag, b
<1>3. n \in {0, 1, 2, 4} /\ Inline(b) \in Data /\ Len(Inline(b)) = 1
  BY <1>1, <1>2, Announced
<1>4. 1 + n <= Len(data)
  BY DEF b
<1> HIDE DEF n
<1>5. bytes \in Data /\ Len(bytes) \in 1..4
  <2>1. CASE n = 0
    BY <1>3, <2>1
  <2>2. CASE n # 0
    <3> DEFINE k == n + 1
    <3>1. k \in Int /\ k <= Len(data) /\ 2 \in Nat \ {0} /\ 2 <= k /\ k - 2 + 1 \in 1..4
      BY <1>1, <1>3, <1>4, <2>2
    <3> HIDE DEF k
    <3>2. SubSeq(data, 2, k) \in Data /\ Len(SubSeq(data, 2, k)) = k - 2 + 1
      BY <3>1, PartOfText
    <3> QED BY <2>2, <3>1, <3>2 DEF k
  <2> QED BY <2>1, <2>2
<1> HIDE DEF bytes
<1>6. Widened(TypeOf(b), bytes) = ZeroExtended(bytes, 4)
  BY <1>2 DEF Widened
<1> QED BY <1>2, <1>5, <1>6, WidenedCount, LengthIsNumber

LEMMA ReadTag ==
    ASSUME NEW r \in Reader
    PROVE  /\ mpack_read_tag(r).r \in Reader
           /\ mpack_read_tag(r).v.type \in {"map", "array", "str"} =>
                 Length(mpack_read_tag(r).v.v) \in Nat
<1> DEFINE tag == mpack_read_tag(r)
           b == r.data[1]
           n == SizeAfter(b)
<1>0. r.data \in Data /\ \A x \in Reader : Result(x, Nil).r = x /\ Result(x, Nil).v.type = "nil"
  BY DEF Reader, Result, Nil
<1>1. CASE r.error # "ok"
  <2>1. tag = Result(r, Nil)
    BY <1>1 DEF mpack_read_tag
  <2> QED BY <1>0, <2>1
<1>2. CASE r.error = "ok" /\ r.data = <<>>
  <2>1. mpack_reader_ensure(r, 1) \in Reader
    BY FlaggedReader DEF mpack_reader_ensure, mpack_reader_ensure_straddle
  <2>2. tag = Result(mpack_reader_ensure(r, 1), Nil)
    BY <1>2 DEF mpack_read_tag
  <2> QED BY <1>0, <2>1, <2>2
<1>3. CASE r.error = "ok" /\ r.data # <<>>
  <2>1. tag = ReadElement(r, b, n)
    BY <1>3 DEF mpack_read_tag
  <2>2. b \in Byte
    BY <1>0, <1>3, EmptySeq, ElementOfSeq DEF Data
  <2>3. n \in Nat
    BY <2>2, Announced
  <2> DEFINE bad == TypeOf(b) = "reserved" \/ mpack_reader_ensure(r, 1 + n).error # "ok"
             ext == TypeOf(b) = "ext"
  <2>4. tag = CASE ext -> Result(mpack_reader_flag_error(r, "unsupported"), Nil)
                [] ~ ext /\ bad -> Result(mpack_reader_flag_error(r, "invalid"), Nil)
                [] OTHER -> Result(Skip(r, 1 + n), mpack_parse_tag(r.data))
    BY <2>1, Zenon DEF ReadElement
  <2>5. ~ bad => 1 + n <= Len(r.data)
    <3>1. r.error = "ok"
      BY <1>3
    <3>2. mpack_reader_ensure_straddle(r).error = "invalid"
      BY <3>1 DEF mpack_reader_ensure_straddle, mpack_reader_flag_error
    <3> QED BY <3>2 DEF mpack_reader_ensure
  <2>6. 1 + n \in Nat
    BY <2>3
  <2> HIDE DEF tag, bad, ext
  <2>7. CASE ext
    <3>1. tag = Result(mpack_reader_flag_error(r, "unsupported"), Nil)
      BY <2>4, <2>7
    <3> QED BY <1>0, <3>1, FlaggedReader DEF tag
  <2>8. CASE ~ ext /\ bad
    <3>1. tag = Result(mpack_reader_flag_error(r, "invalid"), Nil)
      BY <2>4, <2>8
    <3> QED BY <1>0, <3>1, FlaggedReader DEF tag
  <2>9. CASE ~ ext /\ ~ bad
    <3>1. tag = Result(Skip(r, 1 + n), mpack_parse_tag(r.data))
      BY <2>4, <2>9
    <3>2. tag.r = Skip(r, 1 + n) /\ tag.v = mpack_parse_tag(r.data)
      BY <3>1 DEF Result
    <3>3. tag.r \in Reader
      BY <2>6, <3>2, SkippedReader
    <3>4. tag.v.type \in {"map", "array", "str"} => Length(tag.v.v) \in Nat
      BY <1>0, <1>3, <2>5, <2>9, <3>2, ParsedTag
    <3> QED BY <3>3, <3>4 DEF tag
  <2> QED BY <2>7, <2>8, <2>9
<1> QED BY <1>1, <1>2, <1>3

LEMMA ReadCount ==
    ASSUME NEW r \in Reader, NEW type \in {"map", "array", "str"}
    PROVE  CountOf(type, r).r \in Reader /\ CountOf(type, r).v \in Nat
<1> DEFINE tag == mpack_read_tag(r)
<1>1. tag.r \in Reader /\ (tag.v.type \in {"map", "array", "str"} => Length(tag.v.v) \in Nat)
  BY ReadTag
<1>2. CountOf(type, r) = Expected(tag, tag.v.type = type, Length(tag.v.v), 0)
  BY Zenon DEF CountOf
<1> HIDE DEF tag
<1>3. CASE tag.v.type = type
  <2>1. CountOf(type, r) = Result(tag.r, Length(tag.v.v))
    BY <1>2, <1>3 DEF Expected
  <2> QED BY <1>1, <1>3, <2>1 DEF Result
<1>4. CASE tag.v.type # type
  <2>1. CountOf(type, r) = Result(mpack_reader_flag_error(tag.r, "type"), 0)
    BY <1>2, <1>4 DEF Expected
  <2>2. mpack_reader_flag_error(tag.r, "type") \in Reader
    BY <1>1, FlaggedReader
  <2> QED BY <2>1, <2>2 DEF Result
<1> QED BY <1>3, <1>4

\* What an expect function leaves: a reader and a text.
Text == [r : Reader, v : Data]

LEMMA ReadBytes ==
    ASSUME NEW r \in Reader, NEW size \in Nat, NEW n \in Nat
    PROVE  mpack_read_utf8_cstr(r, size, n) \in Text
<1>0. <<>> \in Data /\ \A x \in Reader : \A t \in Data : Result(x, t) \in Text
  BY EmptySeq DEF Data, Result, Text
<1> DEFINE raw == mpack_read_cstr_unchecked(r, size, n)
           got_ == mpack_read_bytes(r, n)
<1>1. got_.r \in Reader /\ (got_.r.error = "ok" => got_.v \in Data) /\ got_ = Result(got_.r, got_.v)
  <2>1. CASE n <= Len(r.data)
    <3>1. got_ = Result(Skip(r, n), SubSeq(r.data, 1, n))
      BY <2>1 DEF mpack_read_bytes
    <3>2. SubSeq(r.data, 1, n) \in Data
      BY <2>1, PartOfText DEF Reader
    <3> QED BY <3>1, <3>2, SkippedReader DEF Result
  <2>2. CASE ~ n <= Len(r.data)
    <3>1. got_ = Result(mpack_reader_flag_error(r, "invalid"), Filled(n, 0))
      BY <2>2 DEF mpack_read_bytes
    <3>2. mpack_reader_flag_error(r, "invalid").error # "ok"
      BY DEF mpack_reader_flag_error
    <3> QED BY <3>1, <3>2, FlaggedReader DEF Result
  <2> QED BY <2>1, <2>2
<1> HIDE DEF got_
<1>2. raw.r \in Reader /\ (raw.r.error = "ok" => raw.v \in Data) /\ raw = Result(raw.r, raw.v)
  <2>1. raw \in {Result(r, <<>>), Result(mpack_reader_flag_error(r, "too_big"), <<>>), got_}
    BY DEF mpack_read_cstr_unchecked, got_
  <2>2. mpack_reader_flag_error(r, "too_big") \in Reader
    BY FlaggedReader
  <2> QED BY <1>0, <1>1, <2>1, <2>2 DEF Result
<1>3. mpack_read_utf8_cstr(r, size, n) =
        CASE raw.r.error # "ok" -> Result(raw.r, <<>>)
          [] raw.r.error = "ok" /\ ~ mpack_utf8_check_no_null(raw.v) ->
                Result(mpack_reader_flag_error(raw.r, "type"), <<>>)
          [] OTHER -> raw
  BY Zenon DEF mpack_read_utf8_cstr
<1> HIDE DEF raw
<1>4. CASE raw.r.error # "ok"
  <2>1. mpack_read_utf8_cstr(r, size, n) = Result(raw.r, <<>>)
    BY <1>3, <1>4
  <2> QED BY <1>0, <1>2, <2>1
<1>5. CASE raw.r.error = "ok"
  <2>1. mpack_read_utf8_cstr(r, size, n) \in {Result(mpack_reader_flag_error(raw.r, "type"), <<>>), raw}
    BY <1>3, <1>5
  <2>2. mpack_reader_flag_error(raw.r, "type") \in Reader
    BY <1>2, FlaggedReader
  <2>3. raw \in Text
    BY <1>0, <1>2, <1>5
  <2> QED BY <1>0, <2>1, <2>2, <2>3
<1> QED BY <1>4, <1>5

LEMMA ReadText ==
    ASSUME NEW r \in Reader, NEW size \in Nat
    PROVE  mpack_expect_utf8_cstr(r, size) \in Text
<1> DEFINE length == mpack_expect_str(r)
<1>1. length.r \in Reader /\ length.v \in Nat
  <2>1. CountOf("str", r).r \in Reader /\ CountOf("str", r).v \in Nat
    BY ReadCount
  <2>2. length \in {Result(mpack_reader_flag_error(r, "type"), 0), CountOf("str", r)}
    BY DEF mpack_expect_str
  <2>3. mpack_reader_flag_error(r, "type") \in Reader
    BY FlaggedReader
  <2> HIDE DEF length
  <2> QED BY <2>1, <2>2, <2>3 DEF Result
<1>2. mpack_expect_utf8_cstr(r, size) = mpack_read_utf8_cstr(length.r, size, length.v)
  BY Zenon DEF mpack_expect_utf8_cstr
<1> HIDE DEF length
<1> QED BY <1>1, <1>2, ReadBytes

\* An entry of a request is made of texts, whatever the request is.
LEMMA PostedEntryTexts ==
    ASSUME NEW r \in Reader
    PROVE  LET e == PostedEntry(r)
           IN  e.r \in Reader /\ e.section \in Data /\ e.key \in Data /\ e.value \in Data
<1> DEFINE Then(before, size) ==
               IF before.r.error # "ok" THEN Result(before.r, <<>>)
               ELSE mpack_expect_utf8_cstr(before.r, size)
           map == mpack_expect_map(r)
           first == Then(map, NameLength)
           section == Then(first, NameLength)
           second == Then(section, NameLength)
           key == Then(second, NameLength)
           third == Then(key, NameLength)
           value == Then(third, ValueLength)
<1>1. ASSUME NEW before, before.r \in Reader, NEW size \in Nat PROVE Then(before, size) \in Text
  <2>1. mpack_expect_utf8_cstr(before.r, size) \in Text
    BY <1>1, ReadText
  <2>2. Result(before.r, <<>>) \in Text
    BY <1>1, EmptySeq DEF Data, Result, Text
  <2> QED BY <2>1, <2>2
<1>2. PostedEntry(r) = [r |-> value.r, section |-> section.v, key |-> key.v, value |-> value.v]
  BY Zenon DEF PostedEntry
<1> HIDE DEF Then
<1>3. ASSUME NEW t \in Text PROVE t.r \in Reader /\ t.v \in Data
  BY DEF Text
<1>4. NameLength \in Nat /\ ValueLength \in Nat
  BY ConfigFileAssumption
<1>5. map.r \in Reader
  BY ReadCount DEF mpack_expect_map
<1> HIDE DEF map
<1>6. first \in Text
  BY <1>1, <1>4, <1>5
<1> HIDE DEF first
<1>7. section \in Text
  BY <1>1, <1>3, <1>4, <1>6
<1> HIDE DEF section
<1>8. second \in Text
  BY <1>1, <1>3, <1>4, <1>7
<1> HIDE DEF second
<1>9. key \in Text
  BY <1>1, <1>3, <1>4, <1>8
<1> HIDE DEF key
<1>10. third \in Text
  BY <1>1, <1>3, <1>4, <1>9
<1> HIDE DEF third
<1>11. value \in Text
  BY <1>1, <1>3, <1>4, <1>10
<1> HIDE DEF value
<1> QED BY <1>2, <1>3, <1>7, <1>9, <1>11

---------------------------------------------------------------------------
(* A request to change the configuration. *)

LEMMA ExtendsItself ==
    ASSUME NEW c \in Config
    PROVE  Extends(c, c)
BY ConfigType DEF Extends

LEMMA ExtendsFurther ==
    ASSUME NEW c \in Config, NEW d \in Config, NEW e \in Config, Extends(c, d), Extends(d, e)
    PROVE  Extends(c, e)
BY ConfigType DEF Extends

\* Between two entries of a request.
Posting(c) ==
    {done \in [r : Reader, config : Config, left : Seq(FitEntry)] : Extends(c, done.config)}

LEMMA EntryPosted ==
    ASSUME NEW c \in Config, NEW done \in Posting(c), NEW i
    PROVE  SetPosted(done, i) \in Posting(c)
<1> DEFINE e == PostedEntry(done.r)
           d == ya_config_set(done.config, e.section, e.key, e.value)
           left == IF d.capacity = done.config.capacity \/ done.left # Unmoved
                   THEN done.left ELSE done.config.entries
<1>1. /\ done.r \in Reader /\ done.config \in Config /\ done.left \in Seq(FitEntry)
      /\ Extends(c, done.config)
  BY DEF Posting
<1>2. SetPosted(done, i) = [r |-> e.r, config |-> d, left |-> left]
  BY Zenon DEF SetPosted
<1>3. e.r \in Reader /\ e.section \in Data /\ e.key \in Data /\ e.value \in Data
  BY <1>1, PostedEntryTexts
<1> HIDE DEF e
<1>4. d \in Config /\ Extends(done.config, d)
  BY <1>1, <1>3, SetFits
<1> HIDE DEF d
<1>5. left \in Seq(FitEntry)
  BY <1>1, ConfigType
<1> HIDE DEF left
<1>6. Extends(c, d)
  BY <1>1, <1>4, ExtendsFurther
<1> QED BY <1>2, <1>3, <1>4, <1>5, <1>6 DEF Posting

\* However a request goes, the configuration it leaves fits, and no entry has moved or
\* been renamed: what is posted is set in place or added at the end.
LEMMA PostedKeeps ==
    ASSUME NEW c \in Config, NEW body \in Data
    PROVE  Posted(c, body).config \in Config /\ Extends(c, Posted(c, body).config)
<1> DEFINE array == mpack_read_tag(mpack_reader_init_data(body))
           count == Length(array.v.v)
           n == Min({count, MaxEntries})
           base == [r |-> array.r, config |-> c, left |-> Unmoved]
           places == [i \in 1..n |-> i]
           T == Posting(c)
           f == [p \in T \X (1..n) |-> SetPosted(p[1], places[p[2]])]
           Fix(g) == g = [s \in SUBSET DOMAIN places |->
                            IF s = {} THEN base ELSE SetPosted(g[s \ {Max(s)}], places[Max(s)])]
           iter == CHOOSE g : Fix(g)
<1>1. /\ array.r \in Reader
      /\ array.v.type \in {"map", "array", "str"} => Length(array.v.v) \in Nat
  <2>1. mpack_reader_init_data(body) \in Reader
    BY DEF mpack_reader_init_data, Reader
  <2> QED BY <2>1, ReadTag
<1>2. CASE array.v.type # "array"
  <2>1. Posted(c, body) = [ok |-> FALSE, config |-> c, left |-> Unmoved]
    BY <1>2, Zenon DEF Posted
  <2> QED BY <2>1, ExtendsItself
<1>3. CASE array.v.type = "array"
  <2>1. Posted(c, body) = [ok |-> mpack_reader_destroy(iter[DOMAIN places].r) = "ok",
                           config |-> iter[DOMAIN places].config,
                           left |-> iter[DOMAIN places].left]
    BY <1>3 DEF Posted, FoldLeft, MapThenFoldSet
  <2>2. count \in Nat
    BY <1>1, <1>3
  <2> HIDE DEF count
  <2>3. n \in Nat
    <3>1. MaxEntries \in Nat
      BY DEF MaxEntries
    <3>2. {count, MaxEntries} \in SUBSET Nat /\ {count, MaxEntries} # {}
      BY <2>2, <3>1
    <3> DEFINE both == {count, MaxEntries}
    <3> HIDE DEF both
    <3>3. Min(both) \in both
      BY <3>2, MinOfNat DEF both
    <3> QED BY <2>2, <3>1, <3>3 DEF both
  <2> HIDE DEF n
  <2>4. DOMAIN places = 1..n
    OBVIOUS
  <2> HIDE DEF iter, places
  <2>5. base \in T
    <3>1. base = [r |-> array.r, config |-> c, left |-> <<>>]
      BY DEF Unmoved
    <3>2. <<>> \in Seq(FitEntry) /\ Extends(c, c)
      BY EmptySeq, ExtendsItself
    <3> HIDE DEF base, array
    <3> QED BY <1>1, <3>1, <3>2 DEF Posting
  <2> HIDE DEF base, T
  <2>6. \A t \in T : \A k \in 1..n : SetPosted(t, places[k]) \in T
    BY EntryPosted DEF T
  <2>7. \A t \in T : \A k \in 1..n : f[<<t, k>>] = SetPosted(t, places[k]) /\ f[<<t, k>>] \in T
    BY <2>6
  <2> HIDE DEF f
  <2>8. PICK g \in [SUBSET (1..n) -> T] :
           \A s \in SUBSET (1..n) : g[s] = IF s = {} THEN base ELSE f[<<g[s \ {Max(s)}], Max(s)>>]
    <3>1. StaysIn(T, n, f)
      BY <2>7, Zenon DEF StaysIn
    <3>2. \E g : Runs(T, n, base, f, g)
      BY <2>3, <2>5, <3>1, FoldExists, Zenon
    <3> QED BY <3>2 DEF Runs
  <2>9. ASSUME NEW s \in SUBSET (1..n), s # {}
        PROVE  Max(s) \in 1..n /\ s \ {Max(s)} \in SUBSET (1..n)
    <3>1. s \in SUBSET (0..n)
      BY <2>3
    <3>2. Max(s) \in s
      BY <2>3, <2>9, <3>1, MaxOfNat
    <3> QED BY <3>2
  <2>10. Fix(g)
    <3>1. ASSUME NEW s \in SUBSET (1..n)
          PROVE  g[s] = IF s = {} THEN base ELSE SetPosted(g[s \ {Max(s)}], places[Max(s)])
      <4>1. CASE s = {}
        BY <2>8, <4>1
      <4>2. CASE s # {}
        <5>1. g[s \ {Max(s)}] \in T
          BY <2>8, <2>9, <4>2
        <5> QED BY <2>7, <2>8, <2>9, <4>2, <5>1
      <4> QED BY <4>1, <4>2
    <3> QED BY <2>4, <2>8, <3>1
  <2>11. Fix(iter)
    BY <2>10, Zenon DEF iter
  <2>12. iter[{}] \in T
    BY <2>4, <2>5, <2>11
  <2>13. ASSUME NEW s \in SUBSET (1..n), s # {}, iter[s \ {Max(s)}] \in T PROVE iter[s] \in T
    <3>1. iter[s] = SetPosted(iter[s \ {Max(s)}], places[Max(s)])
      BY <2>4, <2>11, <2>13
    <3> QED BY <2>6, <2>9, <2>13, <3>1
  <2>14. iter[1..n] \in T
    <3> HIDE DEF Fix
    <3> QED BY <2>3, <2>12, <2>13, FoldIn
  <2>15. Posted(c, body).config = iter[1..n].config
    BY <2>1, <2>4
  <2> QED BY <2>14, <2>15 DEF T, Posting
<1> QED BY <1>2, <1>3

---------------------------------------------------------------------------
(* The files of a log (ya_logger.c): however often a rotation is cut short,    *)
(* they stay in order, and every number left unused was paid for.              *)

\* The files of a log, the oldest first, hold what was written after the first
\* end[MaxBackups + 1] lines: file i the lines after end[i + 1] up to end[i]. Lines are
\* gone only when the last backup is there, and a backup is full.
Laid(f, w, end) ==
    /\ DOMAIN f \subseteq 0..MaxBackups /\ f = [i \in DOMAIN f |-> f[i]]
    /\ end \in [0..MaxBackups + 1 -> Nat] /\ end[0] = Len(w)
    /\ \A i \in 0..MaxBackups :
          /\ end[i + 1] <= end[i]
          /\ i \notin DOMAIN f => end[i + 1] = end[i]
          /\ i \in DOMAIN f => f[i] = SubSeq(w, end[i + 1] + 1, end[i])
          /\ i \in DOMAIN f /\ i # 0 => end[i + 1] + MaxSize <= end[i]
    /\ end[MaxBackups + 1] = 0 \/ (MaxBackups # 0 /\ MaxBackups \in DOMAIN f)

Held(f, w) == (\E S : w \in Seq(S)) /\ \E end : Laid(f, w, end)

\* The numbers a rotation that was cut short left unused.
Holes(f) == {i \in 1..MaxBackups : i \notin DOMAIN f /\ \E j \in DOMAIN f : j > i}

\* After the renames down to number k: k is unused, and not counted as a hole.
Chain(f, w, t, k) ==
    /\ Held(f, w)
    /\ k < MaxBackups => k \notin DOMAIN f
    /\ Cardinality(Holes(f) \ {k}) <= t

LEMMA FiniteHoles ==
    ASSUME NEW f, NEW k
    PROVE  /\ IsFiniteSet(Holes(f)) /\ IsFiniteSet(Holes(f) \ {k})
           /\ Cardinality(Holes(f)) \in Nat /\ Cardinality(Holes(f) \ {k}) \in Nat
           /\ Cardinality(Holes(f)) <= Cardinality(Holes(f) \ {k}) + 1
           /\ k \notin Holes(f) => Holes(f) \ {k} = Holes(f)
           /\ k \in Holes(f) => Cardinality(Holes(f) \ {k}) = Cardinality(Holes(f)) - 1
<1>1. MaxBackups \in Nat /\ Holes(f) \in SUBSET (1..MaxBackups)
  BY ServerLifeAssumption DEF Holes
<1>2. IsFiniteSet(Holes(f))
  <2>1. IsFiniteSet(1..MaxBackups)
    BY <1>1, FS_Interval
  <2> QED BY <1>1, <2>1, FS_Subset
<1>3. /\ IsFiniteSet(Holes(f) \ {k})
      /\ Cardinality(Holes(f) \ {k}) =
            IF k \in Holes(f) THEN Cardinality(Holes(f)) - 1 ELSE Cardinality(Holes(f))
  BY <1>2, FS_RemoveElement
<1>4. Cardinality(Holes(f)) \in Nat /\ Cardinality(Holes(f) \ {k}) \in Nat
  BY <1>2, <1>3, FS_CardinalityType
<1>5. k \notin Holes(f) => Holes(f) \ {k} = Holes(f)
  OBVIOUS
<1> QED BY <1>2, <1>3, <1>4, <1>5

\* A rename to an unused number, or onto the last backup, keeps the lines in order.
LEMMA RenamedHeld ==
    ASSUME NEW f, NEW w, Held(f, w), NEW i \in 0..MaxBackups - 1,
           i = MaxBackups - 1 \/ i + 1 \notin DOMAIN f,
           i = 0 => 0 \in DOMAIN f /\ Len(f[0]) >= MaxSize
    PROVE  Held(Renamed(f, i), w)
<1> DEFINE MB == MaxBackups
           g == Renamed(f, i)
<1>0. MB \in Nat /\ MB # 0 /\ MaxSize \in Nat /\ i \in 0..MB /\ i + 1 \in 0..MB /\ i \in Nat
  BY ServerLifeAssumption
<1>1. PICK S, end : w \in Seq(S) /\ Laid(f, w, end)
  BY DEF Held
<1>2. CASE i \notin DOMAIN f
  BY <1>2 DEF Renamed
<1>3. CASE i \in DOMAIN f
  <2> DEFINE last == IF i = MB - 1 THEN end[MB] ELSE end[MB + 1]
             end2 == [j \in 0..MB + 1 |-> IF j = i + 1 THEN end[i] ELSE IF j = MB + 1 THEN last ELSE end[j]]
  <2>1. DOMAIN g = (DOMAIN f \ {i}) \cup {i + 1} /\ g[i + 1] = f[i]
        /\ \A j \in DOMAIN g \ {i + 1} : j \in DOMAIN f /\ j # i /\ g[j] = f[j]
    BY <1>0, <1>3 DEF Renamed
  <2> HIDE DEF g
  <2>2. /\ DOMAIN f \subseteq 0..MB
        /\ end \in [0..MB + 1 -> Nat] /\ end[0] = Len(w)
        /\ \A j \in 0..MB :
              /\ end[j + 1] <= end[j]
              /\ j \notin DOMAIN f => end[j + 1] = end[j]
              /\ j \in DOMAIN f => f[j] = SubSeq(w, end[j + 1] + 1, end[j])
              /\ j \in DOMAIN f /\ j # 0 => end[j + 1] + MaxSize <= end[j]
        /\ end[MB + 1] = 0 \/ (MB # 0 /\ MB \in DOMAIN f)
    BY <1>1 DEF Laid
  <2> HIDE DEF MB
  <2>3. end2 \in [0..MB + 1 -> Nat] /\ end2[0] = Len(w)
    <3>1. last \in Nat
      BY <1>0, <2>2
    <3> HIDE DEF last
    <3>2. ASSUME NEW j \in 0..MB + 1 PROVE end2[j] \in Nat
      <4>1. end[i] \in Nat /\ end[j] \in Nat
        <5>1. end \in [0..MB + 1 -> Nat]
          BY <2>2
        <5>2. i \in 0..MB + 1
          BY <1>0
        <5> QED BY <5>1, <5>2
      <4> QED BY <3>1, <4>1
    <3>3. 0 \in 0..MB + 1 /\ 0 # i + 1 /\ 0 # MB + 1
      BY <1>0
    <3> QED BY <2>2, <3>2, <3>3
  <2>4. i = 0 => end[i + 1] + MaxSize <= end[i]
    <3> SUFFICES ASSUME i = 0 PROVE end[1] + MaxSize <= end[0]
      OBVIOUS
    <3>1. 0 \in 0..MB /\ 0 + 1 = 1 /\ 1 \in 0..MB + 1 /\ 0 \in DOMAIN f
      BY <1>0, <1>3
    <3>2. f[0] = SubSeq(w, end[1] + 1, end[0]) /\ end[1] <= end[0] /\ end[1] \in Nat /\ end[0] = Len(w)
      BY <2>2, <3>1, Zenon
    <3>3. end[0] \in Nat /\ Len(w) \in Nat
      BY <1>1, <3>2
    <3>4. Len(SubSeq(w, end[1] + 1, end[0])) = end[0] - end[1]
      BY <1>1, <3>2, <3>3
    <3>5. end[0] - end[1] >= MaxSize
      BY <3>2, <3>4
    <3> QED BY <1>0, <3>2, <3>3, <3>5
  <2>5. end[i + 1] + MaxSize <= end[i]
    BY <1>0, <1>3, <2>2, <2>4
  <2>6. end2[i + 2] = end[i + 1]
    <3>1. CASE i = MB - 1
      <4>1. i + 2 = MB + 1 /\ i + 2 # i + 1 /\ i + 2 \in 0..MB + 1
        BY <1>0, <3>1
      <4> QED BY <3>1, <4>1, <1>0
    <3>2. CASE i # MB - 1
      <4>1. i + 2 \in 0..MB /\ i + 2 # MB + 1 /\ i + 2 # i + 1 /\ i + 1 + 1 = i + 2 /\ i + 1 \in 0..MB
        BY <1>0, <3>2 DEF MB
      <4>2. end[i + 2] = end[i + 1]
        BY <2>2, <3>2, <4>1 DEF MB
      <4> QED BY <4>1, <4>2, <1>0
    <3> QED BY <3>1, <3>2
  <2>7. end2[i + 1] = end[i] /\ end2[i] = end[i]
    BY <1>0
  <2>8. ASSUME NEW j \in 0..MB, j # i, j # i + 1
        PROVE  end2[j] = end[j] /\ end2[j + 1] = end[j + 1]
    <3>1. j # MB \/ i # MB - 1
      BY <1>0, <2>8
    <3>2. j \in 0..MB + 1 /\ j + 1 \in 0..MB + 1 /\ j # MB + 1 /\ j + 1 # i + 1
      BY <1>0, <2>8
    <3> QED BY <3>1, <3>2, <2>8, <1>0
  <2> HIDE DEF end2
  <2>9. ASSUME NEW j \in 0..MB
        PROVE /\ end2[j + 1] <= end2[j]
              /\ j \notin DOMAIN g => end2[j + 1] = end2[j]
              /\ j \in DOMAIN g => g[j] = SubSeq(w, end2[j + 1] + 1, end2[j])
              /\ j \in DOMAIN g /\ j # 0 => end2[j + 1] + MaxSize <= end2[j]
    <3>1. CASE j = i
      BY <1>0, <2>1, <2>2, <2>7, <3>1
    <3>2. CASE j = i + 1
      <4>1. j + 1 = i + 2 /\ j \in DOMAIN g /\ g[j] = f[i]
        BY <1>0, <2>1, <3>2
      <4>2. f[i] = SubSeq(w, end[i + 1] + 1, end[i]) /\ end[i + 1] <= end[i]
        BY <1>0, <1>3, <2>2
      <4> QED BY <2>5, <2>6, <2>7, <3>2, <4>1, <4>2
    <3>3. CASE j # i /\ j # i + 1
      BY <2>1, <2>2, <2>8, <3>3
    <3> QED BY <3>1, <3>2, <3>3
  <2>10. end2[MB + 1] = 0 \/ (MB # 0 /\ MB \in DOMAIN g)
    <3>1. CASE i = MB - 1
      BY <1>0, <2>1, <3>1
    <3>2. CASE i # MB - 1
      <4>1. MB # i /\ MB # i + 1 /\ MB \in 0..MB
        BY <1>0, <3>2
      <4>2. end2[MB + 1] = end[MB + 1]
        BY <2>8, <4>1
      <4>3. MB \in DOMAIN f => MB \in DOMAIN g
        BY <2>1, <4>1
      <4> QED BY <1>0, <2>2, <4>2, <4>3
    <3> QED BY <3>1, <3>2
  <2>11. DOMAIN g \subseteq 0..MB /\ g = [j \in DOMAIN g |-> g[j]]
    <3>1. DOMAIN g \subseteq 0..MB
      BY <1>0, <2>1, <2>2
    <3>2. g = [j \in (DOMAIN f \ {i}) \cup {i + 1} |-> IF j = i + 1 THEN f[i] ELSE f[j]]
      BY <1>3 DEF Renamed, g
    <3>3. g = [j \in DOMAIN g |-> g[j]]
      BY <3>2
    <3> QED BY <3>1, <3>3
  <2>12. Laid(g, w, end2)
    BY <2>3, <2>9, <2>10, <2>11 DEF Laid, MB
  <2> QED BY <1>1, <2>12 DEF Held, g
<1> QED BY <1>2, <1>3

\* ... and leaves one number less unused than before, but its own.
LEMMA RenamedHoles ==
    ASSUME NEW f, DOMAIN f \subseteq 0..MaxBackups, NEW i \in 0..MaxBackups - 1,
           i = MaxBackups - 1 \/ i + 1 \notin DOMAIN f, i = 0 => 0 \in DOMAIN f
    PROVE  Cardinality(Holes(Renamed(f, i)) \ {i}) <= Cardinality(Holes(f) \ {i + 1})
<1> DEFINE MB == MaxBackups
           g == Renamed(f, i)
<1>0. MB \in Nat /\ MB # 0 /\ i \in Nat /\ i + 1 <= MB
  BY ServerLifeAssumption
<1>1. CASE i \in DOMAIN f
  <2>1. DOMAIN g = (DOMAIN f \ {i}) \cup {i + 1}
    BY <1>1 DEF Renamed
  <2> HIDE DEF g
  <2>2. ASSUME NEW j \in Holes(g) \ {i} PROVE j \in Holes(f) \ {i + 1}
    <3>1. j \in 1..MB /\ j \notin DOMAIN g /\ j # i
      BY <2>2 DEF Holes
    <3>2. PICK m \in DOMAIN g : m > j
      BY <2>2 DEF Holes
    <3>3. j # i + 1 /\ j \notin DOMAIN f
      BY <2>1, <3>1
    <3>4. \E k \in DOMAIN f : k > j
      <4>1. CASE m = i + 1
        <5>1. i > j
          BY <1>0, <3>1, <3>2, <4>1
        <5> QED BY <1>1, <5>1
      <4>2. CASE m # i + 1
        BY <2>1, <3>2, <4>2
      <4> QED BY <4>1, <4>2
    <3> QED BY <3>1, <3>3, <3>4 DEF Holes
  <2>3. Holes(g) \ {i} \in SUBSET (Holes(f) \ {i + 1})
    BY <2>2
  <2> QED BY <2>3, FiniteHoles, FS_Subset DEF g
<1>2. CASE i \notin DOMAIN f
  <2>1. g = f /\ i # 0
    BY <1>2 DEF Renamed
  <2>2. CASE i + 1 = MB
    <3>1. i + 1 \notin Holes(f)
      BY <1>0, <2>2 DEF Holes
    <3>2. Holes(f) \ {i + 1} = Holes(f) /\ Holes(f) \ {i} \in SUBSET Holes(f)
      BY <3>1
    <3> QED BY <2>1, <3>2, FiniteHoles, FS_Subset
  <2>3. CASE i + 1 # MB
    <3>1. i + 1 \notin DOMAIN f /\ i \in 1..MB /\ i + 1 \in 1..MB
      BY <1>0, <2>1, <2>3
    <3>2. i \in Holes(f) <=> i + 1 \in Holes(f)
      <4>1. ASSUME NEW j \in DOMAIN f PROVE j > i <=> j > i + 1
        BY <1>0, <1>2, <3>1, <4>1
      <4> QED BY <1>2, <3>1, <4>1 DEF Holes
    <3>3. Cardinality(Holes(f) \ {i}) = Cardinality(Holes(f) \ {i + 1})
      <4> DEFINE k == i + 1
      <4> HIDE DEF k
      <4>1. CASE i \in Holes(f)
        BY <3>2, <4>1, FiniteHoles DEF k
      <4>2. CASE i \notin Holes(f)
        <5>1. Holes(f) \ {i} = Holes(f) \ {i + 1}
          BY <3>2, <4>2
        <5> QED BY <5>1
      <4> QED BY <4>1, <4>2
    <3>4. Cardinality(Holes(f) \ {i + 1}) \in Nat
      BY FiniteHoles
    <3> QED BY <2>1, <3>3, <3>4
  <2> QED BY <2>2, <2>3
<1> QED BY <1>1, <1>2

\* One rename of a rotation.
LEMMA RenamedChain ==
    ASSUME NEW f, NEW w, NEW t \in Int, NEW i \in 0..MaxBackups - 1, Chain(f, w, t, i + 1),
           0 \in DOMAIN f, i = 0 => Len(f[0]) >= MaxSize
    PROVE  /\ Chain(Renamed(f, i), w, t, i)
           /\ i # 0 => 0 \in DOMAIN Renamed(f, i) /\ Renamed(f, i)[0] = f[0]
<1>0. MaxBackups \in Nat /\ i \in Nat /\ i + 1 <= MaxBackups
  BY ServerLifeAssumption
<1>1. Held(f, w) /\ (i = MaxBackups - 1 \/ i + 1 \notin DOMAIN f) /\ DOMAIN f \subseteq 0..MaxBackups
  <2>1. Held(f, w) /\ (i + 1 < MaxBackups => i + 1 \notin DOMAIN f)
    BY DEF Chain
  <2>2. DOMAIN f \subseteq 0..MaxBackups
    BY <2>1, Zenon DEF Held, Laid
  <2> QED BY <1>0, <2>1, <2>2
<1>2. Held(Renamed(f, i), w)
  BY <1>1, RenamedHeld
<1>3. Cardinality(Holes(Renamed(f, i)) \ {i}) <= t
  <2>1. Cardinality(Holes(Renamed(f, i)) \ {i}) <= Cardinality(Holes(f) \ {i + 1})
    BY <1>1, RenamedHoles
  <2>2. Cardinality(Holes(f) \ {i + 1}) <= t
    BY DEF Chain
  <2>3. Cardinality(Holes(Renamed(f, i)) \ {i}) \in Nat /\ Cardinality(Holes(f) \ {i + 1}) \in Nat
    BY FiniteHoles
  <2> QED BY <2>1, <2>2, <2>3
<1>4. i \notin DOMAIN Renamed(f, i)
  BY <1>0 DEF Renamed
<1>5. i # 0 => 0 \in DOMAIN Renamed(f, i) /\ Renamed(f, i)[0] = f[0]
  BY <1>0 DEF Renamed
<1> QED BY <1>2, <1>3, <1>4, <1>5 DEF Chain

\* The renames of a rotation, one after the other.
LEMMA RotatedChain ==
    ASSUME NEW f, NEW w, NEW t \in Int, Chain(f, w, t, MaxBackups), 0 \in DOMAIN f,
           Len(f[0]) >= MaxSize, NEW k \in 0..MaxBackups
    PROVE  Chain(Rotated(f, k), w, t, k)
<1> DEFINE n == MaxBackups - k
           places == [i \in 1..n |-> MaxBackups - i]
           V == {f[i] : i \in DOMAIN f}
           T == UNION {[D -> V] : D \in SUBSET (0..MaxBackups)}
           base == [i \in DOMAIN f |-> f[i]]
           step == [p \in T \X (1..n) |-> Renamed(p[1], places[p[2]])]
           Fix(g) == g = [s \in SUBSET DOMAIN places |->
                            IF s = {} THEN f ELSE Renamed(g[s \ {Max(s)}], places[Max(s)])]
           iter == CHOOSE g : Fix(g)
<1>0. MaxBackups \in Nat /\ n \in Nat /\ k \in Nat
  BY ServerLifeAssumption
<1>1. Rotated(f, k) = iter[DOMAIN places]
  BY DEF Rotated, FoldLeft, MapThenFoldSet
<1> HIDE DEF iter
<1>2. DOMAIN places = 1..n /\ \A i \in 1..n : places[i] = MaxBackups - i /\ places[i] \in 0..MaxBackups - 1
  BY <1>0
<1> HIDE DEF places
<1>3. f \in T
  <2>1. DOMAIN f \in SUBSET (0..MaxBackups) /\ f = [i \in DOMAIN f |-> f[i]]
    BY DEF Chain, Held, Laid
  <2>2. f \in [DOMAIN f -> V]
    BY <2>1
  <2> QED BY <2>1, <2>2
<1>4. ASSUME NEW g \in T, NEW i \in 1..n PROVE Renamed(g, places[i]) \in T
  <2>1. PICK D \in SUBSET (0..MaxBackups) : g \in [D -> V]
    OBVIOUS
  <2>2. PICK j \in 0..MaxBackups - 1 : j = places[i]
    BY <1>2
  <2>3. CASE j \notin DOMAIN g
    BY <2>2, <2>3 DEF Renamed
  <2>4. CASE j \in DOMAIN g
    <3> DEFINE E == (D \ {j}) \cup {j + 1}
    <3>1. E \in SUBSET (0..MaxBackups)
      BY <1>0
    <3>2. Renamed(g, j) = [m \in E |-> IF m = j + 1 THEN g[j] ELSE g[m]]
      BY <2>1, <2>4 DEF Renamed
    <3> HIDE DEF V
    <3>3. \A m \in E : (IF m = j + 1 THEN g[j] ELSE g[m]) \in V
      BY <2>1, <2>4
    <3> HIDE DEF E
    <3>4. Renamed(g, j) \in [E -> V]
      BY <3>2, <3>3
    <3> QED BY <2>2, <3>1, <3>4
  <2> QED BY <2>3, <2>4
<1> HIDE DEF T
<1>5. \A g \in T : \A i \in 1..n : step[<<g, i>>] = Renamed(g, places[i]) /\ step[<<g, i>>] \in T
  BY <1>4
<1> HIDE DEF step, n
<1>6. PICK g \in [SUBSET (1..n) -> T] :
         \A s \in SUBSET (1..n) : g[s] = IF s = {} THEN f ELSE step[<<g[s \ {Max(s)}], Max(s)>>]
  <2>1. StaysIn(T, n, step)
    BY <1>5, Zenon DEF StaysIn
  <2>2. \E g : Runs(T, n, f, step, g)
    BY <1>0, <1>3, <2>1, FoldExists, Zenon
  <2> QED BY <2>2 DEF Runs
<1>7. ASSUME NEW s \in SUBSET (1..n), s # {}
      PROVE  Max(s) \in 1..n /\ s \ {Max(s)} \in SUBSET (1..n)
  <2>1. s \in SUBSET (0..n)
    BY <1>0
  <2>2. Max(s) \in s
    BY <1>0, <1>7, <2>1, MaxOfNat
  <2> QED BY <2>2
<1>8. Fix(g)
  <2>1. ASSUME NEW s \in SUBSET (1..n)
        PROVE  g[s] = IF s = {} THEN f ELSE Renamed(g[s \ {Max(s)}], places[Max(s)])
    <3>1. CASE s = {}
      BY <1>6, <3>1
    <3>2. CASE s # {}
      <4>1. g[s \ {Max(s)}] \in T
        BY <1>6, <1>7, <3>2
      <4> QED BY <1>5, <1>6, <1>7, <3>2, <4>1
    <3> QED BY <3>1, <3>2
  <2> QED BY <1>2, <1>6, <2>1
<1>9. Fix(iter)
  BY <1>8, Zenon DEF iter
<1> DEFINE P == {m \in 0..n : /\ Chain(iter[1..m], w, t, MaxBackups - m)
                              /\ m < MaxBackups => 0 \in DOMAIN iter[1..m] /\ iter[1..m][0] = f[0]}
<1>10. 0 \in P
  <2>1. 1..0 = {} /\ {} \in SUBSET DOMAIN places /\ MaxBackups - 0 = MaxBackups /\ 0 \in 0..n
    BY <1>0
  <2>2. iter[1..0] = f
    BY <1>9, <2>1
  <2> QED BY <2>1, <2>2
<1>11. ASSUME NEW m \in 1..n, m - 1 \in P PROVE m \in P
  <2> DEFINE i == MaxBackups - m
             h == iter[1..(m - 1)]
  <2>1. i \in 0..MaxBackups - 1 /\ i + 1 = MaxBackups - (m - 1) /\ m - 1 < MaxBackups /\ m \in Nat \ {0}
    BY <1>0 DEF n
  <2>2. Chain(h, w, t, i + 1) /\ 0 \in DOMAIN h /\ h[0] = f[0]
    BY <1>11, <2>1
  <2>3. iter[1..m] = Renamed(h, i)
    <3>1. 1..m \in SUBSET DOMAIN places /\ 1..m # {}
      <4>1. 1..m \in SUBSET (1..n) /\ m \in 1..m
        BY <1>0
      <4> QED BY <1>2, <4>1, Zenon
    <3>2. iter[1..m] = Renamed(iter[(1..m) \ {Max(1..m)}], places[Max(1..m)])
      BY <1>9, <3>1
    <3> QED BY <1>2, <2>1, <3>2, MaxOfInterval
  <2> HIDE DEF h, i
  <2>4. Chain(Renamed(h, i), w, t, i) /\ (i # 0 => 0 \in DOMAIN Renamed(h, i) /\ Renamed(h, i)[0] = h[0])
    BY <2>1, <2>2, RenamedChain
  <2>5. m < MaxBackups => i # 0
    BY <1>0 DEF i
  <2> QED BY <2>2, <2>3, <2>4, <2>5 DEF i
<1>12. n \in P
  <2>1. P \in SUBSET Nat /\ n \in 0..n
    BY <1>0
  <2> HIDE DEF P
  <2> QED BY <1>0, <1>10, <1>11, <2>1, UpTo
<1>13. MaxBackups - n = k
  BY <1>0 DEF n
<1> QED BY <1>1, <1>2, <1>12, <1>13

\* What is on the disk of a log and what went to it belong together.
Ordered(f, w, t) == Held(f, w) /\ Cardinality(Holes(f)) <= t

LEMMA SameHoles ==
    ASSUME NEW f, NEW g, DOMAIN g = DOMAIN f \cup {0}, DOMAIN f \subseteq 0..MaxBackups
    PROVE  Holes(g) = Holes(f)
<1>1. ASSUME NEW j \in 1..MaxBackups
      PROVE  /\ j \notin DOMAIN g <=> j \notin DOMAIN f
             /\ (\E m \in DOMAIN g : m > j) <=> (\E m \in DOMAIN f : m > j)
  BY ServerLifeAssumption
<1> QED BY <1>1 DEF Holes

\* fopen "a".
LEMMA OpenedOrdered ==
    ASSUME NEW f, NEW w, NEW t, Ordered(f, w, t)
    PROVE  Ordered([i \in DOMAIN f \cup {0} |-> IF i \in DOMAIN f THEN f[i] ELSE <<>>], w, t)
<1> DEFINE g == [i \in DOMAIN f \cup {0} |-> IF i \in DOMAIN f THEN f[i] ELSE <<>>]
<1>0. MaxBackups \in Nat
  BY ServerLifeAssumption
<1>1. PICK S, end : w \in Seq(S) /\ Laid(f, w, end)
  BY DEF Ordered, Held
<1>2. /\ DOMAIN f \subseteq 0..MaxBackups
      /\ end \in [0..MaxBackups + 1 -> Nat] /\ end[0] = Len(w)
      /\ \A i \in 0..MaxBackups :
            /\ end[i + 1] <= end[i]
            /\ i \notin DOMAIN f => end[i + 1] = end[i]
            /\ i \in DOMAIN f => f[i] = SubSeq(w, end[i + 1] + 1, end[i])
            /\ i \in DOMAIN f /\ i # 0 => end[i + 1] + MaxSize <= end[i]
      /\ end[MaxBackups + 1] = 0 \/ (MaxBackups # 0 /\ MaxBackups \in DOMAIN f)
  BY <1>1 DEF Laid
<1>3. /\ DOMAIN g = DOMAIN f \cup {0} /\ DOMAIN g \subseteq 0..MaxBackups /\ g = [i \in DOMAIN g |-> g[i]]
      /\ \A i \in DOMAIN f : g[i] = f[i]
      /\ 0 \notin DOMAIN f => g[0] = <<>>
  BY <1>0, <1>2
<1> HIDE DEF g
<1>4. 0 \notin DOMAIN f => g[0] = SubSeq(w, end[1] + 1, end[0])
  <2> SUFFICES ASSUME 0 \notin DOMAIN f PROVE g[0] = SubSeq(w, end[1] + 1, end[0])
    OBVIOUS
  <2>1. 0 \in 0..MaxBackups /\ 0 + 1 = 1 /\ 0 \in 0..MaxBackups + 1
    BY <1>0
  <2>2. end[1] = end[0]
    BY <1>2, <2>1, Zenon
  <2>3. end[0] \in Nat
    BY <1>2, <2>1
  <2>4. SubSeq(w, end[0] + 1, end[0]) = <<>>
    BY <1>1, <2>3
  <2> QED BY <1>3, <2>2, <2>4
<1>5. ASSUME NEW i \in 0..MaxBackups
      PROVE  /\ end[i + 1] <= end[i]
             /\ i \notin DOMAIN g => end[i + 1] = end[i]
             /\ i \in DOMAIN g => g[i] = SubSeq(w, end[i + 1] + 1, end[i])
             /\ i \in DOMAIN g /\ i # 0 => end[i + 1] + MaxSize <= end[i]
  <2>1. CASE i = 0 /\ 0 \notin DOMAIN f
    <3>1. i + 1 = 1
      BY <2>1
    <3> QED BY <1>2, <1>3, <1>4, <2>1, <3>1
  <2>2. CASE ~ (i = 0 /\ 0 \notin DOMAIN f)
    BY <1>2, <1>3, <2>2
  <2> QED BY <2>1, <2>2
<1>6. Laid(g, w, end)
  BY <1>2, <1>3, <1>5 DEF Laid
<1>7. Holes(g) = Holes(f)
  BY <1>2, <1>3, SameHoles
<1> QED BY <1>1, <1>6, <1>7 DEF Ordered, Held, g

\* A line.
LEMMA LineOrdered ==
    ASSUME NEW f, NEW w, NEW t, Ordered(f, w, t), 0 \in DOMAIN f, NEW line
    PROVE  Ordered([f EXCEPT ![0] = Append(@, line)], Append(w, line), t)
<1> DEFINE g == [f EXCEPT ![0] = Append(@, line)]
           v == Append(w, line)
<1>0. MaxBackups \in Nat
  BY ServerLifeAssumption
<1>1. PICK S, end : w \in Seq(S) /\ Laid(f, w, end)
  BY DEF Ordered, Held
<1>2. /\ DOMAIN f \subseteq 0..MaxBackups /\ f = [i \in DOMAIN f |-> f[i]]
      /\ end \in [0..MaxBackups + 1 -> Nat] /\ end[0] = Len(w)
      /\ \A i \in 0..MaxBackups :
            /\ end[i + 1] <= end[i]
            /\ i \notin DOMAIN f => end[i + 1] = end[i]
            /\ i \in DOMAIN f => f[i] = SubSeq(w, end[i + 1] + 1, end[i])
            /\ i \in DOMAIN f /\ i # 0 => end[i + 1] + MaxSize <= end[i]
      /\ end[MaxBackups + 1] = 0 \/ (MaxBackups # 0 /\ MaxBackups \in DOMAIN f)
  BY <1>1 DEF Laid
<1>3. /\ DOMAIN g = DOMAIN f /\ g = [i \in DOMAIN g |-> g[i]]
      /\ \A i \in DOMAIN f \ {0} : g[i] = f[i]
      /\ g[0] = Append(f[0], line)
  BY <1>2
<1>4. /\ v \in Seq(S \cup {line}) /\ Len(v) = Len(w) + 1 /\ Len(w) \in Nat
      /\ \A a, b \in Nat : a >= 1 /\ b <= Len(w) => SubSeq(v, a, b) = SubSeq(w, a, b)
      /\ \A c \in Nat : c >= 1 /\ c <= Len(w) + 1 => SubSeq(v, c, Len(w) + 1) = Append(SubSeq(w, c, Len(w)), line)
  <2>1. w \in Seq(S \cup {line})
    BY <1>1
  <2>2. v \in Seq(S \cup {line}) /\ Len(v) = Len(w) + 1 /\ Len(w) \in Nat
    BY <2>1
  <2>3. ASSUME NEW a \in Nat, NEW b \in Nat, a >= 1, b <= Len(w) PROVE SubSeq(v, a, b) = SubSeq(w, a, b)
    BY <2>1, <2>2, <2>3
  <2>4. ASSUME NEW a \in Nat, a >= 1, a <= Len(w) + 1
        PROVE  SubSeq(v, a, Len(w) + 1) = Append(SubSeq(w, a, Len(w)), line)
    BY <2>1, <2>2, <2>4
  <2> QED BY <2>2, <2>3, <2>4
<1> HIDE DEF g, v
<1> DEFINE end2 == [end EXCEPT ![0] = @ + 1]
<1>5. /\ end2 \in [0..MaxBackups + 1 -> Nat] /\ end2[0] = Len(w) + 1
      /\ \A i \in 1..MaxBackups + 1 : end2[i] = end[i]
  <2>1. 0 \in 0..MaxBackups + 1 /\ 1..MaxBackups + 1 \subseteq 0..MaxBackups + 1 /\ 0 \notin 1..MaxBackups + 1
    BY <1>0
  <2>2. end \in [0..MaxBackups + 1 -> Nat] /\ end[0] = Len(w)
    BY <1>2
  <2> QED BY <2>1, <2>2
<1> HIDE DEF end2
<1>6. \A i \in 0..MaxBackups + 1 : end[i] \in Nat /\ end[i] <= Len(w)
  <2> DEFINE P == {i \in 0..MaxBackups + 1 : end[i] \in Nat /\ end[i] <= Len(w)}
  <2>1. end \in [0..MaxBackups + 1 -> Nat] /\ end[0] = Len(w)
    BY <1>2
  <2>2. 0 \in P
    BY <1>0, <1>4, <2>1
  <2>3. ASSUME NEW i \in 1..MaxBackups + 1, i - 1 \in P PROVE i \in P
    <3>1. i - 1 \in 0..MaxBackups /\ (i - 1) + 1 = i /\ i \in 0..MaxBackups + 1
      BY <1>0
    <3>2. end[i] <= end[i - 1]
      BY <1>2, <3>1
    <3>3. end[i] \in Nat /\ end[i - 1] \in Nat /\ end[i - 1] <= Len(w)
      BY <2>1, <2>3, <3>1
    <3> QED BY <1>4, <3>1, <3>2, <3>3
  <2>4. P \in SUBSET Nat /\ MaxBackups + 1 \in Nat
    BY <1>0
  <2> HIDE DEF P
  <2>5. \A i \in 0..MaxBackups + 1 : i \in P
    BY <2>2, <2>3, <2>4, UpTo
  <2> QED BY <2>5 DEF P
<1>7. ASSUME NEW i \in 0..MaxBackups
      PROVE  /\ end2[i + 1] <= end2[i]
             /\ i \notin DOMAIN g => end2[i + 1] = end2[i]
             /\ i \in DOMAIN g => g[i] = SubSeq(v, end2[i + 1] + 1, end2[i])
             /\ i \in DOMAIN g /\ i # 0 => end2[i + 1] + MaxSize <= end2[i]
  <2>1. i + 1 \in 1..MaxBackups + 1 /\ i + 1 \in 0..MaxBackups + 1 /\ i \in 0..MaxBackups + 1
    BY <1>0
  <2>2. end2[i + 1] = end[i + 1] /\ end[i + 1] \in Nat /\ end[i + 1] <= Len(w) /\ end[i] \in Nat /\ end[i] <= Len(w)
    BY <1>5, <1>6, <2>1
  <2>3. CASE i = 0
    <3>1. f[0] = SubSeq(w, end[i + 1] + 1, end[0]) /\ end[0] = Len(w)
      BY <1>2, <2>3
    <3>2. g[0] = SubSeq(v, end[i + 1] + 1, Len(w) + 1)
      <4> DEFINE a == end[i + 1] + 1
      <4>1. a \in Nat /\ a >= 1 /\ a <= Len(w) + 1
        BY <1>4, <2>2
      <4> HIDE DEF a
      <4>2. SubSeq(v, a, Len(w) + 1) = Append(SubSeq(w, a, Len(w)), line)
        BY <1>4, <4>1
      <4> QED BY <1>3, <3>1, <4>2 DEF a
    <3> QED BY <1>3, <1>4, <1>5, <2>2, <2>3, <3>2
  <2>4. CASE i # 0
    <3>1. end2[i] = end[i]
      <4>1. i \in 1..MaxBackups + 1
        BY <1>0, <2>4
      <4> QED BY <1>5, <4>1
    <3>2. SubSeq(v, end[i + 1] + 1, end[i]) = SubSeq(w, end[i + 1] + 1, end[i])
      <4> DEFINE a == end[i + 1] + 1
      <4>1. a \in Nat /\ a >= 1
        <5>1. end[i + 1] \in Nat
          BY <2>2
        <5> QED BY <5>1
      <4> HIDE DEF a
      <4>2. SubSeq(v, a, end[i]) = SubSeq(w, a, end[i])
        BY <1>4, <2>2, <4>1
      <4> QED BY <4>2 DEF a
    <3>3. i \in DOMAIN g <=> i \in DOMAIN f
      BY <1>3
    <3>4. /\ end[i + 1] <= end[i]
          /\ i \notin DOMAIN f => end[i + 1] = end[i]
          /\ i \in DOMAIN f => f[i] = SubSeq(w, end[i + 1] + 1, end[i])
          /\ i \in DOMAIN f /\ i # 0 => end[i + 1] + MaxSize <= end[i]
      BY <1>2
    <3> QED BY <1>3, <2>2, <2>4, <3>1, <3>2, <3>3, <3>4
  <2> QED BY <2>3, <2>4
<1>8. end2[MaxBackups + 1] = 0 \/ (MaxBackups # 0 /\ MaxBackups \in DOMAIN g)
  <2>1. MaxBackups + 1 \in 1..MaxBackups + 1
    BY <1>0
  <2> QED BY <1>2, <1>3, <1>5, <2>1
<1>9. Laid(g, v, end2)
  BY <1>2, <1>3, <1>4, <1>5, <1>7, <1>8 DEF Laid
<1>10. Holes(g) = Holes(f)
  <2>1. DOMAIN g = DOMAIN f \cup {0} /\ DOMAIN f \subseteq 0..MaxBackups
    BY <1>2, <1>3, Zenon
  <2> QED BY <2>1, SameHoles
<1> QED BY <1>4, <1>9, <1>10 DEF Ordered, Held, g, v

\* Nothing was written yet.
LEMMA NothingOrdered == Ordered([i \in {} |-> <<>>], <<>>, 0)
<1> DEFINE f == [i \in {} |-> <<>>]
           w == <<>>
           end == [i \in 0..MaxBackups + 1 |-> 0]
<1>1. MaxBackups \in Nat
  BY ServerLifeAssumption
<1>2. Laid(f, w, end)
  <2>1. DOMAIN f = {} /\ f = [i \in DOMAIN f |-> f[i]] /\ Len(w) = 0
    OBVIOUS
  <2>2. /\ end \in [0..MaxBackups + 1 -> Nat] /\ 0 \in 0..MaxBackups + 1 /\ MaxBackups + 1 \in 0..MaxBackups + 1
        /\ \A i \in 0..MaxBackups : i \in 0..MaxBackups + 1 /\ i + 1 \in 0..MaxBackups + 1
    BY <1>1
  <2>3. \A i \in 0..MaxBackups + 1 : end[i] = 0
    OBVIOUS
  <2> HIDE DEF f, end, w
  <2> QED BY <2>1, <2>2, <2>3 DEF Laid
<1>3. Holes(f) = {}
  BY DEF Holes
<1>4. <<>> \in Seq({})
  OBVIOUS
<1> QED BY <1>2, <1>3, <1>4, FS_EmptySet DEF Ordered, Held

\* The renames of a rotation, all or down to number k.
LEMMA RotatedOrdered ==
    ASSUME NEW f, NEW w, NEW t \in Nat, Ordered(f, w, t), 0 \in DOMAIN f, Len(f[0]) >= MaxSize,
           NEW k \in 0..MaxBackups
    PROVE  Ordered(Rotated(f, k), w, IF k \in 1..MaxBackups - 1 THEN t + 1 ELSE t)
<1> DEFINE g == Rotated(f, k)
<1>0. MaxBackups \in Nat /\ t \in Int
  BY ServerLifeAssumption
<1>1. MaxBackups \notin Holes(f)
  <2>1. DOMAIN f \subseteq 0..MaxBackups
    BY Zenon DEF Ordered, Held, Laid
  <2> QED BY <1>0, <2>1 DEF Holes
<1>2. Holes(f) \ {MaxBackups} = Holes(f)
  BY <1>1
<1>3. Chain(f, w, t, MaxBackups)
  BY <1>0, <1>2 DEF Chain, Ordered
<1>4. Chain(g, w, t, k)
  BY <1>0, <1>3, RotatedChain
<1> HIDE DEF g
<1>5. Held(g, w) /\ Cardinality(Holes(g) \ {k}) <= t
  BY <1>4 DEF Chain
<1>6. CASE k \in 1..MaxBackups - 1
  <2>1. Cardinality(Holes(g)) <= t + 1
    <3>1. Cardinality(Holes(g)) <= Cardinality(Holes(g) \ {k}) + 1
      BY FiniteHoles
    <3>2. Cardinality(Holes(g)) \in Nat /\ Cardinality(Holes(g) \ {k}) \in Nat
      BY FiniteHoles
    <3> QED BY <1>5, <3>1, <3>2
  <2> QED BY <1>5, <1>6, <2>1 DEF Ordered, g
<1>7. CASE k \notin 1..MaxBackups - 1
  <2>1. k \notin Holes(g)
    <3>1. k = 0 \/ k = MaxBackups
      BY <1>0, <1>7
    <3>2. DOMAIN g \subseteq 0..MaxBackups
      BY <1>5, Zenon DEF Held, Laid
    <3> QED BY <1>0, <3>1, <3>2 DEF Holes
  <2>2. Holes(g) \ {k} = Holes(g)
    BY <2>1
  <2> QED BY <1>5, <1>7, <2>2 DEF Ordered, g
<1> QED BY <1>6, <1>7

\* The ends fall from what was written to what is gone.
LEMMA EndsFall ==
    ASSUME NEW f, NEW S, NEW w \in Seq(S), NEW end, Laid(f, w, end), NEW i \in 0..MaxBackups + 1
    PROVE  end[i] \in Nat /\ end[i] <= Len(w) /\ end[MaxBackups + 1] \in Nat /\ end[MaxBackups + 1] <= end[i]
<1> DEFINE N == MaxBackups + 1
           P == {j \in 0..N : end[j] <= Len(w)}
           Q == {j \in 0..N : end[N] <= end[N - j]}
<1>0. MaxBackups \in Nat /\ N \in Nat /\ N \in 0..N /\ Len(w) \in Nat
  BY ServerLifeAssumption
<1>1. /\ end \in [0..N -> Nat] /\ end[0] = Len(w)
      /\ \A j \in 0..MaxBackups : end[j + 1] <= end[j]
  BY Zenon DEF Laid
<1>2. \A j \in 0..N : end[j] \in Nat
  BY <1>1
<1>3. \A j \in 0..MaxBackups : j \in 0..N /\ j + 1 \in 0..N
  BY <1>0
<1>4. 0 \in P /\ 0 \in Q /\ P \in SUBSET Nat /\ Q \in SUBSET Nat
  <2>1. 0 \in 0..N /\ N - 0 = N
    BY <1>0
  <2>2. end[N] \in Nat
    BY <1>0, <1>2
  <2> QED BY <1>0, <1>1, <2>1, <2>2
<1>5. ASSUME NEW j \in 1..N, j - 1 \in P PROVE j \in P
  <2>1. j - 1 \in 0..MaxBackups /\ (j - 1) + 1 = j /\ j \in 0..N /\ j - 1 \in 0..N
    BY <1>0
  <2>2. end[j] <= end[j - 1]
    BY <1>1, <2>1
  <2>3. end[j] \in Nat /\ end[j - 1] \in Nat /\ end[j - 1] <= Len(w)
    BY <1>2, <1>5, <2>1
  <2> QED BY <1>0, <2>1, <2>2, <2>3
<1>6. ASSUME NEW j \in 1..N, j - 1 \in Q PROVE j \in Q
  <2>1. N - j \in 0..MaxBackups /\ (N - j) + 1 = N - (j - 1) /\ j \in 0..N /\ N - j \in 0..N /\ N - (j - 1) \in 0..N
    BY <1>0
  <2>2. end[N - (j - 1)] <= end[N - j]
    BY <1>1, <2>1
  <2>3. end[N - j] \in Nat /\ end[N - (j - 1)] \in Nat /\ end[N] \in Nat /\ end[N] <= end[N - (j - 1)]
    BY <1>0, <1>2, <1>6, <2>1
  <2> QED BY <2>1, <2>2, <2>3
<1> HIDE DEF N, P, Q
<1>7. (\A j \in 0..N : j \in P) /\ \A j \in 0..N : j \in Q
  BY <1>0, <1>4, <1>5, <1>6, UpTo
<1>8. i \in 0..N /\ N - i \in 0..N /\ N - (N - i) = i
  BY <1>0 DEF N
<1>9. i \in P /\ N - i \in Q
  BY <1>7, <1>8
<1>10. end[i] <= Len(w) /\ end[N] <= end[i]
  BY <1>8, <1>9 DEF P, Q
<1> QED BY <1>0, <1>2, <1>8, <1>10 DEF N

LEMMA KeptIsEnd ==
    ASSUME NEW f, NEW S, NEW w \in Seq(S), NEW end, Laid(f, w, end)
    PROVE  FlattenSeq(OldestFirst(f)) = SubSeq(w, end[MaxBackups + 1] + 1, Len(w))
<1> DEFINE N == MaxBackups + 1
           seqs == OldestFirst(f)
           Fix(g) == g = [i \in 1..Len(seqs) |-> IF i = 1 THEN seqs[i] ELSE g[i - 1] \o seqs[i]]
           flatten == CHOOSE g : Fix(g)
           e == end[N]
           h == [i \in 1..N |-> SubSeq(w, e + 1, end[N - i])]
<1>0. MaxBackups \in Nat /\ N \in Nat /\ N # 0 /\ Len(w) \in Nat
  BY ServerLifeAssumption
<1>1. Len(seqs) = N
  BY <1>0 DEF OldestFirst
<1>2. FlattenSeq(OldestFirst(f)) = flatten[Len(seqs)]
  <2>2. Len(seqs) # 0
    BY <1>0, <1>1
  <2> HIDE DEF seqs
  <2>3. FlattenSeq(seqs) = flatten[Len(seqs)]
    BY <2>2, Zenon DEF FlattenSeq, flatten
  <2> HIDE DEF flatten
  <2> QED BY <2>3 DEF seqs
<1> HIDE DEF flatten
<1>3. \A i \in 0..N : end[i] \in Nat /\ end[i] <= Len(w) /\ e \in Nat /\ e <= end[i]
  BY EndsFall
<1>4. /\ end[0] = Len(w)
      /\ \A i \in 0..MaxBackups :
            /\ end[i + 1] <= end[i]
            /\ i \notin DOMAIN f => end[i + 1] = end[i]
            /\ i \in DOMAIN f => f[i] = SubSeq(w, end[i + 1] + 1, end[i])
  BY Zenon DEF Laid
<1>5. ASSUME NEW i \in 1..N
      PROVE  seqs[i] = SubSeq(w, end[N - i + 1] + 1, end[N - i])
  <2> DEFINE j == N - i
  <2>1. j \in 0..MaxBackups /\ j + 1 \in 0..N /\ j \in 0..N
    BY <1>0
  <2>2. seqs[i] = IF j \in DOMAIN f THEN f[j] ELSE <<>>
    BY <1>0 DEF OldestFirst
  <2> HIDE DEF j, seqs
  <2>3. CASE j \in DOMAIN f
    BY <1>4, <2>1, <2>2, <2>3 DEF j
  <2>4. CASE j \notin DOMAIN f
    <3>1. end[j + 1] = end[j] /\ end[j] \in Nat
      BY <1>3, <1>4, <2>1, <2>4
    <3> DEFINE x == end[j]
    <3>2. x \in Nat
      BY <3>1
    <3> HIDE DEF x
    <3>3. SubSeq(w, x + 1, x) = <<>>
      BY <3>2, SubSeqEmpty
    <3> QED BY <2>2, <2>4, <3>1, <3>3 DEF j, x
  <2> QED BY <2>3, <2>4
<1>6. ASSUME NEW i \in 1..N
      PROVE  h[i] = IF i = 1 THEN seqs[i] ELSE h[i - 1] \o seqs[i]
  <2>1. CASE i = 1
    <3>1. N - 1 + 1 = N
      BY <1>0
    <3> QED BY <1>5, <2>1, <3>1
  <2>2. CASE i # 1
    <3>1. i - 1 \in 1..N /\ N - (i - 1) = N - i + 1 /\ N - i \in 0..N /\ N - i + 1 \in 0..N /\ N - i \in 0..MaxBackups
      BY <1>0, <2>2
    <3> DEFINE x == end[N - i + 1]
               y == end[N - i]
    <3>2. h[i] = SubSeq(w, e + 1, y) /\ h[i - 1] = SubSeq(w, e + 1, x) /\ seqs[i] = SubSeq(w, x + 1, y)
      BY <1>5, <3>1
    <3>3. x \in Nat /\ y \in Nat /\ x <= Len(w) /\ y <= Len(w) /\ e \in Nat /\ e <= x /\ x <= y
      BY <1>3, <1>4, <3>1
    <3> HIDE DEF x, y, e, h, seqs
    <3>4. SubSeq(w, e + 1, x) \o SubSeq(w, x + 1, y) = SubSeq(w, e + 1, y)
      <4> DEFINE m == e + 1
      <4>1. m \in 1..Len(w) + 1 /\ x \in m - 1..Len(w) /\ y \in x..Len(w)
        BY <1>0, <3>3
      <4> HIDE DEF m
      <4>2. SubSeq(w, m, x) \o SubSeq(w, x + 1, y) = SubSeq(w, m, y)
        BY <4>1, ConcatAdjacentSubSeq
      <4> QED BY <4>2 DEF m
    <3> QED BY <2>2, <3>2, <3>4
  <2> QED BY <2>1, <2>2
<1>7. Fix(h)
  <2> HIDE DEF seqs
  <2> QED BY <1>1, <1>6
<1>8. Fix(flatten)
  <2> HIDE DEF seqs, h, Fix
  <2> QED BY <1>7, Zenon DEF flatten
<1> DEFINE P == {k \in 0..N : k # 0 => flatten[k] = h[k]}
<1>9. 0 \in P /\ P \in SUBSET Nat
  BY <1>0
<1>10. ASSUME NEW k \in 1..N, k - 1 \in P PROVE k \in P
  <2> HIDE DEF seqs
  <2>1. flatten[k] = IF k = 1 THEN seqs[k] ELSE flatten[k - 1] \o seqs[k]
    BY <1>1, <1>8
  <2> HIDE DEF Fix, h
  <2>2. k # 1 => flatten[k - 1] = h[k - 1]
    BY <1>10
  <2>3. flatten[k] = h[k]
    BY <1>6, <2>1, <2>2
  <2> QED BY <2>3
<1>11. flatten[N] = h[N]
  <2> HIDE DEF P, N
  <2>1. \A k \in 0..N : k \in P
    BY <1>0, <1>9, <1>10, UpTo
  <2>2. N \in P
    BY <1>0, <2>1
  <2> QED BY <1>0, <2>2 DEF P
<1>12. h[N] = SubSeq(w, e + 1, Len(w))
  <2>1. N \in 1..N /\ N - N = 0
    BY <1>0
  <2> QED BY <1>4, <2>1
<1> QED BY <1>1, <1>2, <1>11, <1>12

\* Each backup holds a file full of lines.
LEMMA BackupsFull ==
    ASSUME NEW f, NEW S, NEW w \in Seq(S), NEW end, Laid(f, w, end)
    PROVE  end[MaxBackups + 1] + Cardinality((1..MaxBackups) \cap DOMAIN f) * MaxSize <= end[1]
<1> DEFINE N == MaxBackups + 1
           From(k) == (N - k..MaxBackups) \cap DOMAIN f
           P == {k \in 0..MaxBackups : end[N] + Cardinality(From(k)) * MaxSize <= end[N - k]}
<1>0. MaxBackups \in Nat /\ N \in Nat /\ MaxSize \in Nat
  BY ServerLifeAssumption
<1>1. \A i \in 0..N : end[i] \in Nat
  BY EndsFall
<1>2. \A i \in 0..MaxBackups :
          /\ end[i + 1] <= end[i]
          /\ i \notin DOMAIN f => end[i + 1] = end[i]
          /\ i \in DOMAIN f /\ i # 0 => end[i + 1] + MaxSize <= end[i]
  BY Zenon DEF Laid
<1>3. \A k \in 0..MaxBackups : IsFiniteSet(From(k)) /\ Cardinality(From(k)) \in Nat
  <2> SUFFICES ASSUME NEW k \in 0..MaxBackups PROVE IsFiniteSet(From(k)) /\ Cardinality(From(k)) \in Nat
    OBVIOUS
  <2>1. N - k \in Int /\ MaxBackups \in Int
    BY <1>0
  <2>2. IsFiniteSet(N - k..MaxBackups) /\ From(k) \in SUBSET (N - k..MaxBackups)
    BY <2>1, FS_Interval
  <2> QED BY <2>2, FS_Subset, FS_CardinalityType
<1>4. 0 \in P /\ P \in SUBSET Nat
  <2>1. From(0) = {} /\ N - 0 = N /\ 0 \in 0..MaxBackups /\ N \in 0..N
    BY <1>0
  <2>2. Cardinality(From(0)) = 0
    BY <2>1, FS_EmptySet
  <2>3. end[N] + 0 * MaxSize = end[N]
    BY <1>0, <1>1, <2>1
  <2>4. end[N] + Cardinality(From(0)) * MaxSize <= end[N - 0]
    BY <1>0, <1>1, <2>1, <2>2, <2>3
  <2> HIDE DEF From
  <2> QED BY <2>1, <2>4
<1>5. ASSUME NEW k \in 1..MaxBackups, k - 1 \in P PROVE k \in P
  <2> DEFINE j == N - k
  <2>1. /\ j \in 0..MaxBackups /\ j # 0 /\ j + 1 = N - (k - 1) /\ j \in 0..N /\ j + 1 \in 0..N
        /\ k - 1 \in 0..MaxBackups /\ k \in 0..MaxBackups
    BY <1>0
  <2>2. From(k) = IF j \in DOMAIN f THEN From(k - 1) \cup {j} ELSE From(k - 1)
    <3>1. \A x : x \in (j..MaxBackups) <=> x = j \/ x \in (j + 1..MaxBackups)
      BY <1>0, <2>1
    <3> QED BY <2>1, <3>1
  <2>3. j \notin From(k - 1)
    BY <1>0, <2>1
  <2> DEFINE c == Cardinality(From(k - 1))
             d == Cardinality(From(k))
             x == end[j + 1]
             y == end[j]
             e == end[N]
  <2>4. c \in Nat /\ d \in Nat /\ x \in Nat /\ y \in Nat /\ e \in Nat
    <3>1. N \in 0..N
      BY <1>0
    <3> QED BY <1>1, <1>3, <2>1, <3>1
  <2>5. d = IF j \in DOMAIN f THEN c + 1 ELSE c
    <3>1. IsFiniteSet(From(k - 1))
      BY <1>3, <2>1
    <3> HIDE DEF From, j
    <3> QED BY <2>2, <2>3, <3>1, FS_AddElement
  <2>6. e + c * MaxSize <= x
    BY <1>5, <2>1
  <2>7. x <= y /\ (j \in DOMAIN f => x + MaxSize <= y)
    BY <1>2, <2>1
  <2> HIDE DEF c, d, x, y, e, j, From
  <2>8. e + d * MaxSize <= y
    <3>1. CASE j \in DOMAIN f
      <4>1. (c + 1) * MaxSize = c * MaxSize + MaxSize /\ c * MaxSize \in Nat
        BY <1>0, <2>4
      <4> QED BY <1>0, <2>4, <2>5, <2>6, <2>7, <3>1, <4>1
    <3>2. CASE j \notin DOMAIN f
      <4>1. c * MaxSize \in Nat /\ d = c
        BY <1>0, <2>4, <2>5, <3>2
      <4> QED BY <2>4, <2>6, <2>7, <4>1
    <3> QED BY <3>1, <3>2
  <2> QED BY <2>1, <2>8 DEF d, e, y, j
<1>6. MaxBackups \in P
  <2> HIDE DEF P
  <2>1. \A k \in 0..MaxBackups : k \in P
    BY <1>0, <1>4, <1>5, UpTo
  <2> QED BY <1>0, <2>1
<1>7. N - MaxBackups = 1
  BY <1>0
<1> HIDE DEF N
<1>8. end[N] + Cardinality((1..MaxBackups) \cap DOMAIN f) * MaxSize <= end[1]
  BY <1>6, <1>7
<1> QED BY <1>8 DEF N

\* What the files of a log that is in order hold.
LEMMA KeptNewest ==
    ASSUME NEW f, NEW w, NEW t \in Nat, Ordered(f, w, t)
    PROVE  /\ IsSuffix(FlattenSeq(OldestFirst(f)), w)
           /\ Len(FlattenSeq(OldestFirst(f))) >= Min({Len(w), Max({1, MaxBackups - t}) * MaxSize})
<1> DEFINE kept == FlattenSeq(OldestFirst(f))
           c == Cardinality((1..MaxBackups) \cap DOMAIN f)
           m == Max({1, MaxBackups - t})
           low == Min({Len(w), m * MaxSize})
<1>0. MaxBackups \in Nat /\ MaxSize \in Nat
  BY ServerLifeAssumption
<1>1. PICK S, end : w \in Seq(S) /\ Laid(f, w, end)
  BY DEF Ordered, Held
<1> DEFINE e == end[MaxBackups + 1]
<1>2. kept = SubSeq(w, e + 1, Len(w))
  BY <1>1, KeptIsEnd
<1>3. e \in Nat /\ e <= Len(w) /\ Len(w) \in Nat /\ end[1] \in Nat /\ end[1] <= Len(w)
  <2>1. MaxBackups + 1 \in 0..MaxBackups + 1 /\ 1 \in 0..MaxBackups + 1
    BY <1>0
  <2>2. end[1] \in Nat /\ end[1] <= Len(w) /\ e \in Nat /\ e <= end[1]
    BY <1>1, <2>1, EndsFall
  <2>3. Len(w) \in Nat
    BY <1>1
  <2> HIDE DEF e
  <2> QED BY <2>2, <2>3
<1>4. e + c * MaxSize <= end[1]
  BY <1>1, BackupsFull
<1>5. e = 0 \/ (MaxBackups # 0 /\ MaxBackups \in DOMAIN f)
  BY <1>1, Zenon DEF Laid
<1> HIDE DEF kept, e
<1>6. Len(kept) = Len(w) - e /\ kept \in Seq(S) /\ \A i \in 1..Len(kept) : kept[i] = w[e + i]
  BY <1>1, <1>2, <1>3
<1>7. IsSuffix(kept, w)
  <2>1. Len(Reverse(kept)) = Len(kept) /\ Len(Reverse(w)) = Len(w)
    BY <1>1, <1>6 DEF Reverse
  <2>2. ASSUME NEW i \in 1..Len(kept) PROVE Reverse(kept)[i] = Reverse(w)[i]
    <3>1. Len(kept) - i + 1 \in 1..Len(kept) /\ e + (Len(kept) - i + 1) = Len(w) - i + 1 /\ i \in 1..Len(w)
      BY <1>3, <1>6
    <3>2. Reverse(kept)[i] = kept[Len(kept) - i + 1] /\ Reverse(w)[i] = w[Len(w) - i + 1]
      BY <3>1 DEF Reverse
    <3>3. kept[Len(kept) - i + 1] = w[e + (Len(kept) - i + 1)]
      BY <1>6, <3>1
    <3> QED BY <3>1, <3>2, <3>3
  <2>3. Reverse(kept) \in Seq(S) /\ Reverse(w) \in Seq(S)
    BY <1>1, <1>6 DEF Reverse
  <2>4. Len(kept) <= Len(w) /\ Len(kept) \in Nat
    BY <1>3, <1>6
  <2> DEFINE r == Reverse(kept)
             v == Reverse(w)
  <2> HIDE DEF r, v
  <2>5. SubSeq(r, 1, Len(r)) = SubSeq(v, 1, Len(r))
    BY <2>1, <2>2, <2>3, <2>4 DEF r, v
  <2> QED BY <2>1, <2>4, <2>5 DEF IsSuffix, IsPrefix, r, v
<1>8. m \in {1, MaxBackups - t} /\ m >= 1 /\ m >= MaxBackups - t
  <2>1. \E x \in {1, MaxBackups - t} : \A y \in {1, MaxBackups - t} : x >= y
    BY <1>0
  <2> QED BY <2>1, Zenon DEF Max
<1>9. CASE e = 0
  <2>1. low <= Len(w)
    <3>1. \E x \in {Len(w), m * MaxSize} : \A y \in {Len(w), m * MaxSize} : x <= y
      <4>1. m \in Int /\ m * MaxSize \in Int
        BY <1>0, <1>8
      <4> QED BY <1>3, <4>1
    <3> QED BY <3>1, Zenon DEF Min
  <2> QED BY <1>3, <1>6, <1>7, <1>9, <2>1 DEF kept
<1>10. CASE e # 0
  <2>1. MaxBackups # 0 /\ MaxBackups \in DOMAIN f
    BY <1>5, <1>10
  <2> DEFINE D == (1..MaxBackups) \cap DOMAIN f
  <2>2. IsFiniteSet(1..MaxBackups) /\ Cardinality(1..MaxBackups) = MaxBackups
    BY <1>0, FS_Interval
  <2>3. Holes(f) = (1..MaxBackups) \ D
    BY <1>0, <2>1 DEF Holes
  <2>4. Cardinality(Holes(f)) = MaxBackups - c
    <3>1. (1..MaxBackups) \cap D = D
      OBVIOUS
    <3>2. Cardinality((1..MaxBackups) \ D) = Cardinality(1..MaxBackups) - Cardinality((1..MaxBackups) \cap D)
      BY <2>2, FS_Difference
    <3> QED BY <2>2, <2>3, <3>1, <3>2
  <2>5. c \in Nat /\ c >= 1
    <3>1. IsFiniteSet(D) /\ MaxBackups \in D
      BY <1>0, <2>1, <2>2, FS_Subset
    <3>2. c \in Nat /\ c # 0
      BY <3>1, FS_CardinalityType, FS_EmptySet
    <3> QED BY <3>2
  <2>6. c >= MaxBackups - t
    <3>1. Cardinality(Holes(f)) <= t
      BY DEF Ordered
    <3> HIDE DEF c
    <3> QED BY <1>0, <2>4, <2>5, <3>1
  <2> HIDE DEF c, D
  <2>7. m \in Nat /\ c >= m
    <3> HIDE DEF m
    <3> QED BY <1>0, <1>8, <2>5, <2>6
  <2> HIDE DEF m
  <2>8. m * MaxSize <= c * MaxSize /\ m * MaxSize \in Nat /\ c * MaxSize \in Nat
    BY <1>0, <2>5, <2>7
  <2> DEFINE p == m * MaxSize
             q == c * MaxSize
  <2>9. low <= p
    <3>1. p \in Nat
      BY <2>8
    <3> HIDE DEF p
    <3>2. \E x \in {Len(w), p} : \A y \in {Len(w), p} : x <= y
      BY <1>3, <3>1
    <3>3. \A y \in {Len(w), p} : Min({Len(w), p}) <= y
      BY <3>2, Zenon DEF Min
    <3> QED BY <3>3 DEF p
  <2>10. low \in Nat
    <3>1. p \in Nat
      BY <2>8
    <3> HIDE DEF p
    <3>2. {Len(w), p} \in SUBSET Nat /\ {Len(w), p} # {}
      BY <1>3, <3>1
    <3> DEFINE both == {Len(w), p}
    <3> HIDE DEF both
    <3>3. Min(both) \in both
      BY <3>2, MinOfNat DEF both
    <3> QED BY <3>2, <3>3 DEF both, p
  <2>11. p <= q /\ q \in Nat /\ p \in Nat /\ e + q <= end[1]
    BY <1>4, <2>8
  <2> HIDE DEF p, q, low
  <2>12. Len(kept) >= low
    BY <1>3, <1>6, <2>9, <2>10, <2>11
  <2> QED BY <1>7, <2>12 DEF kept, low, m
<1> QED BY <1>9, <1>10

---------------------------------------------------------------------------
(* The inductive invariant. *)

\* The stream that is open leads to a file, and every log is in order.
IsLog(l) ==
    /\ l = [fp |-> l.fp, files |-> l.files, written |-> l.written, torn |-> l.torn]
    /\ l.fp \in LogNames \cup {NoText}
    /\ l.files = [n \in LogNames |-> l.files[n]] /\ l.written = [n \in LogNames |-> l.written[n]]
    /\ l.torn \in [LogNames -> Nat]
    /\ \A n \in LogNames : Ordered(l.files[n], l.written[n], l.torn[n])
    /\ l.fp # NoText => 0 \in DOMAIN l.files[l.fp]

\* Every text fits, and every pointer taken at the start is to an entry.
Stored ==
    /\ disk \in Data /\ config \in Config
    /\ pointer \in [Ports \cup {"log"} -> Nat]
    /\ \A p \in Ports \cup {"log"} : pointer[p] <= Len(config.entries)
    /\ IsLog(log)

\* How far the start has come.
Started ==
    /\ up \in BOOLEAN /\ state \in {"INIT", "RUNNING", "STOPPING", "STOPPED"}
    /\ state = "INIT" => up
    /\ state \in {"RUNNING", "STOPPING"} => up /\ ready = Components
    /\ ~ up => state = "STOPPED" /\ ready = {} /\ thread = "none" /\ listens = Down /\ log.fp = NoText

\* A component that counts as ready is bound, unless its failure is ignored; the
\* session stays bound as long as the discovery thread runs.
Bound ==
    /\ sock_addr \in [Ports -> Addresses \cup {NoText}]
    /\ listens \in [Ports -> Addresses \cup {NoText}]
    /\ state # "STOPPED" =>
          /\ \A p \in Ports : sock_addr[p] \in Addresses
          /\ \A p \in {"session", "http"} \cap ready : listens[p] = sock_addr[p]
    /\ thread # "none" => listens["session"] = sock_addr["session"]

\* The pointers lead where a lookup does, as long as the array has not moved.
LedThere ==
    state # "STOPPED" /\ freed = Unmoved =>
        \A p \in Ports : pointer[p] # 0 /\ pointer[p] = ya_config_get(config, Section[p], Listener)

Living == Stored /\ Started /\ Bound /\ LedThere /\ AddressesTold

---------------------------------------------------------------------------
(* The log. *)

\* Another stream, other files under a name, other lines under a name.
LEMMA ChangedLog ==
    ASSUME NEW l, IsLog(l), NEW fp \in LogNames \cup {NoText}, NEW n \in LogNames, NEW f, NEW w, NEW t \in Nat,
           Ordered(f, w, t),
           fp # NoText => 0 \in DOMAIN (IF fp = n THEN f ELSE l.files[fp])
    PROVE  IsLog([fp |-> fp, files |-> [l.files EXCEPT ![n] = f], written |-> [l.written EXCEPT ![n] = w],
                  torn |-> [l.torn EXCEPT ![n] = t]])
<1> DEFINE F == [l.files EXCEPT ![n] = f]
           W == [l.written EXCEPT ![n] = w]
           T == [l.torn EXCEPT ![n] = t]
           m == [fp |-> fp, files |-> F, written |-> W, torn |-> T]
<1>1. /\ l.files = [k \in LogNames |-> l.files[k]] /\ l.written = [k \in LogNames |-> l.written[k]]
      /\ l.torn \in [LogNames -> Nat]
      /\ \A k \in LogNames : Ordered(l.files[k], l.written[k], l.torn[k])
  BY DEF IsLog
<1>2. /\ F = [k \in LogNames |-> IF k = n THEN f ELSE l.files[k]]
      /\ W = [k \in LogNames |-> IF k = n THEN w ELSE l.written[k]]
      /\ T = [k \in LogNames |-> IF k = n THEN t ELSE l.torn[k]]
  <2>1. DOMAIN l.files = LogNames /\ DOMAIN l.written = LogNames /\ DOMAIN l.torn = LogNames
    BY <1>1
  <2> QED BY <2>1
<1> HIDE DEF F, W, T
<1>3. F = [k \in LogNames |-> F[k]] /\ W = [k \in LogNames |-> W[k]] /\ T \in [LogNames -> Nat]
  BY <1>1, <1>2
<1>4. ASSUME NEW k \in LogNames PROVE Ordered(F[k], W[k], T[k])
  <2>1. CASE k = n
    BY <1>2, <2>1
  <2>2. CASE k # n
    BY <1>1, <1>2, <2>2
  <2> QED BY <2>1, <2>2
<1>5. fp # NoText => 0 \in DOMAIN F[fp]
  BY <1>2
<1>6. m.fp = fp /\ m.files = F /\ m.written = W /\ m.torn = T
      /\ m = [fp |-> m.fp, files |-> m.files, written |-> m.written, torn |-> m.torn]
  OBVIOUS
<1> HIDE DEF m
<1>7. IsLog(m)
  BY <1>3, <1>4, <1>5, <1>6, Zenon DEF IsLog
<1> QED BY <1>7 DEF m, F, W, T

\* What a log's fields are, as the lemmas about one log's files need them.
LEMMA FieldsOfLog ==
    ASSUME NEW l, IsLog(l), NEW n \in LogNames
    PROVE  /\ l = [fp |-> l.fp, files |-> l.files, written |-> l.written, torn |-> l.torn]
           /\ l.fp \in LogNames \cup {NoText} /\ (l.fp # NoText => 0 \in DOMAIN l.files[l.fp])
           /\ l.files = [l.files EXCEPT ![n] = l.files[n]]
           /\ l.written = [l.written EXCEPT ![n] = l.written[n]]
           /\ l.torn = [l.torn EXCEPT ![n] = l.torn[n]] /\ l.torn[n] \in Nat
           /\ Ordered(l.files[n], l.written[n], l.torn[n])
<1>1. /\ l = [fp |-> l.fp, files |-> l.files, written |-> l.written, torn |-> l.torn]
      /\ l.fp \in LogNames \cup {NoText} /\ (l.fp # NoText => 0 \in DOMAIN l.files[l.fp])
      /\ l.files = [k \in LogNames |-> l.files[k]] /\ l.written = [k \in LogNames |-> l.written[k]]
      /\ l.torn \in [LogNames -> Nat]
      /\ Ordered(l.files[n], l.written[n], l.torn[n])
  BY DEF IsLog
<1>2. DOMAIN l.files = LogNames /\ DOMAIN l.written = LogNames /\ DOMAIN l.torn = LogNames
  BY <1>1
<1>3. l.files = [l.files EXCEPT ![n] = l.files[n]]
  BY <1>1, <1>2
<1>4. l.written = [l.written EXCEPT ![n] = l.written[n]]
  BY <1>1, <1>2
<1>5. l.torn = [l.torn EXCEPT ![n] = l.torn[n]] /\ l.torn[n] \in Nat
  BY <1>1
<1> QED BY <1>1, <1>3, <1>4, <1>5

\* fopen() for appending, field by field.
LEMMA OpenedFields ==
    ASSUME NEW l, l = [fp |-> l.fp, files |-> l.files, written |-> l.written, torn |-> l.torn], NEW name
    PROVE  Opened(l, name) =
             [fp |-> name,
              files |-> [l.files EXCEPT ![name] =
                            [i \in DOMAIN l.files[name] \cup {0} |->
                                IF i \in DOMAIN l.files[name] THEN l.files[name][i] ELSE <<>>]],
              written |-> l.written, torn |-> l.torn]
<1> DEFINE G == [l.files EXCEPT ![name] =
                    [i \in DOMAIN l.files[name] \cup {0} |->
                        IF i \in DOMAIN l.files[name] THEN l.files[name][i] ELSE <<>>]]
<1>1. Opened(l, name) = [l EXCEPT !.fp = name, !.files = G]
  BY Zenon DEF Opened
<1> HIDE DEF G
<1>2. Opened(l, name) = [fp |-> name, files |-> G, written |-> l.written, torn |-> l.torn]
  BY <1>1
<1> QED BY <1>2 DEF G

\* Opening a log keeps it in order.
LEMMA OpenedLog ==
    ASSUME NEW l, IsLog(l), NEW name \in LogNames
    PROVE  IsLog(Opened(l, name)) /\ Opened(l, name).fp = name
<1> DEFINE f == l.files[name]
           g == [i \in DOMAIN f \cup {0} |-> IF i \in DOMAIN f THEN f[i] ELSE <<>>]
           G == [l.files EXCEPT ![name] = g]
<1>1. Opened(l, name) = [fp |-> name, files |-> G, written |-> l.written, torn |-> l.torn]
  <2>1. l = [fp |-> l.fp, files |-> l.files, written |-> l.written, torn |-> l.torn]
    BY FieldsOfLog
  <2> QED BY <2>1, OpenedFields
<1>2. Ordered(g, l.written[name], l.torn[name])
  BY FieldsOfLog, OpenedOrdered
<1>3. 0 \in DOMAIN g
  OBVIOUS
<1> HIDE DEF g
<1>4. IsLog([fp |-> name, files |-> G, written |-> [l.written EXCEPT ![name] = l.written[name]],
             torn |-> [l.torn EXCEPT ![name] = l.torn[name]]])
  BY <1>2, <1>3, FieldsOfLog, ChangedLog
<1> HIDE DEF G
<1>5. l.written = [l.written EXCEPT ![name] = l.written[name]] /\ l.torn = [l.torn EXCEPT ![name] = l.torn[name]]
  BY FieldsOfLog
<1>6. IsLog([fp |-> name, files |-> G, written |-> l.written, torn |-> l.torn])
  BY <1>4, <1>5, Zenon
<1> QED BY <1>1, <1>6

\* So does closing the stream.
LEMMA ClosedLog ==
    ASSUME NEW l, IsLog(l)
    PROVE  IsLog([l EXCEPT !.fp = NoText]) /\ [l EXCEPT !.fp = NoText].fp = NoText
<1> DEFINE m == [l EXCEPT !.fp = NoText]
<1>1. m.fp = NoText /\ m.files = l.files /\ m.written = l.written /\ m.torn = l.torn
      /\ m = [fp |-> m.fp, files |-> m.files, written |-> m.written, torn |-> m.torn]
  BY DEF IsLog
<1> HIDE DEF m
<1>2. IsLog(m)
  BY <1>1, Zenon DEF IsLog
<1> QED BY <1>1, <1>2 DEF m

\* A rotation that gets through k renames and then stops leaves a log in order.
LEMMA RotatedLog ==
    ASSUME NEW l, IsLog(l), NEW name, Full(l, name), NEW k \in 0..MaxBackups
    PROVE  LET m == [l EXCEPT !.fp = NoText, !.files[name] = Rotated(@, k),
                              !.torn[name] = IF k \in 1..MaxBackups - 1 THEN @ + 1 ELSE @]
           IN  IsLog(m)
<1> DEFINE f == l.files[name]
           t == IF k \in 1..MaxBackups - 1 THEN l.torn[name] + 1 ELSE l.torn[name]
           F == [l.files EXCEPT ![name] = Rotated(f, k)]
           T == [l.torn EXCEPT ![name] = t]
           m == [l EXCEPT !.fp = NoText, !.files[name] = Rotated(@, k),
                          !.torn[name] = IF k \in 1..MaxBackups - 1 THEN @ + 1 ELSE @]
<1>1. name \in LogNames /\ 0 \in DOMAIN f /\ Len(f[0]) >= MaxSize
  BY DEF Full
<1>2. l.torn[name] \in Nat /\ t \in Nat
  <2>1. l.torn[name] \in Nat
    BY <1>1, FieldsOfLog
  <2> QED BY <2>1
<1>3. Ordered(Rotated(f, k), l.written[name], t)
  BY <1>1, <1>2, FieldsOfLog, RotatedOrdered
<1>4. m = [l EXCEPT !.fp = NoText, !.files = F, !.torn = T]
  BY Zenon
<1> HIDE DEF f, t, m
<1>5. IsLog([fp |-> NoText, files |-> F, written |-> [l.written EXCEPT ![name] = l.written[name]], torn |-> T])
  BY <1>1, <1>2, <1>3, ChangedLog
<1> HIDE DEF F, T
<1>6. l = [fp |-> l.fp, files |-> l.files, written |-> l.written, torn |-> l.torn]
      /\ l.written = [l.written EXCEPT ![name] = l.written[name]]
  BY <1>1, FieldsOfLog
<1>7. m = [fp |-> NoText, files |-> F, written |-> l.written, torn |-> T]
  <2>1. l = [fp |-> l.fp, files |-> l.files, written |-> l.written, torn |-> l.torn]
    BY <1>6
  <2> QED BY <1>4, <2>1
<1>8. IsLog(m)
  BY <1>5, <1>6, <1>7, Zenon
<1> QED BY <1>8 DEF m

\* A line logged, with whatever part of a rotation comes before it, keeps every log in order.
LEMMA LoggedLog ==
    ASSUME NEW l, IsLog(l), NEW name, NEW r \in ya_logger_log(l, name)
    PROVE  IsLog(r)
<1>1. ASSUME NEW s \in check_and_rotate_log(l, name) PROVE IsLog(s)
  <2>1. CASE ~ Full(l, name)
    BY <1>1, <2>1 DEF check_and_rotate_log
  <2>2. CASE Full(l, name)
    <3>1. name \in LogNames /\ MaxBackups \in Nat
      BY <2>2, ServerLifeAssumption DEF Full
    <3> DEFINE m(k) == [l EXCEPT !.fp = NoText, !.files[name] = Rotated(@, k),
                                 !.torn[name] = IF k \in 1..MaxBackups - 1 THEN @ + 1 ELSE @]
               a == [l EXCEPT !.files[name] = Rotated(@, 0)]
    <3>2. \A k \in 0..MaxBackups : IsLog(m(k))
      BY <2>2, RotatedLog, Zenon
    <3>3. s = Opened(a, name) \/ \E k \in 0..MaxBackups : s = m(k)
      BY <1>1, <2>2, Zenon DEF check_and_rotate_log
    <3>4. CASE s = Opened(a, name)
      <4>1. Opened(a, name) = Opened(m(0), name)
        <5> DEFINE F == [l.files EXCEPT ![name] = Rotated(l.files[name], 0)]
                   T == [l.torn EXCEPT ![name] = IF 0 \in 1..MaxBackups - 1 THEN l.torn[name] + 1 ELSE l.torn[name]]
        <5>1. l = [fp |-> l.fp, files |-> l.files, written |-> l.written, torn |-> l.torn]
          BY <3>1, FieldsOfLog
        <5>2. T = l.torn
          <6>1. T = [l.torn EXCEPT ![name] = l.torn[name]]
            OBVIOUS
          <6> QED BY <3>1, <6>1, FieldsOfLog
        <5>3. a = [l EXCEPT !.files = F] /\ m(0) = [l EXCEPT !.fp = NoText, !.files = F, !.torn = T]
          BY Zenon
        <5> HIDE DEF F, T, a, m
        <5>4. /\ a = [fp |-> a.fp, files |-> a.files, written |-> a.written, torn |-> a.torn]
              /\ a.files = F /\ a.written = l.written /\ a.torn = l.torn
          BY <5>1, <5>3
        <5> DEFINE b == m(0)
        <5>5. /\ b = [fp |-> b.fp, files |-> b.files, written |-> b.written, torn |-> b.torn]
              /\ b.files = F /\ b.written = l.written /\ b.torn = l.torn
          BY <5>1, <5>2, <5>3
        <5> HIDE DEF b
        <5> DEFINE G == [F EXCEPT ![name] = [i \in DOMAIN F[name] \cup {0} |->
                                                IF i \in DOMAIN F[name] THEN F[name][i] ELSE <<>>]]
        <5>6. Opened(a, name) = [fp |-> name, files |-> G, written |-> l.written, torn |-> l.torn]
          <6>1. Opened(a, name) =
                  [fp |-> name,
                   files |-> [a.files EXCEPT ![name] =
                                [i \in DOMAIN a.files[name] \cup {0} |->
                                    IF i \in DOMAIN a.files[name] THEN a.files[name][i] ELSE <<>>]],
                   written |-> a.written, torn |-> a.torn]
            <7>1. a = [fp |-> a.fp, files |-> a.files, written |-> a.written, torn |-> a.torn]
              BY <5>4
            <7> QED BY <7>1, OpenedFields
          <6> QED BY <5>4, <6>1, Zenon
        <5>7. Opened(b, name) = [fp |-> name, files |-> G, written |-> l.written, torn |-> l.torn]
          <6>1. Opened(b, name) =
                  [fp |-> name,
                   files |-> [b.files EXCEPT ![name] =
                                [i \in DOMAIN b.files[name] \cup {0} |->
                                    IF i \in DOMAIN b.files[name] THEN b.files[name][i] ELSE <<>>]],
                   written |-> b.written, torn |-> b.torn]
            <7>1. b = [fp |-> b.fp, files |-> b.files, written |-> b.written, torn |-> b.torn]
              BY <5>5
            <7> QED BY <7>1, OpenedFields
          <6> QED BY <5>5, <6>1, Zenon
        <5> HIDE DEF G
        <5> QED BY <5>6, <5>7, Zenon DEF b
      <4>2. IsLog(m(0))
        <5>1. 0 \in 0..MaxBackups
          BY <3>1
        <5> HIDE DEF m
        <5> QED BY <3>2, <5>1
      <4> HIDE DEF m, a
      <4> QED BY <3>1, <3>4, <4>1, <4>2, OpenedLog
    <3>5. CASE \E k \in 0..MaxBackups : s = m(k)
      BY <3>2, <3>5, Zenon
    <3> QED BY <3>3, <3>4, <3>5, Zenon
  <2> QED BY <2>1, <2>2
<1>2. PICK s \in check_and_rotate_log(l, name) : r = Line(s)
  BY DEF ya_logger_log
<1>3. IsLog(s)
  BY <1>1
<1>4. CASE s.fp = NoText
  BY <1>2, <1>3, <1>4 DEF Line
<1>5. CASE s.fp # NoText
  <2> DEFINE line == NumberOfLines(s) + 1
             n == s.fp
             f == [s.files[n] EXCEPT ![0] = Append(@, line)]
             F == [s.files EXCEPT ![n] = f]
             W == [s.written EXCEPT ![n] = Append(s.written[n], line)]
  <2>1. r = [s EXCEPT !.files = F, !.written = W]
    BY <1>2, <1>5, Zenon DEF Line
  <2>2. n \in LogNames
    BY <1>3, <1>5 DEF IsLog
  <2> HIDE DEF line
  <2>3. 0 \in DOMAIN s.files[n] /\ Ordered(s.files[n], s.written[n], s.torn[n]) /\ s.torn[n] \in Nat
    BY <1>3, <1>5, <2>2, FieldsOfLog
  <2>4. Ordered(f, Append(s.written[n], line), s.torn[n]) /\ 0 \in DOMAIN f
    BY <2>3, LineOrdered
  <2> HIDE DEF f
  <2>5. IsLog([fp |-> n, files |-> F, written |-> W, torn |-> [s.torn EXCEPT ![n] = s.torn[n]]])
    BY <1>3, <2>2, <2>3, <2>4, ChangedLog
  <2> HIDE DEF F, W
  <2> HIDE DEF n
  <2>6. /\ s = [fp |-> s.fp, files |-> s.files, written |-> s.written, torn |-> s.torn]
        /\ s.torn = [s.torn EXCEPT ![n] = s.torn[n]]
    BY <1>3, <2>2, FieldsOfLog, Zenon
  <2>7. r = [fp |-> s.fp, files |-> F, written |-> W, torn |-> s.torn]
    <3>1. s = [fp |-> s.fp, files |-> s.files, written |-> s.written, torn |-> s.torn]
      BY <2>6
    <3> QED BY <2>1, <3>1
  <2> QED BY <2>5, <2>6, <2>7, Zenon DEF n
<1> QED BY <1>4, <1>5

---------------------------------------------------------------------------
(* The steps. *)

LEMMA EmptyConfig == ya_config_init \in Config /\ Len(ya_config_init.entries) = 0
<1>1. <<>> \in Seq(FitEntry) /\ Len(<<>>) = 0
  BY EmptySeq
<1> QED BY <1>1 DEF ya_config_init, Config

LEMMA NoAddress == NoText \notin Addresses
BY ServerLifeAssumption DEF NoText

LEMMA LivingInit == Init => Living
<1> SUFFICES ASSUME Init PROVE Living
  OBVIOUS
<1> USE DEF Init
<1>1. Stored
  <2>1. disk \in Data
    BY ServerLifeAssumption
  <2>2. IsLog(log)
    <3>1. \A n \in LogNames : Ordered([i \in {} |-> <<>>], <<>>, 0)
      BY NothingOrdered
    <3> QED BY <3>1 DEF IsLog
  <2> QED BY <2>1, <2>2, EmptyConfig DEF Stored
<1>2. Started
  BY DEF Started
<1>3. Bound
  BY DEF Bound, Down
<1>4. LedThere
  BY DEF LedThere
<1>5. AddressesTold
  BY DEF AddressesTold
<1> QED BY <1>1, <1>2, <1>3, <1>4, <1>5 DEF Living

\* However the process ends.
LEMMA Death ==
    ASSUME Living, Dies, disk' \in Data, IsLog(log'), log'.fp = NoText, status' = None, found' = NoText
    PROVE  Living'
<1>1. Stored'
  <2>1. pointer' \in [Ports \cup {"log"} -> Nat] /\ \A p \in Ports \cup {"log"} : pointer'[p] = 0
    BY DEF Living, Stored, Dies
  <2>2. config' \in Config /\ Len(config'.entries) = 0
    BY EmptyConfig DEF Dies
  <2> QED BY <2>1, <2>2 DEF Stored
<1>2. Started'
  BY DEF Started, Dies
<1>3. Bound'
  BY DEF Bound, Dies, Down
<1>4. LedThere'
  BY DEF LedThere, Dies
<1>5. AddressesTold'
  BY DEF AddressesTold
<1> QED BY <1>1, <1>2, <1>3, <1>4, <1>5 DEF Living

\* A step that leaves the process and its configuration as they are.
LEMMA Aside ==
    ASSUME Living, UNCHANGED <<process, memory>>, disk' \in Data, IsLog(log'), ~ up => log'.fp = NoText,
           status' = None, found' = NoText
    PROVE  Living'
<1> USE DEF process, memory
<1>1. Stored'
  BY DEF Living, Stored
<1>2. Started'
  BY DEF Living, Started
<1>3. Bound'
  BY DEF Living, Bound
<1>4. LedThere'
  BY DEF Living, LedThere
<1>5. AddressesTold'
  BY DEF AddressesTold
<1> QED BY <1>1, <1>2, <1>3, <1>4, <1>5 DEF Living

LEMMA LogsKeeps ==
    ASSUME Living, Logs
    PROVE  Living'
<1>1. disk' \in Data /\ status' = None /\ found' = NoText /\ up
  BY DEF Living, Stored, Logs, files, Answers
<1>2. IsLog(log')
  BY LoggedLog DEF Living, Stored, Logs
<1>3. CASE log'.fp = NoText
  <2>1. Dies
    BY <1>3 DEF Logs
  <2> QED BY <1>1, <1>2, <1>3, <2>1, Death
<1>4. CASE log'.fp # NoText
  <2>1. UNCHANGED <<process, memory>>
    BY <1>4 DEF Logs
  <2> QED BY <1>1, <1>2, <2>1, Aside
<1> QED BY <1>3, <1>4

LEMMA MainKeeps ==
    ASSUME Living, main
    PROVE  Living'
<1> DEFINE c == ya_config_parse(disk)
           wanted == [p \in Ports |-> ya_config_get(c, Section[p], Listener)]
           logger == ya_config_get(c, Logger, File)
           name == ValueAt(c, logger)
           begins(l) == /\ \A p \in Ports : ValueAt(c, wanted[p]) \in Addresses
                        /\ config' = c /\ freed' = Unmoved
                        /\ pointer' = [p \in DOMAIN pointer |-> IF p = "log" THEN logger ELSE wanted[p]]
                        /\ sock_addr' = [p \in Ports |-> ValueAt(c, wanted[p])]
                        /\ up' = TRUE /\ state' = "INIT"
                        /\ log' = l
           ends(l) == /\ log' = [l EXCEPT !.fp = NoText]
                      /\ UNCHANGED <<up, state, memory, sock_addr>>
<1>1. /\ ~ up /\ UNCHANGED <<files, ready, thread, listens>> /\ status' = None /\ found' = NoText
      /\ name \in LogNames \cup {NoText}
      /\ \E l \in init_logger(name) : begins(l) \/ ends(l)
  BY Zenon DEF main, Answers
<1>2. disk \in Data /\ IsLog(log) /\ pointer \in [Ports \cup {"log"} -> Nat]
  BY DEF Living, Stored
<1>3. c \in Config
  BY <1>2, ParsedConfig
<1> HIDE DEF c
<1>4. \A p \in Ports : wanted[p] \in 0..Len(c.entries) /\ wanted[p] = ya_config_get(c, Section[p], Listener)
  BY <1>3, GetFinds
<1>5. logger \in 0..Len(c.entries)
  BY <1>3, GetFinds
<1> HIDE DEF wanted, logger, name, begins, ends
<1>6. PICK l \in init_logger(name) : begins(l) \/ ends(l)
  BY <1>1
<1>7. IsLog(l)
  <2>1. CASE name = NoText
    BY <1>2, <1>6, <2>1 DEF init_logger
  <2>2. CASE name # NoText
    <3>1. name \in LogNames /\ l \in ya_logger_log(Opened(log, name), name)
      BY <1>1, <1>6, <2>2 DEF init_logger
    <3>2. IsLog(Opened(log, name))
      BY <1>2, <3>1, OpenedLog
    <3> QED BY <3>1, <3>2, LoggedLog
  <2> QED BY <2>1, <2>2
<1>8. disk' \in Data
  BY <1>1, <1>2 DEF files
<1>9. CASE begins(l)
  <2> USE <1>9 DEF begins
  <2>0. state = "STOPPED" /\ ready = {} /\ thread = "none" /\ listens = Down
    BY <1>1 DEF Living, Started
  <2>1. Stored'
    <3>1. \A p \in Ports \cup {"log"} : pointer'[p] \in 0..Len(c.entries)
      BY <1>2, <1>4, <1>5 DEF Ports
    <3>2. \A x \in 0..Len(c.entries) : x \in Nat /\ x <= Len(c.entries)
      <4>1. Len(c.entries) \in Nat
        BY <1>3, ConfigType
      <4> QED BY <4>1
    <3>3. pointer' = [p \in Ports \cup {"log"} |-> pointer'[p]]
      BY <1>2
    <3>4. pointer' \in [Ports \cup {"log"} -> Nat]
      BY <3>1, <3>2, <3>3, Zenon
    <3>5. \A p \in Ports \cup {"log"} : pointer'[p] <= Len(c.entries)
      BY <3>1, <3>2, Zenon
    <3> QED BY <1>3, <1>7, <1>8, <3>4, <3>5 DEF Stored
  <2>2. Started'
    BY <1>1, <2>0 DEF Started, Living, Components
  <2>3. Bound'
    BY <1>1, <2>0 DEF Bound, Living, Down
  <2>4. LedThere'
    <3>1. ASSUME NEW p \in Ports
          PROVE  wanted[p] # 0 /\ pointer'[p] = wanted[p]
      <4>1. wanted[p] # 0
        BY NoAddress DEF ValueAt
      <4>2. p \in DOMAIN pointer /\ p # "log"
        BY <1>2 DEF Ports
      <4> QED BY <4>1, <4>2
    <3> QED BY <1>4, <3>1 DEF LedThere
  <2>5. AddressesTold'
    BY <1>1 DEF AddressesTold
  <2> QED BY <2>1, <2>2, <2>3, <2>4, <2>5 DEF Living
<1>10. CASE ends(l)
  <2>1. IsLog(log') /\ log'.fp = NoText
    BY <1>7, <1>10, ClosedLog DEF ends
  <2>2. UNCHANGED <<process, memory>>
    BY <1>1, <1>10 DEF ends, process
  <2> QED BY <1>1, <1>8, <2>1, <2>2, Aside
<1> QED BY <1>6, <1>9, <1>10

LEMMA GivesUpKeeps ==
    ASSUME Living, GivesUp, status' = None, found' = NoText
    PROVE  Living'
<1>1. Dies /\ disk' \in Data
  BY DEF GivesUp, files, Living, Stored
<1>2. IsLog(log') /\ log'.fp = NoText
  BY ClosedLog DEF GivesUp, ya_logger_destroy, Living, Stored
<1> QED BY <1>1, <1>2, Death

\* The session and the HTTP interface bind their own port, the others perhaps one or none.
BindsFor(component) ==
    \/ UNCHANGED listens /\ component \in {"command", "discovery"}
    \/ \E p \in Ports : Binds(p) /\ (component \in {"session", "http"} => p = component)

\* And only discovery has a thread, started when the session is bound.
ThreadFor(component) == thread' = thread \/ (component = "discovery" /\ "session" \in ready)

\* A component has started.
LEMMA ReadyKeeps ==
    ASSUME Living, up, state = "INIT", UNCHANGED <<files, up, sock_addr, memory, log>>,
           status' = None, found' = NoText,
           NEW component \in Components, ya_server_set_component_ready(component),
           ThreadFor(component),
           BindsFor(component)
    PROVE  Living'
<1>1. state' \in {"INIT", "RUNNING"} /\ (state' = "RUNNING" => ready' = Components)
      /\ ready' = ready \cup {component}
  BY DEF ya_server_set_component_ready, ya_server_all_components_ready
<1>2. Stored'
  BY DEF Living, Stored, files, memory
<1>3. Started'
  BY <1>1 DEF Living, Started, files, memory
<1>4. Bound'
  <2>1. /\ sock_addr \in [Ports -> Addresses \cup {NoText}] /\ sock_addr' = sock_addr
        /\ listens \in [Ports -> Addresses \cup {NoText}]
        /\ \A p \in Ports : sock_addr[p] \in Addresses
        /\ \A p \in {"session", "http"} \cap ready : listens[p] = sock_addr[p]
        /\ thread # "none" => listens["session"] = sock_addr["session"]
    BY DEF Living, Bound
  <2>2. CASE UNCHANGED listens /\ component \in {"command", "discovery"}
    BY <1>1, <2>1, <2>2 DEF Bound, ThreadFor
  <2>3. CASE \E p \in Ports : Binds(p) /\ (component \in {"session", "http"} => p = component)
    <3>1. PICK p \in Ports : Binds(p) /\ (component \in {"session", "http"} => p = component)
      BY <2>3
    <3>2. \A q \in Ports : listens'[q] = IF q = p THEN sock_addr[p] ELSE listens[q]
      BY <2>1, <3>1 DEF Binds
    <3>3. listens' \in [Ports -> Addresses \cup {NoText}]
      BY <2>1, <3>1 DEF Binds
    <3>4. \A q \in {"session", "http"} \cap ready' : listens'[q] = sock_addr[q]
      BY <1>1, <2>1, <3>1, <3>2 DEF Ports
    <3>5. thread' # "none" => listens'["session"] = sock_addr["session"]
      BY <2>1, <3>1, <3>2 DEF Ports, ThreadFor
    <3> QED BY <2>1, <3>3, <3>4, <3>5 DEF Bound
  <2> QED BY <2>2, <2>3 DEF BindsFor
<1>5. LedThere'
  BY DEF Living, LedThere, memory
<1>6. AddressesTold'
  BY DEF AddressesTold
<1> QED BY <1>2, <1>3, <1>4, <1>5, <1>6 DEF Living

LEMMA StartKeeps ==
    ASSUME Living, start_server
    PROVE  Living'
<1>1. CASE run_session_server
  <2>1. up /\ state = "INIT" /\ status' = None /\ found' = NoText
    BY <1>1 DEF run_session_server, Starts, Answers
  <2>2. CASE GivesUp
    BY <2>1, <2>2, GivesUpKeeps
  <2>3. CASE ~ GivesUp
    <3>1. UNCHANGED <<files, up, thread, sock_addr, memory, log>>
          /\ ya_server_set_component_ready("session") /\ Binds("session")
      BY <1>1, <2>3 DEF run_session_server
    <3>2. "session" \in Components /\ "session" \in Ports
      BY DEF Components, Ports
    <3>3. BindsFor("session")
      BY <3>1, <3>2 DEF BindsFor
    <3>4. UNCHANGED <<files, up, sock_addr, memory, log>> /\ ThreadFor("session")
      BY <3>1 DEF ThreadFor
    <3> QED BY <2>1, <3>1, <3>2, <3>3, <3>4, ReadyKeeps
  <2> QED BY <2>2, <2>3
<1>2. CASE run_command_server
  <2>1. up /\ state = "INIT" /\ status' = None /\ found' = NoText
    BY <1>2 DEF run_command_server, Starts, Answers
  <2>2. UNCHANGED <<files, up, thread, sock_addr, memory, log>>
        /\ ya_server_set_component_ready("command") /\ (Binds("command") \/ UNCHANGED listens)
    BY <1>2 DEF run_command_server
  <2>3. "command" \in Components /\ "command" \in Ports
    BY DEF Components, Ports
  <2>4. BindsFor("command")
    BY <2>2, <2>3 DEF BindsFor
  <2>5. UNCHANGED <<files, up, sock_addr, memory, log>> /\ ThreadFor("command")
    BY <2>2 DEF ThreadFor
  <2> QED BY <2>1, <2>2, <2>3, <2>4, <2>5, ReadyKeeps
<1>3. CASE run_discovery_server
  <2>1. up /\ state = "INIT" /\ status' = None /\ found' = NoText /\ "session" \in ready
    BY <1>3 DEF run_discovery_server, Starts, Answers
  <2>2. UNCHANGED <<files, up, sock_addr, listens, memory, log>>
        /\ ya_server_set_component_ready("discovery")
    BY <1>3 DEF run_discovery_server
  <2>3. "discovery" \in Components
    BY DEF Components
  <2>4. BindsFor("discovery")
    BY <2>2 DEF BindsFor
  <2>5. ThreadFor("discovery")
    BY <2>1 DEF ThreadFor
  <2> QED BY <2>1, <2>2, <2>3, <2>4, <2>5, ReadyKeeps
<1>4. CASE run_http_server
  <2>1. up /\ state = "INIT" /\ status' = None /\ found' = NoText
    BY <1>4 DEF run_http_server, Starts, Answers
  <2>2. CASE GivesUp
    BY <2>1, <2>2, GivesUpKeeps
  <2>3. CASE ~ GivesUp
    <3>1. UNCHANGED <<files, up, thread, sock_addr, memory, log>>
          /\ ya_server_set_component_ready("http") /\ Binds("http")
      BY <1>4, <2>3 DEF run_http_server
    <3>2. "http" \in Components /\ "http" \in Ports
      BY DEF Components, Ports
    <3>3. BindsFor("http")
      BY <3>1, <3>2 DEF BindsFor
    <3>4. UNCHANGED <<files, up, sock_addr, memory, log>> /\ ThreadFor("http")
      BY <3>1 DEF ThreadFor
    <3> QED BY <2>1, <3>1, <3>2, <3>3, <3>4, ReadyKeeps
  <2> QED BY <2>2, <2>3
<1> QED BY <1>1, <1>2, <1>3, <1>4 DEF start_server

LEMMA EndKeeps ==
    ASSUME Living, signal_cb \/ stop \/ Exits \/ Killed
    PROVE  Living'
<1>1. IsLog(log) /\ disk \in Data
  BY DEF Living, Stored
<1>2. CASE signal_cb
  <2>1. /\ state = "RUNNING" /\ disk' = disk /\ status' = None /\ found' = NoText
        /\ \E name \in Pointed("log") : log' \in ya_logger_log(log, name)
    BY <1>2 DEF signal_cb, files, Answers
  <2>2. IsLog(log')
    BY <1>1, <2>1, LoggedLog
  <2>3. CASE log.fp # NoText /\ log'.fp = NoText
    <3>1. Dies
      BY <1>2, <2>3, Zenon DEF signal_cb
    <3> QED BY <1>1, <2>1, <2>2, <2>3, <3>1, Death
  <2>4. CASE ~ (log.fp # NoText /\ log'.fp = NoText)
    <3>1. state' = "STOPPING" /\ UNCHANGED <<up, ready, thread, sock_addr, listens, memory>>
      BY <1>2, <2>4 DEF signal_cb
    <3>2. Stored'
      BY <2>1, <2>2, <3>1 DEF Living, Stored, memory
    <3>3. Started'
      BY <2>1, <3>1 DEF Living, Started
    <3>4. Bound'
      BY <2>1, <3>1 DEF Living, Bound
    <3>5. LedThere'
      BY <2>1, <3>1 DEF Living, LedThere, memory
    <3>6. AddressesTold'
      BY <2>1 DEF AddressesTold
    <3> QED BY <3>2, <3>3, <3>4, <3>5, <3>6 DEF Living
  <2> QED BY <2>3, <2>4
<1>3. CASE stop
  <2>1. /\ state = "STOPPING" /\ state' = "STOPPED" /\ status' = None /\ found' = NoText
        /\ listens' = [Down EXCEPT !["session"] = listens["session"]]
        /\ UNCHANGED <<files, up, ready, thread, sock_addr, memory, log>>
    BY <1>3 DEF stop, Answers
  <2>2. Stored'
    BY <2>1 DEF Living, Stored, memory, files
  <2>3. Started'
    BY <2>1 DEF Living, Started
  <2>4. Bound'
    BY <2>1 DEF Living, Bound, Down, Ports
  <2>5. LedThere'
    BY <2>1 DEF LedThere
  <2>6. AddressesTold'
    BY <2>1 DEF AddressesTold
  <2> QED BY <2>2, <2>3, <2>4, <2>5, <2>6 DEF Living
<1>4. CASE Exits \/ Killed
  <2>1. Dies /\ disk' = disk /\ status' = None /\ found' = NoText /\ log' = [log EXCEPT !.fp = NoText]
    BY <1>4, Zenon DEF Exits, Killed, ya_logger_destroy, files, Answers
  <2>2. IsLog(log') /\ log'.fp = NoText
    BY <1>1, <2>1, ClosedLog
  <2> QED BY <1>1, <2>1, <2>2, Death
<1> QED BY <1>2, <1>3, <1>4

LEMMA DiscoveryKeeps ==
    ASSUME Living, create_broadcast_server \/ run_loop
    PROVE  Living'
<1>1. CASE create_broadcast_server
  <2>1. /\ thread = "started" /\ status' = None /\ found' = NoText
        /\ UNCHANGED <<files, up, state, ready, sock_addr, listens, memory, log>>
    BY <1>1 DEF create_broadcast_server, Answers
  <2>2. Stored'
    BY <2>1 DEF Living, Stored, memory, files
  <2>3. Started'
    BY <2>1 DEF Living, Started
  <2>4. Bound'
    BY <2>1 DEF Living, Bound
  <2>5. LedThere'
    BY <2>1 DEF Living, LedThere, memory
  <2>6. AddressesTold'
    BY <2>1 DEF AddressesTold
  <2> QED BY <2>2, <2>3, <2>4, <2>5, <2>6 DEF Living
<1>2. CASE run_loop
  <2>1. /\ thread = "listening" /\ status' = None /\ found' = sock_addr["session"]
        /\ UNCHANGED <<files, process, memory, log>>
    BY <1>2 DEF run_loop, Told
  <2>2. Stored'
    BY <2>1 DEF Living, Stored, memory, files
  <2>3. Started'
    BY <2>1 DEF Living, Started, process
  <2>4. Bound'
    BY <2>1 DEF Living, Bound, process
  <2>5. LedThere'
    BY <2>1 DEF Living, LedThere, memory, process
  <2>6. AddressesTold'
    BY <2>1 DEF AddressesTold, Living, Bound, process
  <2> QED BY <2>2, <2>3, <2>4, <2>5, <2>6 DEF Living
<1> QED BY <1>1, <1>2

LEMMA PostKeeps ==
    ASSUME Living, NEW post \in Posts, handle_post_config(post)
    PROVE  Living'
<1> DEFINE p == Posted(config, post.body)
           text == ya_config_save(p.config)
           kept == /\ config' = p.config /\ freed' \in realloc(p.left)
                   /\ UNCHANGED <<process, pointer, log>>
           killed == /\ \E n \in 0..Len(text) \div BlockSize : disk' = SubSeq(text, 1, n * BlockSize)
                     /\ Dies /\ log' = [log EXCEPT !.fp = NoText]
<1>1. /\ state = "RUNNING" /\ status' = None /\ found' = NoText
      /\ \/ kept /\ disk' \in {disk, text}
         \/ killed
  <2>1. (kept /\ disk' \in {disk, text}) \/ killed
    BY Zenon DEF handle_post_config, files
  <2>2. status' = None /\ found' = NoText
    BY Zenon DEF handle_post_config, Answers
  <2> QED BY <2>1, <2>2 DEF handle_post_config, Serves
<1>2. config \in Config /\ IsLog(log) /\ disk \in Data /\ post.body \in Data
  BY ServerLifeAssumption DEF Living, Stored
<1>3. p.config \in Config /\ Extends(config, p.config)
  BY <1>2, PostedKeeps
<1> HIDE DEF p
<1>4. text \in Data
  BY <1>3, SavedText
<1> HIDE DEF text
<1>5. CASE kept /\ disk' \in {disk, text}
  <2>1. config' = p.config /\ freed' \in realloc(p.left) /\ UNCHANGED <<process, pointer, log>>
    BY <1>5
  <2>2. Stored'
    <3>1. Len(config.entries) <= Len(p.config.entries) /\ Len(config.entries) \in Nat
          /\ Len(p.config.entries) \in Nat
      BY <1>2, <1>3, ConfigType DEF Extends
    <3>2. pointer \in [Ports \cup {"log"} -> Nat]
          /\ \A q \in Ports \cup {"log"} : pointer[q] <= Len(config.entries)
      BY DEF Living, Stored
    <3>3. \A q \in Ports \cup {"log"} : pointer[q] <= Len(p.config.entries)
      BY <3>1, <3>2
    <3> QED BY <1>2, <1>3, <1>4, <1>5, <2>1, <3>2, <3>3 DEF Stored
  <2>3. Started'
    BY <2>1 DEF Living, Started, process
  <2>4. Bound'
    BY <2>1 DEF Living, Bound, process
  <2>5. LedThere'
    <3>1. freed' = Unmoved => freed = Unmoved
      BY <2>1 DEF realloc
    <3>2. ASSUME freed = Unmoved, NEW q \in Ports
          PROVE  pointer[q] # 0 /\ pointer[q] = ya_config_get(p.config, Section[q], Listener)
      <4>1. pointer[q] # 0 /\ pointer[q] = ya_config_get(config, Section[q], Listener)
        BY <1>1, <3>2 DEF Living, LedThere
      <4>2. ya_config_get(p.config, Section[q], Listener) = ya_config_get(config, Section[q], Listener)
        BY <1>2, <1>3, <4>1, GetKept
      <4> QED BY <4>1, <4>2
    <3> QED BY <2>1, <3>1, <3>2 DEF LedThere
  <2>6. AddressesTold'
    BY <1>1 DEF AddressesTold
  <2> QED BY <2>2, <2>3, <2>4, <2>5, <2>6 DEF Living
<1>6. CASE killed
  <2>1. PICK n \in 0..Len(text) \div BlockSize : disk' = SubSeq(text, 1, n * BlockSize)
    BY <1>6
  <2>2. Dies /\ log' = [log EXCEPT !.fp = NoText]
    BY <1>6
  <2>3. n * BlockSize \in Int /\ n * BlockSize <= Len(text)
    <3>1. Len(text) \in Nat /\ BlockSize \in Nat \ {0}
      BY <1>4, PlacesIn, ServerLifeAssumption
    <3> DEFINE l == Len(text)
    <3> HIDE DEF l
    <3>2. ASSUME NEW a \in Nat, NEW b \in Nat \ {0}, NEW m \in 0..(a \div b)
          PROVE  m * b \in Int /\ m * b <= a
      <4>1. (a \div b) \in Nat /\ (a \div b) * b <= a /\ m \in Nat /\ m <= a \div b
        OBVIOUS
      <4>2. ASSUME NEW q \in Nat, m <= q PROVE m * b <= q * b
        BY <4>2
      <4>3. m * b \in Nat /\ (a \div b) * b \in Nat
        BY <4>1
      <4> QED BY <4>1, <4>2, <4>3
    <3> QED BY <3>1, <3>2
  <2>4. disk' \in Data
    <3> DEFINE k == n * BlockSize
    <3> HIDE DEF k
    <3>1. SubSeq(text, 1, k) \in Data
      BY <1>4, <2>3, PartOfText DEF k
    <3> QED BY <2>1, <3>1 DEF k
  <2>5. IsLog(log') /\ log'.fp = NoText
    BY <1>2, <2>2, ClosedLog
  <2> QED BY <1>1, <2>2, <2>4, <2>5, Death
<1> QED BY <1>1, <1>5, <1>6

\* A request for the status: as long as the array has not moved, the pointers lead to
\* the entries a lookup finds.
LEMMA StatusKeeps ==
    ASSUME Living, handle_status
    PROVE  Living'
<1>1. PICK at \in Reported :
         Answers(None, [state |-> state, listeners |-> at,
                        log_path |-> ValueAt(config, ya_config_get(config, Logger, File))])
  BY DEF handle_status
<1>2. UNCHANGED <<files, process, memory, log>> /\ state = "RUNNING"
  BY DEF handle_status, Serves
<1>3. status'.listeners = at /\ found' = NoText
  BY <1>1 DEF Answers
<1>4. Stored' /\ Started'
  BY <1>2 DEF Living, Stored, Started, memory, files, process
<1>5. Bound'
  BY <1>2 DEF Living, Bound, process
<1>6. LedThere'
  BY <1>2 DEF Living, LedThere, memory, process
<1>7. ASSUME freed' = Unmoved, NEW p \in Ports
      PROVE  status'.listeners[p] = ValueAt(config', ya_config_get(config', Section[p], Listener))
  <2>1. config' = config /\ freed = Unmoved
    BY <1>2, <1>7 DEF memory
  <2>2. pointer[p] # 0 /\ pointer[p] = ya_config_get(config, Section[p], Listener)
    BY <1>2, <2>1 DEF Living, LedThere
  <2>3. at[p] \in Pointed(p)
    <3>1. at[p] \in Shown(p)
      BY <1>1 DEF Reported, Ports
    <3> QED BY <2>2, <3>1 DEF Shown
  <2>4. Pointed(p) = {config.entries[pointer[p]].value}
    BY <2>1, <2>2 DEF Pointed
  <2> QED BY <1>3, <2>1, <2>2, <2>3, <2>4 DEF ValueAt
<1>8. AddressesTold'
  BY <1>3, <1>7 DEF AddressesTold
<1> QED BY <1>4, <1>5, <1>6, <1>8 DEF Living

LEMMA RequestKeeps ==
    ASSUME Living, NEW path, NEW method, process_request(path, method)
    PROVE  Living'
<1>1. CASE \E post \in Posts : handle_post_config(post)
  BY <1>1, PostKeeps
<1>2. CASE handle_status
  BY <1>2, StatusKeeps
<1>3. CASE handle_get_config \/ handle_command
  <2>1. UNCHANGED <<files, process, memory, log>> /\ status' = None /\ found' = NoText
    BY <1>3 DEF handle_get_config, handle_command, Answers
  <2>2. disk' \in Data /\ IsLog(log') /\ (~ up => log'.fp = NoText)
    BY <2>1 DEF Living, Stored, Started, files
  <2> QED BY <2>1, <2>2, Aside
<1> QED BY <1>1, <1>2, <1>3 DEF process_request

LEMMA SaveKeeps ==
    ASSUME Living, NEW text \in Edits, _saveConfig(text)
    PROVE  Living'
<1>1. /\ disk' = text /\ status' = None /\ found' = NoText
      /\ \/ Dies /\ log' = [log EXCEPT !.fp = NoText]
         \/ UNCHANGED <<process, memory, log>>
  BY DEF _saveConfig, Answers
<1>2. disk' \in Data /\ IsLog(log)
  BY <1>1, ServerLifeAssumption DEF Living, Stored
<1>3. CASE Dies /\ log' = [log EXCEPT !.fp = NoText]
  <2>1. IsLog(log') /\ log'.fp = NoText
    BY <1>2, <1>3, ClosedLog
  <2> QED BY <1>1, <1>2, <1>3, <2>1, Death
<1>4. CASE UNCHANGED <<process, memory, log>>
  <2>1. ~ up => log'.fp = NoText
    BY <1>4 DEF Living, Started
  <2> QED BY <1>1, <1>2, <1>4, <2>1, Aside
<1> QED BY <1>1, <1>3, <1>4

LEMMA LivingNext ==
    ASSUME Living, [Next]_vars
    PROVE  Living'
<1>1. CASE UNCHANGED vars
  <2>1. Stored' /\ Started'
    BY <1>1 DEF Living, Stored, Started, vars, memory, files, process
  <2>2. Bound' /\ LedThere'
    BY <1>1 DEF Living, Bound, LedThere, vars, memory, process
  <2>3. AddressesTold'
    BY <1>1 DEF Living, AddressesTold, vars, memory, process
  <2> QED BY <2>1, <2>2, <2>3 DEF Living
<1>2. CASE Next
  BY <1>2, MainKeeps, StartKeeps, EndKeeps, LogsKeeps, DiscoveryKeeps, RequestKeeps, SaveKeeps DEF Next
<1> QED BY <1>1, <1>2

LEMMA Inductive == Spec => []Living
BY LivingInit, LivingNext, PTL DEF Spec

---------------------------------------------------------------------------
(* What the file holds of the last configuration that was saved. *)

\* The file is what ya_config_save made of a configuration, or the beginning of it.
FileSaved ==
    saved # None =>
        \E c \in Config : \E m \in 0..Len(ya_config_save(c)) :
            /\ c.entries = saved.entries /\ disk = SubSeq(ya_config_save(c), 1, m)
            /\ saved.whole => disk = ya_config_save(c)

\* Only a request and the editor write the file.
LEMMA FilesKept ==
    ASSUME Next
    PROVE  \/ UNCHANGED files
           \/ \E post \in Posts : handle_post_config(post)
           \/ \E text \in Edits : _saveConfig(text)
<1>1. CASE main \/ start_server
  BY <1>1 DEF main, start_server, run_session_server, run_command_server, run_discovery_server,
              run_http_server, GivesUp
<1>2. CASE signal_cb \/ stop \/ Exits \/ Killed \/ Logs
  BY <1>2 DEF signal_cb, stop, Exits, Killed, Logs
<1>3. CASE create_broadcast_server \/ run_loop
  BY <1>3 DEF create_broadcast_server, run_loop
<1>4. CASE \E path \in DOMAIN Handler, method \in {"GET", "POST"} : process_request(path, method)
  BY <1>4 DEF process_request, handle_get_config, handle_status, handle_command
<1>5. CASE \E text \in Edits : _saveConfig(text)
  BY <1>5
<1> QED BY <1>1, <1>2, <1>3, <1>4, <1>5 DEF Next

\* As many whole blocks as were written are no more than the text.
LEMMA BlocksFit ==
    ASSUME NEW a \in Nat, NEW b \in Nat \ {0}, NEW n \in 0..(a \div b)
    PROVE  n * b \in 0..a
<1>1. (a \div b) \in Nat /\ (a \div b) * b <= a /\ n \in Nat /\ n <= a \div b
  OBVIOUS
<1>2. ASSUME NEW q \in Nat, n <= q PROVE n * b <= q * b
  BY <1>2
<1>3. n * b \in Nat /\ (a \div b) * b \in Nat
  BY <1>1
<1> QED BY <1>1, <1>2, <1>3

LEMMA FileSavedPost ==
    ASSUME Living, FileSaved, NEW post \in Posts, handle_post_config(post)
    PROVE  FileSaved'
<1> DEFINE p == Posted(config, post.body)
           text == ya_config_save(p.config)
           whole == disk' = text /\ saved' = [entries |-> p.config.entries, whole |-> TRUE]
           part == /\ \E n \in 0..Len(text) \div BlockSize : disk' = SubSeq(text, 1, n * BlockSize)
                   /\ saved' = [entries |-> p.config.entries, whole |-> FALSE]
<1>1. UNCHANGED files \/ whole \/ part
  BY Zenon DEF handle_post_config
<1>2. config \in Config /\ post.body \in Data
  BY ServerLifeAssumption DEF Living, Stored
<1>3. p.config \in Config
  BY <1>2, PostedKeeps
<1> HIDE DEF p
<1>4. text \in Data
  BY <1>3, SavedText
<1> DEFINE entries == p.config.entries
<1> HIDE DEF entries
<1>5. Len(text) \in Nat /\ Len(text) \in 0..Len(text)
  BY <1>4, Bytes
<1>6. CASE UNCHANGED files
  BY <1>6 DEF FileSaved, files
<1>7. ASSUME NEW m \in 0..Len(text), disk' = SubSeq(text, 1, m), NEW b \in BOOLEAN, b => disk' = text,
             saved' = [entries |-> entries, whole |-> b]
      PROVE  FileSaved'
  <2>1. saved'.entries = entries /\ saved'.whole = b
    BY <1>7
  <2>2. entries = p.config.entries
    BY DEF entries
  <2>3. /\ p.config.entries = saved'.entries /\ disk' = SubSeq(ya_config_save(p.config), 1, m)
        /\ saved'.whole => disk' = ya_config_save(p.config)
    BY <1>7, <2>1, <2>2
  <2> QED BY <1>3, <1>7, <2>3, Zenon DEF FileSaved
<1>8. CASE whole
  <2>1. disk' = SubSeq(text, 1, Len(text))
    BY <1>4, <1>8, WholePart
  <2>2. disk' = text /\ saved' = [entries |-> entries, whole |-> TRUE]
    BY <1>8 DEF entries
  <2> HIDE DEF text
  <2> QED BY <1>5, <1>7, <2>1, <2>2, Zenon
<1>9. CASE part
  <2>1. PICK n \in 0..Len(text) \div BlockSize : disk' = SubSeq(text, 1, n * BlockSize)
    BY <1>9, Zenon
  <2>2. n * BlockSize \in 0..Len(text)
    <3> DEFINE l == Len(text)
    <3> HIDE DEF l
    <3>1. l \in Nat /\ n \in 0..(l \div BlockSize)
      BY <1>5 DEF l
    <3>2. n * BlockSize \in 0..l
      BY <3>1, BlocksFit, ServerLifeAssumption
    <3> QED BY <3>2 DEF l
  <2>3. saved' = [entries |-> entries, whole |-> FALSE]
    BY <1>9 DEF entries
  <2> DEFINE m == n * BlockSize
  <2>4. m \in 0..Len(text) /\ disk' = SubSeq(text, 1, m)
    BY <2>1, <2>2
  <2> HIDE DEF m, text
  <2> QED BY <1>7, <2>3, <2>4
<1> QED BY <1>1, <1>6, <1>8, <1>9

LEMMA FileSavedNext ==
    ASSUME Living, FileSaved, [Next]_vars
    PROVE  FileSaved'
<1>1. CASE UNCHANGED files
  BY <1>1 DEF FileSaved, files
<1>2. CASE \E post \in Posts : handle_post_config(post)
  BY <1>2, FileSavedPost
<1>3. CASE \E text \in Edits : _saveConfig(text)
  <2>1. saved' = None
    BY <1>3 DEF _saveConfig
  <2> QED BY <2>1 DEF FileSaved
<1>4. CASE UNCHANGED vars
  BY <1>1, <1>4 DEF vars
<1> QED BY <1>1, <1>2, <1>3, <1>4, FilesKept

LEMMA FileIsSaved == Spec => []FileSaved
<1>1. Init => FileSaved
  BY DEF Init, FileSaved
<1> QED BY <1>1, FileSavedNext, Inductive, PTL DEF Spec

---------------------------------------------------------------------------
(* The theorems. *)

\* Whatever bytes server.conf holds, and whatever a request to /config is made of, no
\* array outgrows its allocation and no string its buffer (ya_config.c:60-175), and the
\* pointers taken at the start stay inside the array (ya_server.c).
THEOREM TypeCorrect == Spec => []TypeOK
<1>1. Living => TypeOK
  <2> SUFFICES ASSUME Living PROVE TypeOK
    OBVIOUS
  <2>1. disk \in Data /\ config \in Config /\ log.fp \in LogNames \cup {NoText}
    BY DEF Living, Stored, IsLog
  <2>2. ASSUME NEW i \in DOMAIN config.entries
        PROVE  config.entries[i] \in FitEntry
    BY <2>1, ConfigType
  <2>3. ASSUME NEW p \in DOMAIN pointer PROVE pointer[p] \in 0..Len(config.entries)
    <3>1. Len(config.entries) \in Nat
      BY <2>1, ConfigType
    <3>2. pointer[p] \in Nat /\ pointer[p] <= Len(config.entries)
      BY DEF Living, Stored
    <3> QED BY <3>1, <3>2
  <2>4. Len(config.entries) <= config.capacity
    BY <2>1, ConfigType
  <2> QED BY <2>1, <2>2, <2>3, <2>4 DEF TypeOK, FitEntry, Living, Started
<1> QED BY <1>1, Inductive, PTL

\* A server that says RUNNING has bound the session's port and its HTTP port, at the
\* addresses it read at its start (run.c, ya_server.c:start_server).
THEOREM RunningReachable == Spec => []RunningIsReachable
<1>1. Living => RunningIsReachable
  <2> SUFFICES ASSUME Living, state = "RUNNING", NEW p \in {"session", "http"}
               PROVE  listens[p] = sock_addr[p] /\ listens[p] # NoText
    BY DEF RunningIsReachable
  <2>1. p \in {"session", "http"} \cap ready /\ p \in Ports
    BY DEF Living, Started, Components, Ports
  <2>2. listens[p] = sock_addr[p] /\ sock_addr[p] \in Addresses
    BY <2>1 DEF Living, Bound
  <2> QED BY <2>2, NoAddress
<1> QED BY <1>1, Inductive, PTL

\* A search is answered with the port the session is bound to, and /status tells the
\* addresses of the live configuration until the array moves, whatever has been posted
\* (ya_server_discover.c:73-170, ya_server_http.c:213-260).
THEOREM AddressesAreTold == Spec => []AddressesTold
<1>1. Living => AddressesTold
  BY DEF Living
<1> QED BY <1>1, Inductive, PTL

\* However its name changed and wherever the process was killed in a rotation, a log's
\* files hold its newest lines without a gap, and at least as many as the backups are
\* for, less one backup for each rotation cut short (ya_logger.c:56).
THEOREM NewestKept == Spec => []LogKeepsNewest
<1>1. Living => LogKeepsNewest
  <2> SUFFICES ASSUME Living, NEW n \in LogNames
               PROVE  /\ IsSuffix(FlattenSeq(OldestFirst(log.files[n])), log.written[n])
                      /\ Len(FlattenSeq(OldestFirst(log.files[n]))) >=
                            Min({Len(log.written[n]), Max({1, MaxBackups - log.torn[n]}) * MaxSize})
    BY Zenon DEF LogKeepsNewest
  <2>1. Ordered(log.files[n], log.written[n], log.torn[n]) /\ log.torn[n] \in Nat
    BY FieldsOfLog DEF Living, Stored
  <2> QED BY <2>1, KeptNewest
<1> QED BY <1>1, Inductive, PTL

\* A file that ya_config_save wrote to its end is parsed into the entries it was written
\* from.  Wherever the writing stopped, the entries that are read are the first of them,
\* each under its section and key, and only the value of the last may be cut short: for
\* every configuration of entries without syntax characters that fit a line
\* (ya_config.c:84-170 and 224-253).
THEOREM SavedFileRead ==
    ASSUME NEW c \in Config, AllSurvive(c.entries)
    PROVE  /\ ya_config_parse(ya_config_save(c)).entries = c.entries
           /\ \A m \in 0..Len(ya_config_save(c)) :
                 ReadsAs(c.entries, ya_config_parse(SubSeq(ya_config_save(c), 1, m)).entries)
<1>1. KeptAll(c.entries)
  <2>1. ASSUME NEW i \in 1..Len(c.entries) PROVE Kept(c.entries[i])
    <3>1. i \in DOMAIN c.entries /\ c.entries[i] \in FitEntry
      BY ConfigType
    <3> QED BY <3>1 DEF AllSurvive, Kept
  <2> QED BY <2>1 DEF KeptAll
<1>2. \A text : ya_config_parse(text).entries = EntriesOf(text)
  BY DEF ya_config_parse, EntriesOf, ReadIn, Begun, Lines
<1> QED BY <1>1, <1>2, SavedReads

\* However often the configuration is changed by requests, and whichever write of
\* server.conf the process dies in, the next start reads what was saved or the first of
\* its entries, and no value under another section or key (ya_config.c:84-253,
\* ya_server_http.c).
THEOREM FileReadAsSaved == Spec => []FileAsSaved
<1>1. FileSaved => FileAsSaved
  <2> SUFFICES ASSUME FileSaved, saved # None, AllSurvive(saved.entries)
               PROVE  /\ saved.whole => ya_config_parse(disk).entries = saved.entries
                      /\ ReadsAs(saved.entries, ya_config_parse(disk).entries)
    BY Zenon DEF FileAsSaved, ReadsAs
  <2>1. PICK c \in Config : \E m \in 0..Len(ya_config_save(c)) :
            /\ c.entries = saved.entries /\ disk = SubSeq(ya_config_save(c), 1, m)
            /\ saved.whole => disk = ya_config_save(c)
    BY DEF FileSaved
  <2> QED BY <2>1, SavedFileRead
<1> QED BY <1>1, FileIsSaved, PTL

\* Whenever the file is what the server saved to its end, the desktop application's
\* parser finds in it a setting for each entry and nothing else, as the server's does,
\* provided that no key stands twice and the entries of a section stand together
\* (config_service.dart and ya_config.c:84-170 read one file).
THEOREM BothParsersAgree == Spec => []SameReading
<1>1. FileSaved => SameReading
  <2> SUFFICES ASSUME FileSaved, saved # None, saved.whole,
                      AllSurvive(saved.entries), UniqueKeys(saved.entries), Contiguous(saved.entries),
                      \A e \in ToSet(saved.entries) : e.section # <<>>
               PROVE  _parseConfigContent(disk) =
                          {Setting(e.section, e.key, e.value) : e \in ToSet(saved.entries)}
    BY Zenon DEF SameReading
  <2>1. PICK c \in Config : c.entries = saved.entries /\ disk = ya_config_save(c)
    BY Zenon DEF FileSaved
  <2> DEFINE entries == c.entries
             n == Len(entries)
  <2>2. entries \in Seq(FitEntry) /\ DOMAIN entries = 1..n /\ \A i \in 1..n : entries[i] \in FitEntry
    BY <2>1, ConfigType
  <2>3. /\ AllSurvive(entries) /\ UniqueKeys(entries) /\ Contiguous(entries)
        /\ \A e \in ToSet(entries) : e.section # <<>>
    BY <2>1
  <2> HIDE DEF entries, n
  <2>4. ToSet(entries) = {entries[i] : i \in 1..n}
    BY <2>2 DEF ToSet
  <2>5. BothRead(entries)
    <3>1. ASSUME NEW i \in 1..n PROVE Kept(entries[i]) /\ entries[i].section # <<>>
      <4>1. i \in DOMAIN entries /\ entries[i] \in FitEntry /\ entries[i] \in ToSet(entries)
        BY <2>2, <2>4
      <4> QED BY <2>3, <4>1 DEF AllSurvive, Kept
    <3> QED BY <2>3, <3>1 DEF BothRead, KeptAll, n
  <2>6. _parseConfigContent(disk) = SettingsTo(entries, n)
    BY <2>1, <2>5, DesktopReads DEF entries, n
  <2>7. SettingsTo(entries, n) = {Setting(e.section, e.key, e.value) : e \in ToSet(entries)}
    BY <2>4, Zenon DEF SettingsTo, SettingAt
  <2> QED BY <2>1, <2>6, <2>7 DEF entries
<1> QED BY <1>1, FileIsSaved, PTL
=============================================================================
