-------------------------- MODULE Framing_proofs --------------------------
(***************************************************************************)
(* The session's stream, the datagrams and the programs they make run,     *)
(* proved for all packages, all ways to encode them, all cuts of the       *)
(* stream and all machines: InStep, ParsedAsMeant, AnswersInStep,          *)
(* DatagramWhole, AdaptersTold and PowerOnce of Framing.                   *)
(*                                                                         *)
(* From the bottom: what the codec (MPack, EventCodec) reads from what a   *)
(* phone may write, in every width; the package at the head of a buffer    *)
(* (ParsePackage), which is found whole only when all of it has arrived    *)
(* (FrameFacts); the invariant InStep as the two callbacks' steps keep it  *)
(* (WriteKeeps, ReadKeeps); the scripts a request runs (ControlOnce); the  *)
(* way back, from a growing writer (Growing, Writing) over the package of  *)
(* one response (AnswerDecodes) to the output (AnsweredBy); the text of    *)
(* the adapters' addresses (CsvIs, CutAtMacs).                             *)
(***************************************************************************)
EXTENDS WellFoundedInduction, SequenceTheorems, Framing, TLAPS

---------------------------------------------------------------------------
(* Buffers and words. *)

\* A part of a buffer, as buf + m with n bytes is.
LEMMA PartOfData ==
    ASSUME NEW d \in Data, NEW m \in Nat \ {0}, NEW n \in Nat, m <= n + 1, n <= Len(d)
    PROVE  /\ SubSeq(d, m, n) \in Data /\ Len(SubSeq(d, m, n)) = n - m + 1
           /\ \A i \in 1..n - m + 1 : SubSeq(d, m, n)[i] = d[m + i - 1]
<1>1. Len(d) \in Nat /\ \A i \in 1..Len(d) : d[i] \in Byte
  BY ElementOfSeq, LenProperties DEF Data
<1>2. \A i \in m..n : d[i] \in Byte
  BY <1>1
<1>3. IF m <= n THEN TRUE ELSE n - m + 1 = 0
  OBVIOUS
<1> QED BY <1>2, <1>3, SubSeqProperties DEF Data

\* Two buffers one after the other (evbuffer_add): the first, and what is left when it
\* is drained.
LEMMA Cut ==
    ASSUME NEW a \in Data, NEW b \in Data
    PROVE  /\ a \o b \in Data /\ Len(a \o b) = Len(a) + Len(b) /\ Len(a) \in Nat /\ Len(b) \in Nat
           /\ SubSeq(a \o b, 1, Len(a)) = a
           /\ Drop(a \o b, Len(a)) = b
<1>1. a \o b \in Data /\ Len(a \o b) = Len(a) + Len(b) /\ Len(a) \in Nat /\ Len(b) \in Nat
      /\ \A i \in 1 .. Len(a) + Len(b) : (a \o b)[i] = IF i <= Len(a) THEN a[i] ELSE b[i - Len(a)]
  BY ConcatProperties, LenProperties DEF Data
<1> DEFINE l == Len(a)  k == Len(b)  c == a \o b
<1> HIDE DEF l, k, c
<1>2. SubSeq(c, 1, l) = a
  <2>1. SubSeq(c, 1, l) \in Data /\ Len(SubSeq(c, 1, l)) = l /\ \A i \in 1..l : SubSeq(c, 1, l)[i] = c[i]
    <3>1. 1 <= l + 1 /\ l <= Len(c) /\ 1 \in Nat \ {0} /\ l \in Nat /\ c \in Data
      BY <1>1 DEF c, l
    <3> QED BY <3>1, PartOfData
  <2> QED BY <1>1, <2>1, SeqEqual DEF Data, c, l
<1>3. SubSeq(c, l + 1, l + k) = b
  <2> DEFINE d == SubSeq(c, l + 1, l + k)
  <2>1. d \in Data /\ Len(d) = k /\ \A i \in 1..k : d[i] = c[l + i]
    <3>1. l + 1 <= l + k + 1 /\ l + k <= Len(c) /\ l + 1 \in Nat \ {0} /\ l + k \in Nat /\ c \in Data
          /\ (l + k) - (l + 1) + 1 = k /\ \A i \in 1..k : l + 1 + i - 1 = l + i
      BY <1>1 DEF c, l, k
    <3> QED BY <3>1, PartOfData
  <2>2. \A i \in 1..k : d[i] = b[i]
    <3>1. \A i \in 1..k : l + i \in 1..l + k /\ ~ l + i <= l /\ l + i - l = i
      BY <1>1 DEF l, k
    <3> QED BY <1>1, <2>1, <3>1, SMTT(30) DEF c, l, k
  <2> HIDE DEF d
  <2> QED BY <2>1, <2>2, SeqEqual DEF Data, d, k
<1> QED BY <1>1, <1>2, <1>3 DEF Drop, c, l, k

\* A uint32_t is its four bytes.
LEMMA Word4 == ASSUME NEW w \in Word32 PROVE w = <<w[1], w[2], w[3], w[4]>> /\ w \in Data /\ Len(w) = 4 /\ \A i \in 1..4 : w[i] \in Byte
<1>1. w = <<w[1], w[2], w[3], w[4]>> /\ \A i \in 1..4 : w[i] \in Byte
  BY DEF Word32
<1>2. w \in Seq(Byte)
  BY SeqDef DEF Word32
<1>3. Len(w) = 4
  BY LenProperties DEF Word32, Data
<1> QED BY <1>1, <1>2, <1>3 DEF Data

\* A set of naturals has a least one: what the loops over a buffer's bytes are followed
\* by.
LEMMA LeastElement ==
    ASSUME NEW T \in SUBSET Nat, T # {}
    PROVE  \E m \in T : \A k \in T : m <= k
<1>1. T \subseteq Nat /\ T # {}
  OBVIOUS
<1> DEFINE R == OpToRel(<, Nat)
<1>a. IsWellFoundedOn(R, Nat)
  BY NatLessThanWellFounded, Zenon
<1>b. R = {ss \in Nat \X Nat : ss[1] < ss[2]}
  BY DEF OpToRel
<1> HIDE DEF R
<1>2. PICK x \in T : \A y \in T : ~ (<<y, x>> \in R)
  BY <1>1, <1>a, WFMin
<1>3. ASSUME NEW y \in T PROVE x <= y
  <2>1. ~ (y < x)
    BY <1>1, <1>2, <1>b
  <2> QED BY <2>1
<1> QED BY <1>2, <1>3

---------------------------------------------------------------------------
(* The words of the codec. *)

\* A byte repeated, as memset and sign extension make it.
LEMMA FilledData ==
    ASSUME NEW n \in Nat, NEW b \in Byte
    PROVE  Filled(n, b) \in Data /\ Len(Filled(n, b)) = n /\ \A i \in 1..n : Filled(n, b)[i] = b
<1>1. [i \in 1..n |-> b] \in [1..n -> Byte]
  OBVIOUS
<1>2. [i \in 1..n |-> b] \in Seq(Byte)
  BY <1>1, SeqDef
<1>3. Len([i \in 1..n |-> b]) = n
  BY <1>2, LenProperties
<1> QED BY <1>2, <1>3 DEF Filled, Data

\* The four upper bytes of a uint64_t.
LEMMA FilledFour ==
    ASSUME NEW b \in Byte
    PROVE  Filled(4, b) \in Data /\ Len(Filled(4, b)) = 4 /\ \A i \in 1..4 : Filled(4, b)[i] = b
<1> DEFINE n == 4
<1>1. n \in Nat
  OBVIOUS
<1> HIDE DEF n
<1>2. Filled(n, b) \in Data /\ Len(Filled(n, b)) = n /\ \A i \in 1..n : Filled(n, b)[i] = b
  BY <1>1, FilledData
<1> QED BY <1>2 DEF n

\* Filling goes on where it stopped.
LEMMA FilledTwice ==
    ASSUME NEW m \in Nat, NEW n \in Nat, NEW b \in Byte
    PROVE  Filled(m, b) \o Filled(n, b) = Filled(m + n, b)
<1> DEFINE x == Filled(m, b)  y == Filled(n, b)  z == Filled(m + n, b)
<1>1. /\ x \in Data /\ Len(x) = m /\ (\A i \in 1..m : x[i] = b)
      /\ y \in Data /\ Len(y) = n /\ (\A i \in 1..n : y[i] = b)
      /\ m + n \in Nat /\ z \in Data /\ Len(z) = m + n /\ (\A i \in 1..m + n : z[i] = b)
  BY FilledData
<1> HIDE DEF x, y, z
<1>2. x \o y \in Data /\ Len(x \o y) = m + n /\ \A i \in 1..m + n : (x \o y)[i] = IF i <= m THEN x[i] ELSE y[i - m]
  BY <1>1, ConcatProperties DEF Data
<1>3. \A i \in 1..m + n : (x \o y)[i] = z[i]
  BY <1>1, <1>2
<1>4. x \o y = z
  BY <1>1, <1>2, <1>3, SeqEqual DEF Data
<1> QED BY <1>4 DEF x, y, z

\* A word and its lowest bytes, which mpack_store_be leaves out of a narrow encoding.
LEMMA Split ==
    ASSUME NEW w \in Word32, NEW n \in 0..4
    PROVE  /\ High(w, 4 - n) \o Low(w, n) = w
           /\ High(w, 4 - n) \in Data /\ Len(High(w, 4 - n)) = 4 - n
           /\ Low(w, n) \in Data /\ Len(Low(w, n)) = n
           /\ \A i \in 1..n : Low(w, n)[i] = w[4 - n + i]
<1> DEFINE l == 4
           k == l - n
<1>1. /\ w \in Data /\ Len(w) = l /\ w \in Seq(Byte) /\ l \in Nat /\ k \in Nat /\ k <= l /\ l - k = n
      /\ k + 1 \in Nat \ {0} /\ l - (k + 1) + 1 = n /\ l - n + 1 = k + 1
      /\ \A i \in 1..n : k + 1 + i - 1 = k + i
  <2>1. w \in Data /\ Len(w) = l /\ w \in Seq(Byte)
    BY Word4 DEF Data
  <2>2. /\ l \in Nat /\ k \in Nat /\ k <= l /\ l - k = n
        /\ k + 1 \in Nat \ {0} /\ l - (k + 1) + 1 = n /\ l - n + 1 = k + 1
    OBVIOUS
  <2> HIDE DEF k, l
  <2>3. \A i \in 1..n : k + 1 + i - 1 = k + i
    BY <2>2
  <2> QED BY <2>1, <2>2, <2>3
<1> HIDE DEF k, l
<1>2. SubSeq(w, 1, k) \in Data /\ Len(SubSeq(w, 1, k)) = k
  <2> DEFINE m == 1
  <2>1. m \in Nat \ {0} /\ m <= k + 1 /\ k - m + 1 = k
    BY <1>1
  <2> HIDE DEF m
  <2>2. SubSeq(w, m, k) \in Data /\ Len(SubSeq(w, m, k)) = k
    BY <1>1, <2>1, PartOfData
  <2> QED BY <2>2 DEF m
<1>3. SubSeq(w, k + 1, l) \in Data /\ Len(SubSeq(w, k + 1, l)) = n /\ \A i \in 1..n : SubSeq(w, k + 1, l)[i] = w[k + i]
  <2>1. k + 1 <= l + 1
    BY <1>1
  <2> QED BY <1>1, <2>1, PartOfData
<1>4. SubSeq(w, 1, k) \o SubSeq(w, k + 1, l) = w
  <2>1. 1 \in 1..Len(w) + 1 /\ k \in 1 - 1..Len(w) /\ l \in k..Len(w)
    BY <1>1
  <2>2. SubSeq(w, 1, k) \o SubSeq(w, k + 1, l) = SubSeq(w, 1, l)
    BY <1>1, <2>1, ConcatAdjacentSubSeq
  <2>3. SubSeq(w, 1, l) = w
    BY <1>1, SubSeqFull
  <2> QED BY <2>2, <2>3
<1>5. High(w, l - n) = SubSeq(w, 1, k) /\ Low(w, n) = SubSeq(w, k + 1, l)
  BY <1>1 DEF High, Low, k
<1> QED BY <1>1, <1>2, <1>3, <1>4, <1>5 DEF k, l

\* mpack_load_be and a cast to 64 bits: the bytes a narrow encoding left out come back.
LEMMA Extended ==
    ASSUME NEW w \in Word32, NEW n \in 0..4, NEW s \in Byte, High(w, 4 - n) = Filled(4 - n, s)
    PROVE  Filled(8 - n, s) \o Low(w, n) = Filled(4, s) \o w
<1> DEFINE k == 4 - n
<1>1. k \in Nat /\ 4 + k = 8 - n
  OBVIOUS
<1> HIDE DEF k
<1>2. w = Filled(k, s) \o Low(w, n) /\ Low(w, n) \in Data
  BY Split DEF k
<1>3. Filled(4, s) \in Data /\ Filled(k, s) \in Data
  BY <1>1, FilledFour, FilledData
<1>4. Filled(4, s) \o w = (Filled(4, s) \o Filled(k, s)) \o Low(w, n)
  <2> DEFINE f == Filled(4, s)  g == Filled(k, s)
  <2> HIDE DEF f, g
  <2>0. f \in Seq(Byte) /\ g \in Seq(Byte) /\ Low(w, n) \in Seq(Byte)
    BY <1>2, <1>3 DEF Data, f, g
  <2>1. f \o (g \o Low(w, n)) = (f \o g) \o Low(w, n)
    BY <2>0, ConcatAssociative, SMTT(30)
  <2> QED BY <1>2, <2>1, Zenon DEF f, g
<1>5. Filled(4, s) \o Filled(k, s) = Filled(8 - n, s)
  <2> DEFINE l == 4
  <2>1. l \in Nat
    OBVIOUS
  <2> HIDE DEF l
  <2>2. Filled(l, s) \o Filled(k, s) = Filled(l + k, s)
    BY <1>1, <2>1, FilledTwice
  <2> QED BY <1>1, <2>2 DEF l
<1> QED BY <1>4, <1>5

\* A word as the low half of the 64 bits of a tag.
LEMMA Wide ==
    ASSUME NEW w \in Word32, NEW s \in Byte
    PROVE  LET d == Filled(4, s) \o w
           IN  d \in Data /\ Len(d) = 8 /\ d[1] = s /\ Low(d, 4) = w /\ High(d, 4) = Filled(4, s)
<1> DEFINE f == Filled(4, s)  d == f \o w
<1>1. f \in Data /\ Len(f) = 4 /\ f[1] = s
  BY FilledFour
<1>2. w \in Data /\ Len(w) = 4
  BY Word4
<1> HIDE DEF f
<1>3. d \in Data /\ Len(d) = 8 /\ d[1] = f[1]
  <2>1. f \o w \in Seq(Byte) /\ Len(f \o w) = Len(f) + Len(w)
        /\ \A i \in 1..Len(f) + Len(w) : (f \o w)[i] = IF i <= Len(f) THEN f[i] ELSE w[i - Len(f)]
    BY <1>1, <1>2, ConcatProperties DEF Data
  <2> QED BY <1>1, <1>2, <2>1 DEF Data
<1>4. SubSeq(d, 1, 4) = f /\ SubSeq(d, 5, 8) = w
  <2>1. SubSeq(d, 1, Len(f)) = f /\ Drop(d, Len(f)) = w
    BY <1>1, <1>2, Cut
  <2> HIDE DEF d
  <2> QED BY <1>1, <1>3, <2>1 DEF Drop
<1> HIDE DEF d
<1>5. Low(d, 4) = w /\ High(d, 4) = f
  <2>1. Len(d) - 4 + 1 = 5
    BY <1>3
  <2> QED BY <1>3, <1>4, <2>1 DEF Low, High
<1> QED BY <1>1, <1>3, <1>5 DEF d, f

\* The two bytes a sign is extended with.
LEMMA Byte255 == 0 \in Byte /\ 255 \in Byte
BY DEF Byte

Signs == {0, 255}

\* mpack_expect_i32 and mpack_expect_u32 take from a tag the word that was written,
\* where the sign allows it.
LEMMA ExpectedWord ==
    ASSUME NEW w \in Word32, NEW r, NEW left, NEW t \in {"uint", "int"}, NEW s \in Signs,
           mpack_read_tag(r) = Result(left, [type |-> t, v |-> Filled(4, s) \o w]),
           s = 255 <=> t = "int" /\ Negative(w)
    PROVE  /\ t = "uint" \/ ~ Negative(w) => mpack_expect_u32(r) = Result(left, w)
           /\ t = "int" \/ ~ Negative(w) => mpack_expect_i32(r) = Result(left, w)
<1> DEFINE d == Filled(4, s) \o w  tag == Result(left, [type |-> t, v |-> d])
<1>1. d \in Data /\ Len(d) = 8 /\ d[1] = s /\ Low(d, 4) = w /\ High(d, 4) = Filled(4, s)
  BY Byte255, Wide DEF Signs
<1>2. tag.r = left /\ tag.v.type = t /\ tag.v.v = d
  BY DEF Result
<1> HIDE DEF d
<1>3. FitsUnsigned(d, 4) <=> Filled(4, s) = Filled(4, 0)
  BY <1>1 DEF FitsUnsigned
<1>4. FitsSigned(d, 4) <=> Filled(4, s) = Filled(4, IF Negative(w) THEN 255 ELSE 0)
  BY <1>1 DEF FitsSigned
<1>5. Negative(d) <=> s >= 128
  BY <1>1 DEF Negative
<1>0. mpack_read_tag(r) = tag
  BY DEF d
<1> HIDE DEF tag
<1>6. mpack_expect_u32(r) =
        Expected(tag, /\ tag.v.type \in {"uint", "int"}
                      /\ tag.v.type = "int" => ~ Negative(tag.v.v)
                      /\ FitsUnsigned(tag.v.v, 4), Low(tag.v.v, 4), Filled(4, 0))
  BY <1>0, Zenon DEF mpack_expect_u32
<1>7. mpack_expect_i32(r) =
        Expected(tag, /\ tag.v.type \in {"uint", "int"}
                      /\ tag.v.type = "uint" => ~ Negative(Low(tag.v.v, 4))
                      /\ FitsSigned(tag.v.v, 4), Low(tag.v.v, 4), Filled(4, 0))
  BY <1>0, Zenon DEF mpack_expect_i32
<1>8. ASSUME t = "uint" \/ ~ Negative(w) PROVE mpack_expect_u32(r) = Result(left, w)
  BY <1>1, <1>2, <1>3, <1>5, <1>6, <1>8 DEF Expected, Signs
<1>9. ASSUME t = "int" \/ ~ Negative(w) PROVE mpack_expect_i32(r) = Result(left, w)
  BY <1>1, <1>2, <1>4, <1>7, <1>9 DEF Expected, Signs
<1> QED BY <1>8, <1>9

\* An unsigned word that no signed one is is an error.
LEMMA ExpectedSmaller ==
    ASSUME NEW w \in Word32, NEW r, NEW left, Negative(w),
           mpack_read_tag(r) = Result(left, [type |-> "uint", v |-> Filled(4, 0) \o w])
    PROVE  mpack_expect_i32(r) = Result(mpack_reader_flag_error(left, "type"), Filled(4, 0))
<1> DEFINE d == Filled(4, 0) \o w  tag == Result(left, [type |-> "uint", v |-> d])
<1>1. Low(d, 4) = w
  BY Byte255, Wide
<1>2. tag.r = left /\ tag.v.type = "uint" /\ tag.v.v = d
  BY DEF Result
<1>3. mpack_read_tag(r) = tag
  OBVIOUS
<1> HIDE DEF d, tag
<1>4. mpack_expect_i32(r) =
        Expected(tag, /\ tag.v.type \in {"uint", "int"}
                      /\ tag.v.type = "uint" => ~ Negative(Low(tag.v.v, 4))
                      /\ FitsSigned(tag.v.v, 4), Low(tag.v.v, 4), Filled(4, 0))
  BY <1>3, Zenon DEF mpack_expect_i32
<1> QED BY <1>1, <1>2, <1>4 DEF Expected

---------------------------------------------------------------------------
(* Reading a tag. *)

Ok(d) == [data |-> d, error |-> "ok"]

\* A tag is one byte.
LEMMA One == ASSUME NEW b \in Byte PROVE <<b>> \in Data /\ Len(<<b>>) = 1 /\ <<b>>[1] = b
BY DEF Data

\* mpack_reader_skip over what has been read.
LEMMA Skipped ==
    ASSUME NEW a \in Data, NEW b \in Data
    PROVE  Skip(Ok(a \o b), Len(a)) = Ok(b)
<1>1. SubSeq(a \o b, Len(a) + 1, Len(a \o b)) = b
  BY Cut DEF Drop
<1> DEFINE c == a \o b
<1> HIDE DEF c
<1>2. Skip(Ok(c), Len(a)) = [data |-> SubSeq(c, Len(a) + 1, Len(c)), error |-> "ok"]
  <2> DEFINE k == SubSeq(c, Len(a) + 1, Len(c))
             r == [data |-> c, error |-> "ok"]
  <2>1. Skip(r, Len(a)) = [r EXCEPT !.data = k]
    BY Zenon DEF Skip
  <2> HIDE DEF k
  <2>2. [r EXCEPT !.data = k] = [data |-> k, error |-> "ok"]
    OBVIOUS
  <2> QED BY <2>1, <2>2 DEF Ok, k
<1> QED BY <1>1, <1>2 DEF c, Ok

\* An element whole in the buffer is read: its tag, and what follows it is left.
LEMMA ReadWhole ==
    ASSUME NEW b \in Byte, NEW v \in Data, NEW rest \in Data, Len(v) = SizeAfter(b),
           TypeOf(b) \notin {"ext", "reserved"}
    PROVE  mpack_read_tag(Ok((<<b>> \o v) \o rest))
               = Result(Ok(rest), [type |-> TypeOf(b),
                                   v |-> Widened(TypeOf(b), IF Len(v) = 0 THEN Inline(b) ELSE v)])
<1> DEFINE e == <<b>> \o v
           d == e \o rest
           n == Len(v)
<1>1. /\ <<b>> \in Data /\ Len(<<b>>) = 1
      /\ e \in Data /\ Len(e) = 1 + n /\ n \in Nat
      /\ d \in Data /\ Len(d) = Len(e) + Len(rest) /\ Len(rest) \in Nat
      /\ SubSeq(d, 1, Len(e)) = e
  <2>1. <<b>> \in Data /\ Len(<<b>>) = 1
    BY One
  <2>2. e \in Data /\ Len(e) = 1 + n /\ n \in Nat
    BY <2>1, Cut
  <2> HIDE DEF e
  <2>3. d \in Data /\ Len(d) = Len(e) + Len(rest) /\ Len(rest) \in Nat /\ SubSeq(d, 1, Len(e)) = e
    BY <2>2, Cut
  <2> QED BY <2>1, <2>2, <2>3
<1>2. d[1] = b /\ SubSeq(d, 2, n + 1) = v
  <2> DEFINE f == v \o rest
             a == <<b>>
  <2>0. a \in Data /\ Len(a) = 1 /\ a[1] = b
    BY One
  <2> HIDE DEF a
  <2>1. d = a \o f
    <3>0. a \in Seq(Byte) /\ v \in Seq(Byte) /\ rest \in Seq(Byte)
      BY <2>0 DEF Data
    <3>1. a \o (v \o rest) = (a \o v) \o rest
      BY <3>0, ConcatAssociative, SMTT(30)
    <3> QED BY <3>1 DEF a
  <2>2. f \in Data /\ Len(f) = n + Len(rest) /\ SubSeq(f, 1, n) = v
    BY Cut
  <2> HIDE DEF f, d
  <2>3. d[1] = b /\ \A i \in 1..Len(f) : d[1 + i] = f[i]
    <3>1. \A i \in 1..Len(a) + Len(f) : d[i] = IF i <= Len(a) THEN a[i] ELSE f[i - Len(a)]
      BY <2>0, <2>1, <2>2, ConcatProperties, ZenonT(40) DEF Data
    <3>2. \A i \in 1..Len(f) : 1 + i \in 1..Len(a) + Len(f) /\ ~ (1 + i <= Len(a)) /\ 1 + i - Len(a) = i
      BY <1>1, <2>0, <2>2
    <3>3. 1 \in 1..Len(a) + Len(f)
      BY <1>1, <2>0, <2>2
    <3> QED BY <2>0, <3>1, <3>2, <3>3
  <2>4. SubSeq(d, 2, n + 1) = v
    <3> DEFINE k == 2  j == n + 1  o == 1
    <3>1. k \in Nat \ {0} /\ j \in Nat /\ k <= j + 1 /\ j <= Len(d) /\ j - k + 1 = n
          /\ \A i \in 1..n : k + i - 1 = 1 + i
      BY <1>1
    <3>2. o \in Nat \ {0} /\ o <= n + 1 /\ n - o + 1 = n /\ n <= Len(f) /\ \A i \in 1..n : o + i - 1 = i
      BY <1>1, <2>2
    <3> HIDE DEF k, j, o
    <3>3. SubSeq(d, k, j) \in Data /\ Len(SubSeq(d, k, j)) = n
          /\ \A i \in 1..n : SubSeq(d, k, j)[i] = d[1 + i]
      <4>1. /\ SubSeq(d, k, j) \in Data /\ Len(SubSeq(d, k, j)) = j - k + 1
            /\ \A i \in 1..j - k + 1 : SubSeq(d, k, j)[i] = d[k + i - 1]
        BY <1>1, <3>1, PartOfData
      <4> QED BY <3>1, <4>1
    <3>4. SubSeq(f, o, n) \in Data /\ Len(SubSeq(f, o, n)) = n
          /\ \A i \in 1..n : SubSeq(f, o, n)[i] = f[i]
      <4>1. /\ SubSeq(f, o, n) \in Data /\ Len(SubSeq(f, o, n)) = n - o + 1
            /\ \A i \in 1..n - o + 1 : SubSeq(f, o, n)[i] = f[o + i - 1]
        BY <1>1, <2>2, <3>2, PartOfData
      <4> QED BY <3>2, <4>1
    <3>5. \A i \in 1..n : i \in 1..Len(f)
      BY <1>1, <2>2
    <3>6. SubSeq(d, k, j) = SubSeq(f, o, n)
      <4> DEFINE x == SubSeq(d, k, j)  y == SubSeq(f, o, n)
      <4>1. x \in Seq(Byte) /\ y \in Seq(Byte) /\ Len(x) = Len(y)
            /\ \A i \in 1..Len(x) : x[i] = y[i]
        BY <2>3, <3>3, <3>4, <3>5 DEF Data
      <4> HIDE DEF x, y
      <4>2. x = y
        BY <4>1, SeqEqual
      <4> QED BY <4>2 DEF x, y
    <3> QED BY <2>2, <3>6 DEF k, j, o
  <2> QED BY <2>3, <2>4
<1>3. Skip(Ok(d), 1 + n) = Ok(rest)
  <2>1. Skip(Ok(d), Len(e)) = Ok(rest)
    <3> HIDE DEF e
    <3> QED BY <1>1, Skipped
  <2> QED BY <1>1, <2>1
<1> HIDE DEF d, e
<1> DEFINE r == Ok(d)
<1>4. r.error = "ok" /\ r.data = d /\ d # <<>>
  <2>1. Len(d) # 0
    BY <1>1
  <2>2. Len(<<>>) = 0
    OBVIOUS
  <2> QED BY <2>1, <2>2 DEF Ok
<1> HIDE DEF r
<1>5. mpack_read_tag(r) = ReadElement(r, b, n)
  BY <1>2, <1>4, Zenon DEF mpack_read_tag
<1>6. mpack_reader_ensure(r, 1 + n).error = "ok"
  BY <1>1, <1>4 DEF mpack_reader_ensure
<1>7. ReadElement(r, b, n) = Result(Skip(r, 1 + n), mpack_parse_tag(r.data))
  BY <1>6, Zenon DEF ReadElement
<1>8. mpack_parse_tag(d) = [type |-> TypeOf(b),
                            v |-> Widened(TypeOf(b), IF n = 0 THEN Inline(b) ELSE v)]
  BY <1>2, Zenon DEF mpack_parse_tag
<1> QED BY <1>3, <1>4, <1>5, <1>7, <1>8 DEF r, d, e

---------------------------------------------------------------------------
(* Tags. *)

Sizes == {1, 2, 4}

\* The tags mpack_encode_u8 ... mpack_encode_i32 write are the ones mpack_parse_tag
\* takes for those widths.
LEMMA TagsOfSizes ==
    ASSUME NEW n \in Sizes
    PROVE  /\ TagOfUnsigned[n] \in Byte /\ TypeOf(TagOfUnsigned[n]) = "uint"
           /\ SizeAfter(TagOfUnsigned[n]) = n
           /\ TagOfSigned[n] \in Byte /\ TypeOf(TagOfSigned[n]) = "int"
           /\ SizeAfter(TagOfSigned[n]) = n
<1>1. /\ TypeOf(\hCC) = "uint" /\ SizeAfter(\hCC) = 1
      /\ TypeOf(\hCD) = "uint" /\ SizeAfter(\hCD) = 2
      /\ TypeOf(\hCE) = "uint" /\ SizeAfter(\hCE) = 4
      /\ TypeOf(\hD0) = "int" /\ SizeAfter(\hD0) = 1
      /\ TypeOf(\hD1) = "int" /\ SizeAfter(\hD1) = 2
      /\ TypeOf(\hD2) = "int" /\ SizeAfter(\hD2) = 4
  BY DEF TypeOf, SizeAfter
<1>2. /\ TagOfUnsigned[1] = \hCC /\ TagOfUnsigned[2] = \hCD /\ TagOfUnsigned[4] = \hCE
      /\ TagOfSigned[1] = \hD0 /\ TagOfSigned[2] = \hD1 /\ TagOfSigned[4] = \hD2
  BY DEF TagOfUnsigned, TagOfSigned
<1>3. \A b \in {\hCC, \hCD, \hCE, \hD0, \hD1, \hD2} : b \in Byte
  BY DEF Byte
<1> QED BY <1>1, <1>2, <1>3 DEF Sizes

\* mpack_parse_tag on the tags of one-byte integers, arrays, texts, floats and
\* Booleans.
LEMMA Tags ==
    /\ \A b \in 0..127 : b \in Byte /\ TypeOf(b) = "uint" /\ SizeAfter(b) = 0
    /\ \A b \in 224..255 : b \in Byte /\ TypeOf(b) = "int" /\ SizeAfter(b) = 0
    /\ \A b \in 144..159 : b \in Byte /\ TypeOf(b) = "array" /\ SizeAfter(b) = 0
    /\ \A b \in 160..191 : b \in Byte /\ TypeOf(b) = "str" /\ SizeAfter(b) = 0
    /\ TypeOf(\hCA) = "float" /\ SizeAfter(\hCA) = 4
    /\ TypeOf(\hD9) = "str" /\ SizeAfter(\hD9) = 1
    /\ TypeOf(\hDA) = "str" /\ SizeAfter(\hDA) = 2
    /\ TypeOf(\hDB) = "str" /\ SizeAfter(\hDB) = 4
    /\ \A b \in {\hC2, \hC3} : TypeOf(b) = "bool" /\ SizeAfter(b) = 0
<1>1. \A b \in 0..127 : b \in Byte /\ TypeOf(b) = "uint" /\ SizeAfter(b) = 0
  BY DEF Byte, TypeOf, SizeAfter
<1>2. \A b \in 224..255 : b \in Byte /\ TypeOf(b) = "int" /\ SizeAfter(b) = 0
  BY DEF Byte, TypeOf, SizeAfter
<1>3. \A b \in 144..159 : b \in Byte /\ TypeOf(b) = "array" /\ SizeAfter(b) = 0
  BY DEF Byte, TypeOf, SizeAfter
<1>4. \A b \in 160..191 : b \in Byte /\ TypeOf(b) = "str" /\ SizeAfter(b) = 0
  BY DEF Byte, TypeOf, SizeAfter
<1>5. /\ TypeOf(\hCA) = "float" /\ SizeAfter(\hCA) = 4
      /\ TypeOf(\hD9) = "str" /\ SizeAfter(\hD9) = 1
      /\ TypeOf(\hDA) = "str" /\ SizeAfter(\hDA) = 2
      /\ TypeOf(\hDB) = "str" /\ SizeAfter(\hDB) = 4
  BY DEF TypeOf, SizeAfter
<1>6. \A b \in {\hC2, \hC3} : TypeOf(b) = "bool" /\ SizeAfter(b) = 0
  BY DEF TypeOf, SizeAfter
<1> QED BY <1>1, <1>2, <1>3, <1>4, <1>5, <1>6

\* A word of 4 bytes cut to its n low ones.
LEMMA Cuts ==
    ASSUME NEW w \in Word32, NEW n \in Sizes
    PROVE  /\ Len(w) = 4
           /\ FitsUnsigned(w, n) <=> High(w, 4 - n) = Filled(4 - n, 0)
           /\ FitsSigned(w, n) <=> High(w, 4 - n) = Filled(4 - n, IF Negative(Low(w, n)) THEN 255 ELSE 0)
           /\ FitsSigned(w, n) => (Negative(Low(w, n)) <=> Negative(w))
<1>0. n \in {1, 2, 4}
  BY DEF Sizes
<1>1. Len(w) = 4
  BY Word4
<1>2. FitsUnsigned(w, n) <=> High(w, 4 - n) = Filled(4 - n, 0)
  BY <1>1 DEF FitsUnsigned
<1>3. FitsSigned(w, n) <=> High(w, 4 - n) = Filled(4 - n, IF Negative(Low(w, n)) THEN 255 ELSE 0)
  BY <1>1 DEF FitsSigned
<1>4. ASSUME FitsSigned(w, n) PROVE Negative(Low(w, n)) <=> Negative(w)
  <2>1. CASE n = 4
    <3>1. Low(w, 4) = w
      <4>1. Low(w, 4) = SubSeq(w, 1, 4) /\ w \in Seq(Byte)
        BY <1>1, Word4 DEF Low, Data
      <4>2. SubSeq(w, 1, Len(w)) = w
        BY <4>1, SubSeqFull
      <4> QED BY <1>1, <4>1, <4>2
    <3> QED BY <2>1, <3>1
  <2>2. CASE n # 4
    <3> DEFINE k == 4 - n  s == IF Negative(Low(w, n)) THEN 255 ELSE 0
    <3>1. k \in Nat /\ k >= 1
      BY <1>0, <2>2
    <3>2. High(w, k) = Filled(k, s)
      BY <1>3, <1>4
    <3>3. s \in Byte
      BY DEF Byte
    <3> HIDE DEF k, s
    <3>4. Filled(k, s)[1] = s
      BY <3>1, <3>3, FilledData
    <3>5. High(w, k)[1] = w[1]
      <4> DEFINE o == 1
      <4>1. o \in Nat \ {0} /\ k \in Nat /\ o <= k + 1 /\ k <= Len(w) /\ w \in Data
            /\ 1 \in 1..k - o + 1 /\ o + 1 - 1 = 1
        BY <1>0, <1>1, <3>1, Word4 DEF k
      <4> HIDE DEF o
      <4>2. \A i \in 1..k - o + 1 : SubSeq(w, o, k)[i] = w[o + i - 1]
        BY <4>1, PartOfData
      <4> QED BY <4>1, <4>2 DEF High, o
    <3>6. w[1] = s
      BY <3>2, <3>4, <3>5
    <3> QED BY <3>6 DEF s, Negative
  <2> QED BY <2>1, <2>2
<1> QED BY <1>1, <1>2, <1>3, <1>4

\* A word in one byte.
LEMMA OneByte ==
    ASSUME NEW w \in Word32
    PROVE  Low(w, 1) = <<w[4]>> /\ w[4] \in Byte /\ <<w[4]>> \in Data /\ Len(<<w[4]>>) = 1
<1>1. Low(w, 1) \in Data /\ Len(Low(w, 1)) = 1 /\ Low(w, 1)[1] = w[4]
  BY Split
<1>2. w[4] \in Byte
  BY Word4
<1>3. Low(w, 1) = <<w[4]>>
  <2>1. <<w[4]>> \in Data /\ Len(<<w[4]>>) = 1 /\ <<w[4]>>[1] = w[4]
    BY <1>2, One
  <2> HIDE DEF Low
  <2> DEFINE x == Low(w, 1)  y == <<w[4]>>
  <2>2. x \in Seq(Byte) /\ y \in Seq(Byte) /\ Len(x) = Len(y) /\ \A i \in 1..Len(x) : x[i] = y[i]
    BY <1>1, <2>1 DEF Data
  <2> HIDE DEF x, y
  <2>3. x = y
    BY <2>2, SeqEqual
  <2> QED BY <2>3 DEF x, y
<1> QED BY <1>2, <1>3, One

\* A tag and the bytes of its width.
LEMMA LowData ==
    ASSUME NEW w \in Word32, NEW n \in 0..4
    PROVE  /\ Low(w, n) \in Data /\ Len(Low(w, n)) = n
           /\ \A b \in Byte : <<b>> \o Low(w, n) \in Data /\ Len(<<b>> \o Low(w, n)) = 1 + n
<1>1. Low(w, n) \in Data /\ Len(Low(w, n)) = n
  BY Split
<1>2. ASSUME NEW b \in Byte PROVE <<b>> \o Low(w, n) \in Data /\ Len(<<b>> \o Low(w, n)) = 1 + n
  <2> DEFINE a == <<b>>  v == Low(w, n)
  <2>1. a \in Data /\ Len(a) = 1
    BY One
  <2> HIDE DEF a, v
  <2>2. a \o v \in Data /\ Len(a \o v) = Len(a) + Len(v)
    BY <1>1, <2>1, Cut DEF v
  <2> QED BY <1>1, <2>1, <2>2 DEF a, v
<1> QED BY <1>1, <1>2

\* A tag of a known size and the low bytes of a word.
LEMMA Tagged ==
    ASSUME NEW w \in Word32, NEW n \in Sizes, NEW b \in Byte, NEW rest \in Data, NEW s \in Signs,
           SizeAfter(b) = n, TypeOf(b) \in {"uint", "int"},
           High(w, 4 - n) = Filled(4 - n, s),
           s = 255 <=> TypeOf(b) = "int" /\ Negative(Low(w, n))
    PROVE  LET e == <<b>> \o Low(w, n)
           IN  /\ e \in Data /\ Len(e) = 1 + n
               /\ mpack_read_tag(Ok(e \o rest)) = Result(Ok(rest), [type |-> TypeOf(b), v |-> Filled(4, s) \o w])
<1> DEFINE v == Low(w, n)
<1>0. n \in 0..4 /\ n # 0
  BY DEF Sizes
<1>1. v \in Data /\ Len(v) = n
  BY <1>0, LowData
<1>2. <<b>> \o v \in Data /\ Len(<<b>> \o v) = 1 + n
  BY <1>0, LowData
<1>3. Widened(TypeOf(b), v) = Filled(4, s) \o w
  <2>1. Widened(TypeOf(b), v) = Filled(8 - n, s) \o v
    BY <1>1 DEF Widened, ZeroExtended, SignExtended, Signs
  <2>2. Filled(8 - n, s) \o Low(w, n) = Filled(4, s) \o w
    <3>1. n \in 0..4 /\ s \in Byte
      BY <1>0 DEF Byte, Signs
    <3> QED BY <3>1, Extended
  <2> QED BY <2>1, <2>2
<1> HIDE DEF v
<1>5. mpack_read_tag(Ok((<<b>> \o v) \o rest))
          = Result(Ok(rest), [type |-> TypeOf(b), v |-> Widened(TypeOf(b), IF Len(v) = 0 THEN Inline(b) ELSE v)])
  BY <1>1, ReadWhole
<1>6. mpack_read_tag(Ok((<<b>> \o v) \o rest))
          = Result(Ok(rest), [type |-> TypeOf(b), v |-> Filled(4, s) \o w])
  BY <1>0, <1>1, <1>3, <1>5
<1> QED BY <1>2, <1>6 DEF v

\* A word in the byte of its own tag.
LEMMA Fixed ==
    ASSUME NEW w \in Word32, NEW rest \in Data, NEW s \in Signs,
           SizeAfter(w[4]) = 0, TypeOf(w[4]) \in {"uint", "int"},
           High(w, 3) = Filled(3, s),
           s = 255 <=> TypeOf(w[4]) = "int" /\ Negative(<<w[4]>>)
    PROVE  mpack_read_tag(Ok(<<w[4]>> \o rest)) = Result(Ok(rest), [type |-> TypeOf(w[4]), v |-> Filled(4, s) \o w])
<1> DEFINE b == w[4]  v == <<>>
<1>1. v \in Data /\ Len(v) = 0 /\ b \in Byte /\ <<b>> \in Data /\ <<b>> \o v = <<b>>
  <2>1. b \in Byte
    BY Word4
  <2> QED BY <2>1 DEF Data
<1>2. Low(w, 1) = <<b>> /\ Len(<<b>>) = 1
  BY OneByte
<1>3. Widened(TypeOf(b), <<b>>) = Filled(4, s) \o w
  <2>1. Widened(TypeOf(b), <<b>>) = Filled(7, s) \o <<b>>
    BY <1>2, SMTT(30) DEF Widened, ZeroExtended, SignExtended, Signs
  <2> DEFINE n == 1
  <2>2. n \in 0..4 /\ s \in Byte /\ 4 - n = 3 /\ 8 - n = 7
          /\ High(w, 4 - n) = Filled(4 - n, s)
    BY DEF Byte, Signs
  <2> HIDE DEF n
  <2>3. Filled(8 - n, s) \o Low(w, n) = Filled(4, s) \o w
    BY <2>2, Extended
  <2> QED BY <1>2, <2>1, <2>2, <2>3 DEF n
<1>4. Inline(b) = <<b>>
  BY DEF Inline
<1> HIDE DEF v, b
<1>5. mpack_read_tag(Ok((<<b>> \o v) \o rest))
          = Result(Ok(rest), [type |-> TypeOf(b), v |-> Widened(TypeOf(b), IF Len(v) = 0 THEN Inline(b) ELSE v)])
  BY <1>1, ReadWhole, ZenonT(40) DEF b
<1> QED BY <1>1, <1>3, <1>4, <1>5 DEF b

---------------------------------------------------------------------------
(* Integers in every width. *)

\* However an unsigned word is written, its tag reads as the word.
LEMMA UnsignedForm ==
    ASSUME NEW w \in Word32, NEW e \in UnsignedForms(w), NEW rest \in Data
    PROVE  /\ e \in Data /\ Len(e) \in 1..5
           /\ mpack_read_tag(Ok(e \o rest)) = Result(Ok(rest), [type |-> "uint", v |-> Filled(4, 0) \o w])
<1>1. CASE FitsUnsigned(w, 1) /\ w[4] <= 127 /\ e = mpack_encode_fixuint(w)
  <2>1. Low(w, 1) = <<w[4]>> /\ w[4] \in Byte /\ <<w[4]>> \in Data /\ Len(<<w[4]>>) = 1
    BY OneByte
  <2>2. e = <<w[4]>>
    BY <1>1, <2>1 DEF mpack_encode_fixuint
  <2>3. w[4] \in 0..127
    BY <1>1, <2>1 DEF Byte
  <2>4. SizeAfter(w[4]) = 0 /\ TypeOf(w[4]) = "uint"
    BY <2>3, Tags
  <2>5. High(w, 3) = Filled(3, 0)
    <3> DEFINE n == 1
    <3>1. n \in Sizes /\ 4 - n = 3
      BY DEF Sizes
    <3>2. FitsUnsigned(w, n)
      BY <1>1
    <3> HIDE DEF n
    <3>3. High(w, 4 - n) = Filled(4 - n, 0)
      BY <3>1, <3>2, Cuts
    <3> QED BY <3>1, <3>3
  <2> DEFINE s == 0
  <2>6. s \in Signs /\ TypeOf(w[4]) \in {"uint", "int"} /\ High(w, 3) = Filled(3, s)
        /\ (s = 255 <=> TypeOf(w[4]) = "int" /\ Negative(<<w[4]>>))
    BY <2>4, <2>5 DEF Signs
  <2> HIDE DEF s
  <2>7. mpack_read_tag(Ok(<<w[4]>> \o rest)) = Result(Ok(rest), [type |-> TypeOf(w[4]), v |-> Filled(4, s) \o w])
    BY <2>4, <2>6, Fixed, Zenon
  <2> QED BY <2>1, <2>2, <2>4, <2>7 DEF s
<1>2. CASE \E n \in {m \in {1, 2, 4} : FitsUnsigned(w, m)} : e = <<TagOfUnsigned[n]>> \o Low(w, n)
  <2>1. PICK n \in Sizes : FitsUnsigned(w, n) /\ e = <<TagOfUnsigned[n]>> \o Low(w, n)
    BY <1>2 DEF Sizes
  <2> DEFINE b == TagOfUnsigned[n]  s == 0
  <2>2. b \in Byte /\ TypeOf(b) = "uint" /\ SizeAfter(b) = n
    BY TagsOfSizes
  <2>3. High(w, 4 - n) = Filled(4 - n, s)
    BY <2>1, Cuts
  <2>4. s \in Signs /\ TypeOf(b) \in {"uint", "int"}
        /\ (s = 255 <=> TypeOf(b) = "int" /\ Negative(Low(w, n)))
    BY <2>2 DEF Signs
  <2> HIDE DEF b, s
  <2>5. /\ <<b>> \o Low(w, n) \in Data /\ Len(<<b>> \o Low(w, n)) = 1 + n
        /\ mpack_read_tag(Ok((<<b>> \o Low(w, n)) \o rest))
               = Result(Ok(rest), [type |-> TypeOf(b), v |-> Filled(4, s) \o w])
    BY <2>2, <2>3, <2>4, Tagged, ZenonT(40)
  <2>6. Len(e) \in 1..5
    BY <2>1, <2>5 DEF Sizes, b
  <2> QED BY <2>1, <2>2, <2>4, <2>5, <2>6 DEF b, s
<1> QED BY <1>1, <1>2 DEF UnsignedForms

\* And a signed word as the word with its sign.
LEMMA SignedForm ==
    ASSUME NEW w \in Word32, NEW e \in SignedForms(w), NEW rest \in Data
    PROVE  /\ e \in Data /\ Len(e) \in 1..5
           /\ \E t \in {"uint", "int"}, s \in Signs :
                 /\ mpack_read_tag(Ok(e \o rest)) = Result(Ok(rest), [type |-> t, v |-> Filled(4, s) \o w])
                 /\ s = 255 <=> t = "int" /\ Negative(w)
                 /\ t = "int" \/ ~ Negative(w)
<1>1. CASE ~ Negative(w) /\ e \in UnsignedForms(w)
  <2>1. /\ e \in Data /\ Len(e) \in 1..5
        /\ mpack_read_tag(Ok(e \o rest)) = Result(Ok(rest), [type |-> "uint", v |-> Filled(4, 0) \o w])
    BY <1>1, UnsignedForm
  <2> QED BY <1>1, <2>1 DEF Signs
<1>2. CASE FitsSigned(w, 1) /\ w[4] >= 224 /\ e = mpack_encode_fixint(w)
  <2>1. Low(w, 1) = <<w[4]>> /\ w[4] \in Byte /\ <<w[4]>> \in Data /\ Len(<<w[4]>>) = 1
    BY OneByte
  <2>2. e = <<w[4]>>
    BY <1>2, <2>1 DEF mpack_encode_fixint
  <2>3. w[4] \in 224..255
    BY <1>2, <2>1 DEF Byte
  <2>4. SizeAfter(w[4]) = 0 /\ TypeOf(w[4]) = "int"
    BY <2>3, Tags
  <2>5. High(w, 3) = Filled(3, 255) /\ Negative(w) /\ Negative(<<w[4]>>)
    <3> DEFINE n == 1
    <3>0. Negative(<<w[4]>>)
      BY <2>3 DEF Negative
    <3>1. n \in Sizes /\ 4 - n = 3 /\ Negative(Low(w, n))
      BY <2>1, <3>0 DEF Sizes
    <3>2. FitsSigned(w, n)
      BY <1>2
    <3> HIDE DEF n
    <3>3. High(w, 4 - n) = Filled(4 - n, 255) /\ Negative(w)
      BY <3>1, <3>2, Cuts
    <3> QED BY <3>0, <3>1, <3>3
  <2> DEFINE s == 255
  <2>6. s \in Signs /\ TypeOf(w[4]) \in {"uint", "int"} /\ High(w, 3) = Filled(3, s)
        /\ (s = 255 <=> TypeOf(w[4]) = "int" /\ Negative(<<w[4]>>))
    BY <2>4, <2>5 DEF Signs
  <2> HIDE DEF s
  <2>7. mpack_read_tag(Ok(<<w[4]>> \o rest)) = Result(Ok(rest), [type |-> TypeOf(w[4]), v |-> Filled(4, s) \o w])
    BY <2>4, <2>6, Fixed, ZenonT(40)
  <2>8. mpack_read_tag(Ok(e \o rest)) = Result(Ok(rest), [type |-> "int", v |-> Filled(4, s) \o w])
        /\ s = 255 /\ e \in Data /\ Len(e) = 1
    BY <2>1, <2>2, <2>4, <2>7 DEF s
  <2> QED BY <2>5, <2>8 DEF Signs
<1>3. CASE \E n \in {m \in {1, 2, 4} : FitsSigned(w, m)} : e = <<TagOfSigned[n]>> \o Low(w, n)
  <2>1. PICK n \in Sizes : FitsSigned(w, n) /\ e = <<TagOfSigned[n]>> \o Low(w, n)
    BY <1>3 DEF Sizes
  <2> DEFINE b == TagOfSigned[n]  s == IF Negative(Low(w, n)) THEN 255 ELSE 0
  <2>2. b \in Byte /\ TypeOf(b) = "int" /\ SizeAfter(b) = n
    BY TagsOfSizes
  <2>3. High(w, 4 - n) = Filled(4 - n, s)
    BY <2>1, Cuts
  <2>10. Negative(Low(w, n)) <=> Negative(w)
    BY <2>1, Cuts
  <2>4. s \in Signs /\ TypeOf(b) \in {"uint", "int"}
        /\ (s = 255 <=> TypeOf(b) = "int" /\ Negative(Low(w, n)))
    BY <2>2, <2>3 DEF Signs
  <2>9. s = 255 <=> TypeOf(b) = "int" /\ Negative(w)
    BY <2>2, <2>10
  <2> HIDE DEF b, s
  <2>11. b \in Byte /\ SizeAfter(b) = n
    BY <2>2
  <2>5. /\ <<b>> \o Low(w, n) \in Data /\ Len(<<b>> \o Low(w, n)) = 1 + n
        /\ mpack_read_tag(Ok((<<b>> \o Low(w, n)) \o rest))
               = Result(Ok(rest), [type |-> TypeOf(b), v |-> Filled(4, s) \o w])
    BY <2>11, <2>3, <2>4, Tagged
  <2>6. e = <<b>> \o Low(w, n)
    BY <2>1 DEF b
  <2>7. mpack_read_tag(Ok(e \o rest)) = Result(Ok(rest), [type |-> "int", v |-> Filled(4, s) \o w])
        /\ e \in Data /\ Len(e) = 1 + n
    BY <2>2, <2>5, <2>6
  <2>8. Len(e) \in 1..5
    BY <2>7 DEF Sizes
  <2> QED BY <2>2, <2>4, <2>7, <2>8, <2>9, ZenonT(40) DEF Signs
<1> QED BY <1>1, <1>2, <1>3 DEF SignedForms

\* The writer's own choice is one of the forms.
LEMMA EncodedForm ==
    ASSUME NEW w \in Word32
    PROVE  EncodedUnsigned(w) \in UnsignedForms(w) /\ EncodedSigned(w) \in SignedForms(w)
<1>1. Len(w) = 4 /\ w \in Seq(Byte)
  BY Word4 DEF Data
<1>2. FitsUnsigned(w, 4) /\ FitsSigned(w, 4)
  <2>1. High(w, 0) = <<>>
    BY <1>1 DEF High
  <2>2. \A s : Filled(0, s) = <<>>
    BY DEF Filled
  <2> QED BY <1>1, <2>1, <2>2 DEF FitsUnsigned, FitsSigned
<1>3. EncodedUnsigned(w) \in UnsignedForms(w)
  <2>1. CASE FitsUnsigned(w, 1) /\ w[4] <= 127
    BY <1>1, <2>1 DEF EncodedUnsigned, UnsignedForms
  <2>2. CASE ~ (FitsUnsigned(w, 1) /\ w[4] <= 127)
    <3> DEFINE T == {m \in {1, 2, 4, 8} : m <= Len(w) /\ FitsUnsigned(w, m)}
    <3>1. T = {m \in {1, 2, 4} : FitsUnsigned(w, m)} /\ 4 \in T
      BY <1>1, <1>2
    <3>2. \E n \in T : \A m \in T : n <= m
      BY <3>1
    <3> HIDE DEF T
    <3>3. Shortest(T) \in T
      BY <3>2 DEF Shortest
    <3>4. EncodedUnsigned(w) = <<TagOfUnsigned[Shortest(T)]>> \o Low(w, Shortest(T))
      BY <1>1, <2>2, Zenon DEF EncodedUnsigned, T
    <3> QED BY <3>1, <3>3, <3>4 DEF UnsignedForms
  <2> QED BY <2>1, <2>2
<1>4. EncodedSigned(w) \in SignedForms(w)
  <2>1. CASE ~ Negative(w)
    BY <1>3, <2>1 DEF EncodedSigned, SignedForms
  <2>2. CASE Negative(w) /\ FitsSigned(w, 1) /\ w[4] >= 224
    BY <1>1, <2>2 DEF EncodedSigned, EncodedNegative, SignedForms
  <2>3. CASE Negative(w) /\ ~ (FitsSigned(w, 1) /\ w[4] >= 224)
    <3> DEFINE T == {m \in {1, 2, 4, 8} : m <= Len(w) /\ FitsSigned(w, m)}
    <3>1. T = {m \in {1, 2, 4} : FitsSigned(w, m)} /\ 4 \in T
      BY <1>1, <1>2
    <3>2. \E n \in T : \A m \in T : n <= m
      BY <3>1
    <3> HIDE DEF T
    <3>3. Shortest(T) \in T
      BY <3>2 DEF Shortest
    <3>4. EncodedSigned(w) = <<TagOfSigned[Shortest(T)]>> \o Low(w, Shortest(T))
      BY <1>1, <2>3, Zenon DEF EncodedSigned, EncodedNegative, T
    <3> QED BY <3>1, <3>3, <3>4 DEF SignedForms
  <2> QED BY <2>1, <2>2, <2>3
<1> QED BY <1>3, <1>4

---------------------------------------------------------------------------
(* Reading fields. *)

\* mpack_expect_u32 reads an unsigned word in whatever width the phone wrote it.
LEMMA ExpectsUnsigned ==
    ASSUME NEW w \in Word32, NEW e \in UnsignedForms(w), NEW rest \in Data
    PROVE  mpack_expect_u32(Ok(e \o rest)) = Result(Ok(rest), w)
<1> DEFINE s == 0  t == "uint"  r == Ok(e \o rest)  left == Ok(rest)
<1>1. mpack_read_tag(r) = Result(left, [type |-> t, v |-> Filled(4, s) \o w])
  BY UnsignedForm
<1>2. t \in {"uint", "int"} /\ s \in Signs /\ (s = 255 <=> t = "int" /\ Negative(w))
  BY DEF Signs
<1>3. t = "uint"
  OBVIOUS
<1> HIDE DEF s, t, r, left
<1>4. t = "uint" \/ ~ Negative(w) => mpack_expect_u32(r) = Result(left, w)
  BY <1>1, <1>2, ExpectedWord
<1> QED BY <1>3, <1>4 DEF r, left

\* mpack_expect_i32 reads a signed word in whatever width the phone wrote it.
LEMMA ExpectsSigned ==
    ASSUME NEW w \in Word32, NEW e \in SignedForms(w), NEW rest \in Data
    PROVE  mpack_expect_i32(Ok(e \o rest)) = Result(Ok(rest), w)
<1> DEFINE r == Ok(e \o rest)  left == Ok(rest)
<1>1. PICK t \in {"uint", "int"}, s \in Signs :
          /\ mpack_read_tag(r) = Result(left, [type |-> t, v |-> Filled(4, s) \o w])
          /\ s = 255 <=> t = "int" /\ Negative(w)
          /\ t = "int" \/ ~ Negative(w)
  BY SignedForm
<1> HIDE DEF r, left
<1>4. mpack_expect_i32(r) = Result(left, w)
  BY <1>1, ExpectedWord
<1> QED BY <1>1, <1>4 DEF r, left

\* A word the phone wrote as unsigned and the server reads as signed.
LEMMA ExpectsHeader ==
    ASSUME NEW w \in Word32, NEW e \in UnsignedForms(w), NEW rest \in Data
    PROVE  /\ ~ Negative(w) => mpack_expect_i32(Ok(e \o rest)) = Result(Ok(rest), w)
           /\ Negative(w) => mpack_expect_i32(Ok(e \o rest)).r.error # "ok"
<1>1. ASSUME ~ Negative(w) PROVE mpack_expect_i32(Ok(e \o rest)) = Result(Ok(rest), w)
  BY <1>1, ExpectsSigned DEF SignedForms
<1>2. ASSUME Negative(w) PROVE mpack_expect_i32(Ok(e \o rest)).r.error # "ok"
  <2> DEFINE r == Ok(e \o rest)  left == Ok(rest)
  <2>1. mpack_read_tag(r) = Result(left, [type |-> "uint", v |-> Filled(4, 0) \o w])
    BY UnsignedForm
  <2>2. left.error = "ok"
    BY DEF Ok
  <2> HIDE DEF r, left
  <2>3. mpack_expect_i32(r) = Result(mpack_reader_flag_error(left, "type"), Filled(4, 0))
    BY <1>2, <2>1, ExpectedSmaller
  <2>4. mpack_reader_flag_error(left, "type").error = "type"
    BY <2>2 DEF mpack_reader_flag_error
  <2> QED BY <2>3, <2>4 DEF Result, r
<1> QED BY <1>1, <1>2

\* Nothing is read after an error.
LEMMA ErrorStays ==
    ASSUME NEW r, r.error # "ok"
    PROVE  mpack_expect_i32(r).r.error # "ok"
<1>1. mpack_read_tag(r) = Result(r, Nil)
  BY Zenon DEF mpack_read_tag
<1> DEFINE tag == Result(r, Nil)
<1>2. tag.r = r /\ tag.v.type = "nil"
  BY DEF Result, Nil
<1> HIDE DEF tag
<1>3. mpack_expect_i32(r) =
        Expected(tag, /\ tag.v.type \in {"uint", "int"}
                      /\ tag.v.type = "uint" => ~ Negative(Low(tag.v.v, 4))
                      /\ FitsSigned(tag.v.v, 4), Low(tag.v.v, 4), Filled(4, 0))
  BY <1>1, Zenon DEF mpack_expect_i32, tag
<1>4. mpack_expect_i32(r) = Result(mpack_reader_flag_error(r, "type"), Filled(4, 0))
  BY <1>2, <1>3 DEF Expected
<1>5. mpack_reader_flag_error(r, "type") = r
  BY DEF mpack_reader_flag_error
<1> QED BY <1>4, <1>5 DEF Result

\* What reading an array's elements does, one element at a time.
Reads(r, kinds, f) ==
    f = [i \in 0..Len(kinds) |->
            IF i = 0 THEN Result(r, <<>>)
            ELSE Result(Expect(kinds[i], f[i - 1].r).r, Append(f[i - 1].v, Expect(kinds[i], f[i - 1].r).v))]

\* The fields of a parse_ function, one mpack_expect_ after another.
LEMMA ReadInTurn ==
    ASSUME NEW r, NEW kinds, Len(kinds) \in Nat, NEW f, Reads(r, kinds, f)
    PROVE  InTurn(r, kinds) = f[Len(kinds)]
<1> DEFINE g == CHOOSE g : Reads(r, kinds, g)
<1>1. Reads(r, kinds, g)
  OBVIOUS
<1>2. InTurn(r, kinds) = g[Len(kinds)]
  BY Zenon DEF InTurn, Reads
<1> HIDE DEF g
<1> DEFINE T == {i \in 0..Len(kinds) : f[i] # g[i]}
<1>3. T = {}
  <2>1. SUFFICES ASSUME T # {} PROVE FALSE
    OBVIOUS
  <2>2. PICK m \in T : \A k \in T : m <= k
    <3>1. T \in SUBSET Nat
      OBVIOUS
    <3> HIDE DEF T
    <3> QED BY <2>1, <3>1, LeastElement
  <2>3. CASE m = 0
    BY <1>1, <2>3 DEF Reads
  <2>4. CASE m # 0
    <3>1. m \in 0..Len(kinds) /\ m - 1 \in 0..Len(kinds) /\ ~ (m <= m - 1)
      BY <2>4
    <3>2. f[m - 1] = g[m - 1]
      BY <2>2, <3>1
    <3>3. f[m] = Result(Expect(kinds[m], f[m - 1].r).r, Append(f[m - 1].v, Expect(kinds[m], f[m - 1].r).v))
      BY <2>4, <3>1, SMTT(30) DEF Reads
    <3>4. g[m] = Result(Expect(kinds[m], g[m - 1].r).r, Append(g[m - 1].v, Expect(kinds[m], g[m - 1].r).v))
      BY <1>1, <2>4, <3>1 DEF Reads
    <3> QED BY <3>2, <3>3, <3>4
  <2> QED BY <2>3, <2>4
<1> QED BY <1>2, <1>3

\* Up to four elements.
LEMMA FourInTurn ==
    ASSUME NEW r0, NEW k1, NEW k2, NEW k3, NEW k4
    PROVE  LET x1 == Expect(k1, r0)  x2 == Expect(k2, x1.r)
               x3 == Expect(k3, x2.r)  x4 == Expect(k4, x3.r)
           IN  /\ InTurn(r0, <<k1>>) = Result(x1.r, <<x1.v>>)
               /\ InTurn(r0, <<k1, k2>>) = Result(x2.r, <<x1.v, x2.v>>)
               /\ InTurn(r0, <<k1, k2, k3>>) = Result(x3.r, <<x1.v, x2.v, x3.v>>)
               /\ InTurn(r0, <<k1, k2, k3, k4>>) = Result(x4.r, <<x1.v, x2.v, x3.v, x4.v>>)
<1> DEFINE x1 == Expect(k1, r0)  x2 == Expect(k2, x1.r)
           x3 == Expect(k3, x2.r)  x4 == Expect(k4, x3.r)
           a == Result(r0, <<>>)  b == Result(x1.r, <<x1.v>>)  c == Result(x2.r, <<x1.v, x2.v>>)
           d == Result(x3.r, <<x1.v, x2.v, x3.v>>)  e == Result(x4.r, <<x1.v, x2.v, x3.v, x4.v>>)
           val(i) == CASE i = 0 -> a [] i = 1 -> b [] i = 2 -> c [] i = 3 -> d [] i = 4 -> e
<1>1. /\ a.r = r0 /\ a.v = <<>> /\ b = Result(x1.r, Append(a.v, x1.v))
      /\ b.r = x1.r /\ c = Result(x2.r, Append(b.v, x2.v))
      /\ c.r = x2.r /\ d = Result(x3.r, Append(c.v, x3.v))
      /\ d.r = x3.r /\ e = Result(x4.r, Append(d.v, x4.v))
  BY DEF Result
<1> HIDE DEF a, b, c, d, e
<1>2. ASSUME NEW kinds, NEW n \in 1..4, Len(kinds) = n, kinds[1] = k1, n >= 2 => kinds[2] = k2,
             n >= 3 => kinds[3] = k3, n >= 4 => kinds[4] = k4
      PROVE  InTurn(r0, kinds) = val(n)
  <2> DEFINE f == [i \in 0..n |-> val(i)]
  <2>1. Reads(r0, kinds, f)
    <3>1. ASSUME NEW i \in 0..n PROVE
            f[i] = IF i = 0 THEN Result(r0, <<>>)
                   ELSE Result(Expect(kinds[i], f[i - 1].r).r, Append(f[i - 1].v, Expect(kinds[i], f[i - 1].r).v))
      <4>1. CASE i = 0
        BY <4>1 DEF a
      <4>2. CASE i = 1
        <5>1. f[i] = b /\ f[i - 1] = a /\ kinds[i] = k1 /\ i # 0
          BY <1>2, <4>2
        <5> HIDE DEF f, val
        <5> QED BY <1>1, <5>1
      <4>3. CASE i = 2
        <5>1. f[i] = c /\ f[i - 1] = b /\ kinds[i] = k2 /\ i # 0
          BY <1>2, <4>3, SMTT(30)
        <5> HIDE DEF f, val
        <5> QED BY <1>1, <5>1
      <4>4. CASE i = 3
        <5>1. f[i] = d /\ f[i - 1] = c /\ kinds[i] = k3 /\ i # 0
          BY <1>2, <4>4, SMTT(30)
        <5> HIDE DEF f, val
        <5> QED BY <1>1, <5>1, Zenon
      <4>5. CASE i = 4
        <5>1. f[i] = e /\ f[i - 1] = d /\ kinds[i] = k4 /\ i # 0
          BY <1>2, <4>5
        <5> HIDE DEF f, val
        <5> QED BY <1>1, <5>1, Zenon
      <4> QED BY <4>1, <4>2, <4>3, <4>4, <4>5, SMTT(30)
    <3> QED BY <1>2, <3>1 DEF Reads
  <2>2. f[n] = val(n)
    OBVIOUS
  <2> HIDE DEF f
  <2>3. InTurn(r0, kinds) = f[Len(kinds)]
    BY <1>2, <2>1, ReadInTurn
  <2> QED BY <1>2, <2>2, <2>3
<1>3. InTurn(r0, <<k1>>) = b
  <2> DEFINE n == 1  kinds == <<k1>>
  <2>1. n \in 1..4 /\ Len(kinds) = n /\ kinds[1] = k1 /\ ~ n >= 2 /\ ~ n >= 3 /\ ~ n >= 4 /\ val(n) = b
    OBVIOUS
  <2> HIDE DEF n, kinds
  <2> QED BY <1>2, <2>1 DEF kinds
<1>4. InTurn(r0, <<k1, k2>>) = c
  <2> DEFINE n == 2  kinds == <<k1, k2>>
  <2>1. n \in 1..4 /\ Len(kinds) = n /\ kinds[1] = k1 /\ kinds[2] = k2 /\ ~ n >= 3 /\ ~ n >= 4 /\ val(n) = c
    OBVIOUS
  <2> HIDE DEF n, kinds
  <2> QED BY <1>2, <2>1 DEF kinds
<1>5. InTurn(r0, <<k1, k2, k3>>) = d
  <2> DEFINE n == 3  kinds == <<k1, k2, k3>>
  <2>1. n \in 1..4 /\ Len(kinds) = n /\ kinds[1] = k1 /\ kinds[2] = k2 /\ kinds[3] = k3 /\ ~ n >= 4 /\ val(n) = d
    OBVIOUS
  <2> HIDE DEF n, kinds
  <2> QED BY <1>2, <2>1 DEF kinds
<1>6. InTurn(r0, <<k1, k2, k3, k4>>) = e
  <2> DEFINE n == 4  kinds == <<k1, k2, k3, k4>>
  <2>1. n \in 1..4 /\ Len(kinds) = n /\ kinds[1] = k1 /\ kinds[2] = k2 /\ kinds[3] = k3 /\ kinds[4] = k4 /\ val(n) = e
    OBVIOUS
  <2> HIDE DEF n, kinds
  <2> QED BY <1>2, <2>1 DEF kinds
<1> QED BY <1>3, <1>4, <1>5, <1>6 DEF b, c, d, e

---------------------------------------------------------------------------
(* Writing. *)

\* A number below MaxLength, written as a word of 4 bytes and read as a length.
LEMMA WordOfNumber ==
    ASSUME NEW x \in Nat, x < MaxLength
    PROVE  Word(x, 4) \in Word32 /\ Length(Word(x, 4)) = x
<1> DEFINE w == Word(x, 4)
<1>1. /\ 256 ^ (4 - 1) = 16777216 /\ 256 ^ (4 - 2) = 65536 /\ 256 ^ (4 - 3) = 256 /\ 256 ^ (4 - 4) = 1
  BY SMT
<1>2. /\ w[1] = (x \div 16777216) % 256 /\ w[2] = (x \div 65536) % 256
      /\ w[3] = (x \div 256) % 256 /\ w[4] = x % 256
  <2>1. \A i \in 1..4 : w[i] = (x \div 256 ^ (4 - i)) % 256
    BY DEF Word
  <2>2. /\ w[1] = (x \div 256 ^ (4 - 1)) % 256 /\ w[2] = (x \div 256 ^ (4 - 2)) % 256
        /\ w[3] = (x \div 256 ^ (4 - 3)) % 256 /\ w[4] = (x \div 256 ^ (4 - 4)) % 256
    BY <2>1
  <2>3. x \div 1 = x
    BY SMT
  <2> HIDE DEF w
  <2> QED BY <1>1, <2>2, <2>3
<1>3. w = [i \in 1..4 |-> w[i]]
  BY DEF Word
<1> HIDE DEF w
<1>4. x < 1073741824
  BY SMT DEF MaxLength
<1>5. \A i \in 1..4 : w[i] \in Byte
  <2>1. \A y \in Nat : y % 256 \in 0..255
    BY SMT
  <2>2. x \div 16777216 \in Nat /\ x \div 65536 \in Nat /\ x \div 256 \in Nat
    BY SMT
  <2>3. w[1] \in 0..255 /\ w[2] \in 0..255 /\ w[3] \in 0..255 /\ w[4] \in 0..255
    BY <1>2, <2>1, <2>2
  <2> QED BY <2>3 DEF Byte
<1>6. w \in Word32
  BY <1>3, <1>5 DEF Word32
<1>7. Length(w) = x
  <2>1. ((((x \div 16777216) % 256) * 256 + ((x \div 65536) % 256)) * 256 + ((x \div 256) % 256)) * 256 + (x % 256) = x
    BY <1>4, SMT
  <2>2. (x \div 16777216) % 256 < 64
    BY <1>4, SMT
  <2>3. ~ (w[1] >= 64)
    <3>1. (x \div 16777216) % 256 \in Nat
      BY SMT
    <3> QED BY <1>2, <2>2, <3>1
  <2>4. Length(w) = ((w[1] * 256 + w[2]) * 256 + w[3]) * 256 + w[4]
    BY <2>3 DEF Length
  <2> QED BY <1>2, <2>1, <2>4
<1> QED BY <1>6, <1>7 DEF w

\* An event's type code as the word the header holds.
LEMMA WordOfCode ==
    ASSUME NEW c \in Byte
    PROVE  Word(c, 4) \in Word32 /\ Word(c, 4)[4] = c /\ ~ Negative(Word(c, 4))
<1> DEFINE w == Word(c, 4)
<1>1. c \in Nat /\ c < MaxLength /\ c < 256
  BY SMT DEF Byte, MaxLength
<1>2. w \in Word32
  BY <1>1, WordOfNumber
<1>3. w[1] = (c \div 256 ^ 3) % 256 /\ w[4] = (c \div 256 ^ 0) % 256
  <2>1. \A i \in 1..4 : w[i] = (c \div 256 ^ (4 - i)) % 256
    BY DEF Word
  <2>2. 4 - 1 = 3 /\ 4 - 4 = 0 /\ 1 \in 1..4 /\ 4 \in 1..4
    BY SMT
  <2> HIDE DEF w
  <2>3. w[1] = (c \div 256 ^ (4 - 1)) % 256 /\ w[4] = (c \div 256 ^ (4 - 4)) % 256
    BY <2>1, <2>2
  <2> QED BY <2>2, <2>3
<1>4. (c \div 256 ^ 3) % 256 = 0 /\ (c \div 256 ^ 0) % 256 = c
  BY <1>1, SMT
<1> HIDE DEF w
<1>5. w[1] = 0 /\ w[4] = c
  BY <1>3, <1>4
<1> QED BY <1>2, <1>5 DEF Negative, w

---------------------------------------------------------------------------
G(x, n) == [buffer |-> x, size |-> n, grows |-> TRUE, error |-> "ok"]

\* MPACK_WRITE_ENCODED puts an encoding behind what the growable writer holds while
\* there is room.
LEMMA WritesEncoded ==
    ASSUME NEW x \in Data, NEW e \in Data, NEW n \in Nat, Len(x) + Len(e) <= n
    PROVE  MPACK_WRITE_ENCODED(G(x, n), e) = G(x \o e, n)
<1> DEFINE w == G(x, n)  y == x \o e
<1>1. w.buffer = x /\ w.size = n
  BY DEF G
<1>2. mpack_writer_buffer_left(w) >= Len(e)
  <2>1. Len(x) \in Nat /\ Len(e) \in Nat
    BY Cut
  <2> HIDE DEF w
  <2>2. mpack_writer_buffer_left(w) = n - Len(x)
    BY <1>1 DEF mpack_writer_buffer_left, mpack_writer_buffer_used
  <2> QED BY <2>1, <2>2
<1>3. MPACK_WRITE_ENCODED(w, e) = Appended(w, e)
  <2> HIDE DEF w
  <2> QED BY <1>2, Zenon DEF MPACK_WRITE_ENCODED
<1>4. Appended(w, e) = [w EXCEPT !.buffer = y]
  <2> HIDE DEF w
  <2> QED BY <1>1 DEF Appended
<1>5. [w EXCEPT !.buffer = y] = G(y, n)
  <2> DEFINE t == TRUE
             r == [buffer |-> x, size |-> n, grows |-> t, error |-> "ok"]
  <2> HIDE DEF y, t
  <2>1. [r EXCEPT !.buffer = y] = [buffer |-> y, size |-> n, grows |-> t, error |-> "ok"]
    OBVIOUS
  <2> QED BY <2>1, Zenon DEF G, t
<1> QED BY <1>3, <1>4, <1>5

\* mpack_writer_destroy hands over what was written.
LEMMA Destroyed ==
    ASSUME NEW x, NEW n
    PROVE  mpack_writer_destroy(G(x, n)) = x
<1> DEFINE w == G(x, n)
<1>1. w.error = "ok" /\ w.buffer = x /\ \A m : [w EXCEPT !.size = m].buffer = x
  BY DEF G
<1> HIDE DEF w
<1>2. mpack_growable_writer_teardown(w).buffer = x
  <2>1. CASE mpack_writer_buffer_used(w) < w.size \div 2
    BY <1>1, <2>1 DEF mpack_growable_writer_teardown
  <2>2. CASE ~ (mpack_writer_buffer_used(w) < w.size \div 2)
    BY <1>1, <2>2 DEF mpack_growable_writer_teardown
  <2> QED BY <2>1, <2>2
<1> QED BY <1>2 DEF mpack_writer_destroy, w

\* mpack_writer_init_growable: nothing is written and the buffer is of its first size.
LEMMA Growable == mpack_writer_init_growable = G(<<>>, BufferSize)
<1> DEFINE t == TRUE  f == FALSE  n == BufferSize
           r == [buffer |-> <<>>, size |-> n, grows |-> f, error |-> "ok"]
<1> HIDE DEF t, f, n
<1>1. [r EXCEPT !.grows = t] = [buffer |-> <<>>, size |-> n, grows |-> t, error |-> "ok"]
  OBVIOUS
<1> QED BY <1>1, Zenon DEF mpack_writer_init_growable, mpack_writer_init, G, t, f, n

\* Appending to a buffer: the order of the calls does not matter.
LEMMA Joined3 == \A a, b, c \in Data : (a \o b) \o c = a \o (b \o c)
<1> SUFFICES ASSUME NEW a \in Data, NEW b \in Data, NEW c \in Data PROVE (a \o b) \o c = a \o (b \o c)
  OBVIOUS
<1>1. a \in Seq(Byte) /\ b \in Seq(Byte) /\ c \in Seq(Byte)
  BY DEF Data
<1>2. a \o (b \o c) = (a \o b) \o c
  BY <1>1, ConcatAssociative, SMTT(30)
<1> QED BY <1>2

\* Appending bytes to bytes.
LEMMA JoinedData == \A a, b \in Data : a \o b \in Data
BY Cut

\* Appending nothing.
LEMMA JoinedEmpty ==
    ASSUME NEW a \in Data
    PROVE  a \o <<>> = a /\ <<>> \o a = a /\ <<>> \in Data /\ Len(<<>>) = 0
BY ConcatEmptySeq DEF Data

\* What is appended does not change the first byte.
LEMMA FirstStays ==
    ASSUME NEW f \in Data, NEW g \in Data, Len(f) >= 1
    PROVE  f \o g \in Data /\ Len(f \o g) = Len(f) + Len(g) /\ (f \o g)[1] = f[1]
<1>1. f \o g \in Data /\ Len(f \o g) = Len(f) + Len(g) /\ Len(f) \in Nat /\ Len(g) \in Nat
  BY Cut
<1>2. 1 \in 1..Len(f) + Len(g) /\ 1 <= Len(f)
  BY <1>1
<1>3. \A i \in 1..Len(f) + Len(g) : (f \o g)[i] = IF i <= Len(f) THEN f[i] ELSE g[i - Len(f)]
  BY ConcatProperties DEF Data
<1> QED BY <1>1, <1>2, <1>3

\* Joined3, for parts given one by one.
LEMMA Assoc ==
    ASSUME NEW a, NEW b, NEW c, a \in Data, b \in Data, c \in Data
    PROVE  (a \o b) \o c = a \o (b \o c)
BY Joined3

\* The header's forms, one after another.
FiveData(a, b, c, d, e) == a \in Data /\ b \in Data /\ c \in Data /\ d \in Data /\ e \in Data
InAnyOrder(a, b, c, d, e) == (((a \o b) \o c) \o d) \o e = a \o (b \o (c \o (d \o (e \o <<>>))))

\* The five parts of a header or a package, joined in either order.
LEMMA FiveJoined == \A a, b, c, d, e : FiveData(a, b, c, d, e) => InAnyOrder(a, b, c, d, e)
<1>1. SUFFICES ASSUME NEW a, NEW b, NEW c, NEW d, NEW e,
                      a \in Data /\ b \in Data /\ c \in Data /\ d \in Data /\ e \in Data
               PROVE  InAnyOrder(a, b, c, d, e)
  BY Zenon DEF FiveData
<1>2. \A f, g \in Data : f \o g \in Data
  BY JoinedData
<1> DEFINE x == a \o b  y == d \o e  z == x \o c  t == c \o y
<1>3. x \in Data
  BY <1>1, <1>2
<1>4. y \in Data
  BY <1>1, <1>2
<1>5. z \in Data
  BY <1>1, <1>2, <1>3
<1>6. t \in Data
  BY <1>1, <1>2, <1>4
<1> HIDE DEF x, y, z, t
<1>7. (z \o d) \o e = z \o (d \o e)
  <2>1. z \in Data /\ d \in Data /\ e \in Data
    BY <1>1, <1>5
  <2> QED BY <2>1, Assoc
<1>8. (x \o c) \o y = x \o (c \o y)
  <2>1. x \in Data /\ c \in Data /\ y \in Data
    BY <1>1, <1>3, <1>4
  <2> QED BY <2>1, Assoc
<1>9. (a \o b) \o t = a \o (b \o t)
  <2>1. a \in Data /\ b \in Data /\ t \in Data
    BY <1>1, <1>6
  <2> QED BY <2>1, Assoc
<1>10. e \o <<>> = e
  BY <1>1, JoinedEmpty
<1> DEFINE C(f, g) == f \o g
<1>11. /\ C(C(z, d), e) = C(z, C(d, e)) /\ C(C(x, c), y) = C(x, C(c, y))
       /\ C(C(a, b), t) = C(a, C(b, t)) /\ C(e, <<>>) = e
  BY <1>7, <1>8, <1>9, <1>10
<1>12. x = C(a, b) /\ y = C(d, e) /\ z = C(x, c) /\ t = C(c, y)
  BY DEF x, y, z, t
<1> HIDE DEF C
<1>13. C(C(C(C(a, b), c), d), e) = C(a, C(b, C(c, C(d, C(e, <<>>)))))
  BY <1>11, <1>12
<1> QED BY <1>13 DEF C, InAnyOrder

\* mpack_write_u32 within the room of the writer's buffer.
LEMMA AddsWord ==
    ASSUME NEW x \in Data, NEW n \in Nat, NEW w \in Word32, Len(x) >= 1, Len(x) + 5 <= n
    PROVE  /\ mpack_write_u32(G(x, n), w) = G(x \o EncodedUnsigned(w), n)
           /\ x \o EncodedUnsigned(w) \in Data
           /\ Len(x \o EncodedUnsigned(w)) \in Len(x) + 1..Len(x) + 5
           /\ (x \o EncodedUnsigned(w))[1] = x[1]
<1> DEFINE e == EncodedUnsigned(w)
<1>1. e \in Data /\ Len(e) \in 1..5
  <2>1. <<>> \in Data
    BY DEF Data
  <2> QED BY <2>1, EncodedForm, UnsignedForm
<1> HIDE DEF e
<1> DEFINE k == Len(x)  l == Len(e)  m == Len(x \o e)
<1>2. k \in Nat /\ m = k + l
  BY <1>1, Cut, Zenon
<1>3. MPACK_WRITE_ENCODED(G(x, n), e) = G(x \o e, n)
  <2>1. k >= 1 /\ k + 5 <= n /\ l \in 1..5
    BY <1>1
  <2> HIDE DEF k, l, m
  <2>2. k + l <= n
    BY <1>2, <2>1
  <2> QED BY <1>1, <2>2, WritesEncoded, Zenon DEF k, l
<1>4. x \o e \in Data /\ (x \o e)[1] = x[1]
  BY <1>1, FirstStays, Zenon
<1>5. m \in k + 1..k + 5
  <2>1. l \in 1..5
    BY <1>1
  <2> HIDE DEF k, l, m
  <2> QED BY <1>2, <2>1
<1> QED BY <1>3, <1>4, <1>5 DEF mpack_write_u32, e

\* What a header writer with four words makes: it needs no more room than there is.
FourWriter(u, v, x, y) ==
    mpack_writer_destroy(
        mpack_write_u32(mpack_write_u32(mpack_write_u32(mpack_write_u32(
            mpack_start_array(mpack_writer_init_growable, 4), u), v), x), y))

FourForms(u, v, x, y) ==
    EncodedUnsigned(u) \o (EncodedUnsigned(v) \o (EncodedUnsigned(x) \o (EncodedUnsigned(y) \o <<>>)))

\* A header: the tag of an array of four, and its elements.
HeaderBytes(h, t) == h = <<148>> \o t /\ h \in Data /\ Len(h) \in 5..21 /\ h[1] = 148

\* The four words of a header are written into the writer's first buffer, which never
\* grows for them.
LEMMA FourWords ==
    ASSUME NEW u \in Word32, NEW v \in Word32, NEW x \in Word32, NEW y \in Word32
    PROVE  HeaderBytes(FourWriter(u, v, x, y), FourForms(u, v, x, y))
<1> DEFINE E(w) == EncodedUnsigned(w)
<1>1. \A w \in Word32 : E(w) \in Data
  <2>1. <<>> \in Data
    BY DEF Data
  <2> QED BY <2>1, EncodedForm, UnsignedForm
<1> HIDE DEF E
<1>2. PICK a \in Data : a = <<148>> /\ Len(a) = 1 /\ a[1] = 148
  BY One, SMTT(30) DEF Byte
<1>3. EncodedArray(4) = a
  BY <1>2 DEF EncodedArray, EncodedCount
<1>4. PICK N \in Nat : N >= 32 /\ N = BufferSize
  BY MPackAssumption
<1>5. mpack_start_array(mpack_writer_init_growable, 4) = G(a, N)
  <2>1. PICK z \in Data : z = <<>> /\ Len(z) = 0 /\ z \o a = a
    BY <1>2, JoinedEmpty
  <2>2. MPACK_WRITE_ENCODED(G(z, N), a) = G(z \o a, N)
    <3>1. Len(z) + Len(a) <= N
      BY <1>2, <1>4, <2>1
    <3> QED BY <3>1, WritesEncoded, Zenon
  <2> QED BY <1>3, <1>4, <2>1, <2>2, Growable DEF mpack_start_array
<1> DEFINE Short == 1..16
<1>6. ASSUME NEW f \in Data, NEW w \in Word32, Len(f) \in Short, f[1] = 148
      PROVE  \E g \in Data : /\ g = f \o E(w) /\ Len(g) \in Len(f) + 1..Len(f) + 5 /\ g[1] = 148
                              /\ mpack_write_u32(G(f, N), w) = G(g, N)
  <2>1. Len(f) >= 1 /\ Len(f) + 5 <= N
    <3> DEFINE k == Len(f)
    <3>1. k \in 1..16
      BY <1>6 DEF Short
    <3> HIDE DEF k
    <3>2. k >= 1 /\ k + 5 <= N
      BY <1>4, <3>1
    <3> QED BY <3>2 DEF k
  <2>2. PICK g \in Data : g = f \o E(w)
    BY <1>1, JoinedData
  <2>3. /\ mpack_write_u32(G(f, N), w) = G(g, N)
        /\ Len(g) \in Len(f) + 1..Len(f) + 5 /\ g[1] = f[1]
    BY <2>1, <2>2, AddsWord DEF E
  <2> QED BY <1>6, <2>2, <2>3
<1> HIDE DEF Short
<1>7. PICK b \in Data : /\ b = a \o E(u) /\ Len(b) \in 2..6 /\ b[1] = 148
                        /\ mpack_write_u32(G(a, N), u) = G(b, N)
  <2>1. Len(a) \in Short /\ a[1] = 148 /\ u \in Word32
    BY <1>2 DEF Short
  <2>2. PICK g \in Data : /\ g = a \o E(u) /\ Len(g) \in Len(a) + 1..Len(a) + 5 /\ g[1] = 148
                          /\ mpack_write_u32(G(a, N), u) = G(g, N)
    BY <1>6, <2>1
  <2>3. Len(g) \in 2..6
    BY <1>2, <2>2
  <2> QED BY <2>2, <2>3
<1>8. PICK c \in Data : /\ c = b \o E(v) /\ Len(c) \in 3..11 /\ c[1] = 148
                        /\ mpack_write_u32(G(b, N), v) = G(c, N)
  <2>1. Len(b) \in Short /\ b[1] = 148 /\ v \in Word32
    BY <1>7 DEF Short
  <2>2. PICK g \in Data : /\ g = b \o E(v) /\ Len(g) \in Len(b) + 1..Len(b) + 5 /\ g[1] = 148
                          /\ mpack_write_u32(G(b, N), v) = G(g, N)
    BY <1>6, <2>1
  <2>3. Len(g) \in 3..11
    <3> DEFINE k == Len(b)  l == Len(g)
    <3>1. k \in 2..6 /\ l \in k + 1..k + 5
      BY <1>7, <2>2
    <3> HIDE DEF k, l
    <3>2. l \in 3..11
      BY <3>1
    <3> QED BY <3>2 DEF l
  <2> QED BY <2>2, <2>3
<1>9. PICK d \in Data : /\ d = c \o E(x) /\ Len(d) \in 4..16 /\ d[1] = 148
                        /\ mpack_write_u32(G(c, N), x) = G(d, N)
  <2>1. Len(c) \in Short /\ c[1] = 148 /\ x \in Word32
    BY <1>8 DEF Short
  <2>2. PICK g \in Data : /\ g = c \o E(x) /\ Len(g) \in Len(c) + 1..Len(c) + 5 /\ g[1] = 148
                          /\ mpack_write_u32(G(c, N), x) = G(g, N)
    BY <1>6, <2>1
  <2>3. Len(g) \in 4..16
    <3> DEFINE k == Len(c)  l == Len(g)
    <3>1. k \in 3..11 /\ l \in k + 1..k + 5
      BY <1>8, <2>2
    <3> HIDE DEF k, l
    <3>2. l \in 4..16
      BY <3>1
    <3> QED BY <3>2 DEF l
  <2> QED BY <2>2, <2>3
<1>10. PICK e \in Data : /\ e = d \o E(y) /\ Len(e) \in 5..21 /\ e[1] = 148
                        /\ mpack_write_u32(G(d, N), y) = G(e, N)
  <2>1. Len(d) \in Short /\ d[1] = 148 /\ y \in Word32
    BY <1>9 DEF Short
  <2>2. PICK g \in Data : /\ g = d \o E(y) /\ Len(g) \in Len(d) + 1..Len(d) + 5 /\ g[1] = 148
                          /\ mpack_write_u32(G(d, N), y) = G(g, N)
    BY <1>6, <2>1
  <2>3. Len(g) \in 5..21
    <3> DEFINE k == Len(d)  l == Len(g)
    <3>1. k \in 4..16 /\ l \in k + 1..k + 5
      BY <1>9, <2>2
    <3> HIDE DEF k, l
    <3>2. l \in 5..21
      BY <3>1
    <3> QED BY <3>2 DEF l
  <2> QED BY <2>2, <2>3
<1>11. e = a \o (E(u) \o (E(v) \o (E(x) \o (E(y) \o <<>>))))
  <2>1. PICK p : p = E(u) /\ p \in Data
    BY <1>1
  <2>2. PICK q : q = E(v) /\ q \in Data
    BY <1>1
  <2>3. PICK r : r = E(x) /\ r \in Data
    BY <1>1
  <2>4. PICK s : s = E(y) /\ s \in Data
    BY <1>1
  <2>5. FiveData(a, p, q, r, s)
    BY <2>1, <2>2, <2>3, <2>4 DEF FiveData
  <2>6. (((a \o p) \o q) \o r) \o s = a \o (p \o (q \o (r \o (s \o <<>>))))
    <3>1. InAnyOrder(a, p, q, r, s)
      BY <2>5, FiveJoined
    <3> QED BY <3>1, Zenon DEF InAnyOrder
  <2>7. p = E(u) /\ q = E(v) /\ r = E(x) /\ s = E(y) /\ b = a \o E(u) /\ c = b \o E(v) /\ d = c \o E(x)
        /\ e = d \o E(y)
    BY <1>7, <1>8, <1>9, <1>10, <2>1, <2>2, <2>3, <2>4
  <2> QED BY <2>6, <2>7, Zenon
<1>12. mpack_writer_destroy(
           mpack_write_u32(mpack_write_u32(mpack_write_u32(mpack_write_u32(
               mpack_start_array(mpack_writer_init_growable, 4), u), v), x), y)) = e
  <2>1. mpack_write_u32(mpack_start_array(mpack_writer_init_growable, 4), u) = G(b, N)
    BY <1>5, <1>7, Zenon
  <2>2. mpack_write_u32(mpack_write_u32(mpack_start_array(mpack_writer_init_growable, 4), u), v) = G(c, N)
    BY <2>1, <1>8, Zenon
  <2>3. mpack_write_u32(mpack_write_u32(mpack_write_u32(
            mpack_start_array(mpack_writer_init_growable, 4), u), v), x) = G(d, N)
    BY <2>2, <1>9, Zenon
  <2>4. mpack_write_u32(mpack_write_u32(mpack_write_u32(mpack_write_u32(
            mpack_start_array(mpack_writer_init_growable, 4), u), v), x), y) = G(e, N)
    BY <2>3, <1>10, Zenon
  <2>5. mpack_writer_destroy(G(e, N)) = e
    BY Destroyed
  <2> QED BY <2>4, <2>5, Zenon
<1>13. FourWriter(u, v, x, y) = e
  BY <1>12, Zenon DEF FourWriter
<1>14. e = <<148>> \o FourForms(u, v, x, y)
  BY <1>2, <1>11, Zenon DEF FourForms, E
<1> QED BY <1>10, <1>13, <1>14, Zenon DEF HeaderBytes

---------------------------------------------------------------------------
(* Reading a header. *)

\* The tag of an array of at most 15 elements.
LEMMA ArrayHead ==
    ASSUME NEW b \in 144..159, NEW t \in Data
    PROVE  /\ mpack_expect_array(Ok(<<b>> \o t)).r = Ok(t)
           /\ mpack_expect_array(Ok(<<b>> \o t)).v = b % 16
           /\ <<b>> \o t \in Data
<1> DEFINE k == b % 16  z == Filled(3, 0)
<1>1. b \in Byte /\ TypeOf(b) = "array" /\ SizeAfter(b) = 0
  BY Tags
<1>2. k \in 0..15 /\ k \in Byte
  <2>1. b % 16 \in 0..15
    BY SMT
  <2> QED BY <2>1 DEF Byte
<1>3. PICK e \in Data : e = <<>> /\ Len(e) = 0
  BY JoinedEmpty
<1>4. PICK h \in Data : h = <<b>> /\ h \o e = h
  <2>1. <<b>> \in Data
    BY <1>1, One
  <2> QED BY <1>3, <2>1, JoinedEmpty
<1>5. mpack_read_tag(Ok(h \o t)) = Result(Ok(t), [type |-> "array", v |-> Widened("array", Inline(b))])
  <2>1. Len(e) = SizeAfter(b) /\ TypeOf(b) \notin {"ext", "reserved"}
    BY <1>1, <1>3
  <2>2. mpack_read_tag(Ok((<<b>> \o e) \o t))
               = Result(Ok(t), [type |-> TypeOf(b), v |-> Widened(TypeOf(b), IF Len(e) = 0 THEN Inline(b) ELSE e)])
    BY <1>1, <2>1, ReadWhole
  <2> QED BY <1>1, <1>3, <1>4, <2>2
<1>6. Widened("array", Inline(b)) = z \o <<k>>
  <2>1. Inline(b) = <<k>>
    BY <1>1 DEF Inline
  <2>2. Len(<<k>>) = 1
    OBVIOUS
  <2> HIDE DEF k
  <2>3. ZeroExtended(<<k>>, 4) = Filled(3, 0) \o <<k>>
    BY <2>2 DEF ZeroExtended
  <2>4. Widened("array", Inline(b)) = ZeroExtended(<<k>>, 4)
    BY <2>1, Zenon DEF Widened
  <2> QED BY <2>3, <2>4
<1>7. Length(z \o <<k>>) = k
  <2> DEFINE w == z \o <<k>>
  <2>1. z = <<0, 0, 0>>
    <3>1. Filled(3, 0) = [i \in 1..3 |-> 0]
      BY DEF Filled
    <3> QED BY <3>1
  <2>2. w[1] = 0 /\ w[2] = 0 /\ w[3] = 0 /\ w[4] = k
    <3> HIDE DEF k, z
    <3> QED BY <2>1
  <2> HIDE DEF w, k
  <2>3. Length(w) = k
    BY <1>2, <2>2 DEF Length
  <2> QED BY <2>3 DEF w
<1>8. mpack_expect_array(Ok(h \o t)) = Result(Ok(t), k)
  <2> DEFINE a == "array"  v == Widened("array", Inline(b))  r == Ok(h \o t)
             tag == Result(Ok(t), [type |-> a, v |-> v])
  <2>1. mpack_read_tag(r) = tag
    BY <1>5
  <2>2. tag.r = Ok(t) /\ tag.v.type = "array" /\ tag.v.v = v
    BY DEF Result
  <2>3. Length(v) = k
    BY <1>6, <1>7
  <2> HIDE DEF k, v, a, r
  <2>4. CountOf("array", r) = Expected(tag, tag.v.type = "array", Length(tag.v.v), 0)
    <3> HIDE DEF tag
    <3> QED BY <2>1, Zenon DEF CountOf
  <2> HIDE DEF tag
  <2>5. Expected(tag, tag.v.type = "array", Length(tag.v.v), 0) = Result(Ok(t), k)
    BY <2>2, <2>3, Zenon DEF Expected
  <2> QED BY <2>4, <2>5, Zenon DEF mpack_expect_array, r
<1>9. h \o t \in Data
  BY JoinedData
<1> QED BY <1>4, <1>8, <1>9 DEF Result

\* The reader of a header: four words, each of which may be too large.
LEMMA FourRead ==
    ASSUME NEW u \in Word32, NEW v \in Word32, NEW x \in Word32, NEW y \in Word32
    PROVE  LET read == InTurn(Ok(FourForms(u, v, x, y)), <<"i32", "i32", "i32", "i32">>)
           IN  /\ FourForms(u, v, x, y) \in Data
               /\ ~ Negative(u) /\ ~ Negative(v) /\ ~ Negative(x) /\ ~ Negative(y) =>
                     read = Result(Ok(<<>>), <<u, v, x, y>>)
               /\ Negative(u) \/ Negative(v) \/ Negative(x) \/ Negative(y) => read.r.error # "ok"
<1>0. <<>> \in Data
  BY DEF Data
<1>1. PICK t4 : t4 \in Data /\ t4 = <<>>
  BY <1>0
<1>14. t4 \in Data
  BY <1>1
<1>2. \A w \in Word32 : EncodedUnsigned(w) \in UnsignedForms(w)
  BY EncodedForm
<1>3. \A w \in Word32, t \in Data : EncodedUnsigned(w) \o t \in Data
  BY <1>1, <1>2, UnsignedForm, JoinedData
<1>4. PICK t3 : t3 \in Data /\ t3 = EncodedUnsigned(y) \o t4
  BY <1>1, <1>3
<1>5. PICK t2 : t2 \in Data /\ t2 = EncodedUnsigned(x) \o t3
  BY <1>4, <1>3
<1>6. PICK t1 : t1 \in Data /\ t1 = EncodedUnsigned(v) \o t2
  BY <1>5, <1>3
<1>7. PICK t0 : t0 \in Data /\ t0 = EncodedUnsigned(u) \o t1
  BY <1>6, <1>3
<1>15. t0 = FourForms(u, v, x, y) /\ t0 \in Data
  BY <1>1, <1>4, <1>5, <1>6, <1>7, Zenon DEF FourForms
<1> DEFINE i == "i32"  r == Ok(t0)
           x1 == Expect(i, r)  x2 == Expect(i, x1.r)  x3 == Expect(i, x2.r)  x4 == Expect(i, x3.r)
<1>8. InTurn(r, <<i, i, i, i>>) = Result(x4.r, <<x1.v, x2.v, x3.v, x4.v>>)
  BY FourInTurn, Zenon
<1>9. \A q : Expect(i, q) = mpack_expect_i32(q)
  BY DEF Expect
<1> HIDE DEF i
<1>10. x1 = mpack_expect_i32(Ok(t0)) /\ x2 = mpack_expect_i32(x1.r) /\ x3 = mpack_expect_i32(x2.r)
       /\ x4 = mpack_expect_i32(x3.r)
  BY <1>9
<1> HIDE DEF x1, x2, x3, x4
<1>11. ASSUME NEW w \in Word32, NEW t \in Data
       PROVE  /\ ~ Negative(w) => /\ mpack_expect_i32(Ok(EncodedUnsigned(w) \o t)).r = Ok(t)
                                  /\ mpack_expect_i32(Ok(EncodedUnsigned(w) \o t)).v = w
              /\ Negative(w) => mpack_expect_i32(Ok(EncodedUnsigned(w) \o t)).r.error # "ok"
  BY <1>2, ExpectsHeader DEF Result
<1>12. CASE ~ Negative(u) /\ ~ Negative(v) /\ ~ Negative(x) /\ ~ Negative(y)
  <2>1. x1.r = Ok(t1) /\ x1.v = u
    BY <1>6, <1>7, <1>10, <1>11, <1>12
  <2>2. x2.r = Ok(t2) /\ x2.v = v
    BY <1>5, <1>6, <1>10, <1>11, <1>12, <2>1
  <2>3. x3.r = Ok(t3) /\ x3.v = x
    BY <1>4, <1>5, <1>10, <1>11, <1>12, <2>2
  <2>4. x4.r = Ok(t4) /\ x4.v = y
    BY <1>14, <1>4, <1>10, <1>11, <1>12, <2>3
  <2>5. InTurn(r, <<i, i, i, i>>) = Result(Ok(t4), <<u, v, x, y>>)
    BY <1>8, <2>1, <2>2, <2>3, <2>4
  <2> QED BY <1>1, <1>15, <1>12, <2>5 DEF i, r
<1>13. CASE Negative(u) \/ Negative(v) \/ Negative(x) \/ Negative(y)
  <2>1. x4.r.error # "ok"
    <3>1. CASE Negative(u)
      <4>1. x1.r.error # "ok"
        BY <1>6, <1>7, <1>10, <1>11, <3>1
      <4>2. x2.r.error # "ok"
        BY <1>10, <4>1, ErrorStays
      <4>3. x3.r.error # "ok"
        BY <1>10, <4>2, ErrorStays
      <4> QED BY <1>10, <4>3, ErrorStays
    <3>2. CASE ~ Negative(u) /\ Negative(v)
      <4>1. x1.r = Ok(t1)
        BY <1>6, <1>7, <1>10, <1>11, <3>2
      <4>2. x2.r.error # "ok"
        BY <1>5, <1>6, <1>10, <1>11, <3>2, <4>1
      <4>3. x3.r.error # "ok"
        BY <1>10, <4>2, ErrorStays
      <4> QED BY <1>10, <4>3, ErrorStays
    <3>3. CASE ~ Negative(u) /\ ~ Negative(v) /\ Negative(x)
      <4>1. x1.r = Ok(t1)
        BY <1>6, <1>7, <1>10, <1>11, <3>3
      <4>2. x2.r = Ok(t2)
        BY <1>5, <1>6, <1>10, <1>11, <3>3, <4>1
      <4>3. x3.r.error # "ok"
        BY <1>4, <1>5, <1>10, <1>11, <3>3, <4>2
      <4> QED BY <1>10, <4>3, ErrorStays
    <3>4. CASE ~ Negative(u) /\ ~ Negative(v) /\ ~ Negative(x) /\ Negative(y)
      <4>1. x1.r = Ok(t1)
        BY <1>6, <1>7, <1>10, <1>11, <3>4
      <4>2. x2.r = Ok(t2)
        BY <1>5, <1>6, <1>10, <1>11, <3>4, <4>1
      <4>3. x3.r = Ok(t3)
        BY <1>4, <1>5, <1>10, <1>11, <3>4, <4>2
      <4> QED BY <1>14, <1>4, <1>10, <1>11, <3>4, <4>3
    <3> QED BY <1>13, <3>1, <3>2, <3>3, <3>4
  <2>2. InTurn(r, <<i, i, i, i>>).r = x4.r
    BY <1>8 DEF Result
  <2> QED BY <1>15, <1>13, <2>1, <2>2 DEF i, r
<1> QED BY <1>12, <1>13, <1>15

---------------------------------------------------------------------------
(* The header. *)

\* The fields of a package's header.
Headed(p) == p.uid \in Word32 /\ p.index \in Word32 /\ p.code \in Byte

\* What ya_serialize_event's header is: an array of four and its words, in 5 to 21
\* bytes.
LEMMA HeaderForm ==
    ASSUME NEW p, Headed(p)
    PROVE  LET h == PhoneHeader(p)
           IN  /\ h = <<148>> \o FourForms(p.uid, Word(p.code, 4), Word(1, 4), p.index)
               /\ h \in Data /\ Len(h) \in 5..21 /\ h[1] = 148
<1>1. Word(p.code, 4) \in Word32
  BY WordOfCode DEF Headed
<1>2. Word(1, 4) \in Word32
  <2>1. 1 \in Byte
    BY DEF Byte
  <2> QED BY <2>1, WordOfCode
<1>3. Direction.REQUEST = 1
  BY DEF Direction
<1>4. p.uid \in Word32 /\ p.index \in Word32
  BY DEF Headed
<1> DEFINE u == p.uid  v == Word(p.code, 4)  x == Word(1, 4)  y == p.index
<1>5. PhoneHeader(p) = FourWriter(u, v, x, y)
  BY <1>3, Zenon DEF PhoneHeader, FourWriter
<1>6. u \in Word32 /\ v \in Word32 /\ x \in Word32 /\ y \in Word32
  BY <1>1, <1>2, <1>4
<1> HIDE DEF u, v, x, y
<1>7. HeaderBytes(FourWriter(u, v, x, y), FourForms(u, v, x, y))
  BY <1>6, FourWords
<1> QED BY <1>5, <1>7, Zenon DEF u, v, x, y, HeaderBytes

HeaderOf(p) == [ok |-> TRUE, uid |-> p.uid, type |-> p.code, direction |-> 1, index |-> p.index]

\* ya_parse_event_header reads the header back, unless its uid or its index is one it
\* takes for a negative number.
LEMMA HeaderRead ==
    ASSUME NEW p, Headed(p), NEW rest \in Data
    PROVE  ya_parse_event_header(PhoneHeader(p) \o rest, Len(PhoneHeader(p)))
               = IF Readable(p) THEN HeaderOf(p) ELSE Failure
<1> DEFINE h == PhoneHeader(p)  n == Len(PhoneHeader(p))
           u == p.uid  v == Word(p.code, 4)  x == Word(1, 4)  y == p.index
           t == FourForms(u, v, x, y)
           k == <<"i32", "i32", "i32", "i32">>
<1>1. h = <<148>> \o t /\ h \in Data /\ n \in 5..21
  BY HeaderForm
<1>2. u \in Word32 /\ v \in Word32 /\ x \in Word32 /\ y \in Word32
      /\ v[4] = p.code /\ x[4] = 1 /\ ~ Negative(v) /\ ~ Negative(x)
  <2>1. 1 \in Byte
    BY DEF Byte
  <2> QED BY <2>1, WordOfCode DEF Headed
<1> HIDE DEF u, v, x, y
<1>3. /\ ~ Negative(u) /\ ~ Negative(y) => InTurn(Ok(t), k) = Result(Ok(<<>>), <<u, v, x, y>>)
      /\ Negative(u) \/ Negative(y) => InTurn(Ok(t), k).r.error # "ok"
      /\ t \in Data
  BY <1>2, FourRead
<1>4. t \in Data
  BY <1>3
<1> HIDE DEF t, k
<1>5. mpack_expect_array(Ok(h)).r = Ok(t) /\ mpack_expect_array(Ok(h)).v = 4
  <2>1. 148 \in 144..159 /\ 148 % 16 = 4
    BY SMT
  <2> DEFINE b == 148
  <2>2. b \in 144..159 /\ b % 16 = 4 /\ h = <<b>> \o t
    BY <1>1, <2>1
  <2> HIDE DEF b, h
  <2> QED BY <1>4, <2>2, ArrayHead
<1>6. SubSeq(h \o rest, 1, n) = h /\ Len(h \o rest) = n + Len(rest) /\ Len(rest) \in Nat
  BY <1>1, Cut
<1>7. ~ (n = 0 \/ Len(h \o rest) < n)
  <2> DEFINE m == Len(h \o rest)  l == Len(rest)
  <2>1. m = n + l /\ l \in Nat /\ n \in 5..21
    BY <1>1, <1>6
  <2> HIDE DEF m, n, l
  <2>2. ~ (n = 0 \/ m < n)
    BY <2>1
  <2> QED BY <2>2 DEF m
<1>8. mpack_reader_init_data(SubSeq(h \o rest, 1, n)) = Ok(h)
  BY <1>6 DEF mpack_reader_init_data, Ok
<1> DEFINE buf == h \o rest
           read == InTurn(Ok(t), k)
<1>9. ya_parse_event_header(buf, n) =
         IF n = 0 \/ Len(buf) < n \/ read.r.error # "ok" THEN Failure
         ELSE [ok |-> TRUE, uid |-> read.v[1], type |-> read.v[2][4],
               direction |-> read.v[3][4], index |-> read.v[4]]
  <2> DEFINE a == mpack_expect_array(Ok(h))
             four == IF a.v = 4 THEN a.r ELSE mpack_reader_flag_error(a.r, "type")
             of(q) == IF n = 0 \/ Len(buf) < n \/ q.r.error # "ok" THEN Failure
                      ELSE [ok |-> TRUE, uid |-> q.v[1], type |-> q.v[2][4],
                            direction |-> q.v[3][4], index |-> q.v[4]]
  <2>1. four = Ok(t)
    BY <1>5
  <2> HIDE DEF n, h, buf, a, read
  <2>2. ya_parse_event_header(buf, n) =
           LET m == mpack_expect_array(mpack_reader_init_data(SubSeq(buf, 1, n)))
           IN  of(InTurn(IF m.v = 4 THEN m.r ELSE mpack_reader_flag_error(m.r, "type"), k))
    BY Zenon DEF ya_parse_event_header, k
  <2>3. mpack_reader_init_data(SubSeq(buf, 1, n)) = Ok(h)
    BY <1>8 DEF buf
  <2> HIDE DEF of
  <2>4. ya_parse_event_header(buf, n) = of(InTurn(four, k))
    BY <2>2, <2>3, Zenon DEF a, four
  <2>5. ya_parse_event_header(buf, n) = of(read)
    BY <2>1, <2>4, Zenon DEF read
  <2> QED BY <2>5, Zenon DEF of
<1>10. CASE ~ Negative(u) /\ ~ Negative(y)
  <2>1. read.r.error = "ok" /\ read.v = <<u, v, x, y>>
    BY <1>3, <1>10 DEF Result, Ok
  <2>2. read.v[1] = u /\ read.v[2] = v /\ read.v[3] = x /\ read.v[4] = y
    <3> HIDE DEF read
    <3> QED BY <2>1
  <2>3. Readable(p)
    BY <1>10 DEF Readable, u, y
  <2> HIDE DEF read, n, h, buf
  <2>4. ya_parse_event_header(buf, n) =
              [ok |-> TRUE, uid |-> read.v[1], type |-> read.v[2][4],
               direction |-> read.v[3][4], index |-> read.v[4]]
    <3>1. ~ (n = 0 \/ Len(buf) < n \/ read.r.error # "ok")
      BY <1>7, <2>1 DEF buf
    <3> QED BY <1>9, <3>1, Zenon
  <2>5. read.v[1] = p.uid /\ read.v[2][4] = p.code /\ read.v[3][4] = 1 /\ read.v[4] = p.index
    BY <1>2, <2>2 DEF u, y
  <2>6. ya_parse_event_header(buf, n) = HeaderOf(p)
    BY <2>4, <2>5, Zenon DEF HeaderOf
  <2> QED BY <2>3, <2>6, Zenon DEF buf, n, h
<1>11. CASE Negative(u) \/ Negative(y)
  <2>1. read.r.error # "ok"
    BY <1>3, <1>11
  <2>2. ~ Readable(p)
    BY <1>11 DEF Readable, u, y
  <2> HIDE DEF read, n, h, buf
  <2>3. ya_parse_event_header(buf, n) = Failure
    BY <1>9, <2>1, Zenon
  <2> QED BY <2>2, <2>3, Zenon DEF buf, n, h
<1> QED BY <1>10, <1>11

---------------------------------------------------------------------------
\* The first bytes of a buffer as a word.
LEMMA FirstWord ==
    ASSUME NEW w \in Word32, NEW d \in Data
    PROVE  to_uint32(w \o d, 0) = w
<1>1. w \in Data /\ Len(w) = 4 /\ \A i \in 1..4 : w[i] \in Byte
  BY Word4
<1>2. \A i \in 1..4 + Len(d) : (w \o d)[i] = IF i <= Len(w) THEN w[i] ELSE d[i - Len(w)]
  <2>1. w \in Seq(Byte) /\ d \in Seq(Byte)
    BY <1>1 DEF Data
  <2>2. \A i \in 1..Len(w) + Len(d) : (w \o d)[i] = IF i <= Len(w) THEN w[i] ELSE d[i - Len(w)]
    BY <2>1, ConcatProperties
  <2>3. Len(w) = 4
    BY <1>1
  <2> QED BY <2>2, <2>3, Zenon
<1>3. Len(w \o d) = 4 + Len(d) /\ Len(d) \in Nat
  BY <1>1, Cut
<1>4. \A i \in 1..4 : (w \o d)[i] = w[i] /\ 0 + i <= Len(w \o d) /\ 0 + i = i
  <2> DEFINE l == Len(d)  m == Len(w \o d)  f == w \o d
  <2>1. l \in Nat /\ m = 4 + l /\ \A i \in 1..4 + l : f[i] = IF i <= 4 THEN w[i] ELSE d[i - 4]
    BY <1>1, <1>2, <1>3
  <2> HIDE DEF l, m, f
  <2>2. \A i \in 1..4 : f[i] = w[i] /\ 0 + i <= m /\ 0 + i = i
    BY <2>1
  <2> QED BY <2>2 DEF f, m
<1> DEFINE f == w \o d
<1> HIDE DEF f
<1>5. to_uint32(f, 0) = [i \in 1..4 |-> w[i]]
  BY <1>4 DEF to_uint32, f
<1>6. w = [i \in 1..4 |-> w[i]]
  BY DEF Word32
<1> QED BY <1>5, <1>6 DEF f

---------------------------------------------------------------------------
(* Packages and the pieces of them that have arrived. *)

\* What is written of a package and what comes after it, piece by piece.
Pieces5(x, w, v, h, b, rest) == x = w \o (v \o (h \o (b \o rest)))

\* A package is its sizes, its header and its body.
LEMMA FrameForm ==
    ASSUME NEW h \in Data, NEW b \in Data, NEW rest \in Data, Len(h) + Len(b) + 4 < MaxLength
    PROVE  /\ Combined(h, b) \in Data /\ Len(Combined(h, b)) = Len(h) + Len(b) + 8
           /\ Combined(h, b) \o rest \in Data /\ b \o rest \in Data /\ h \o (b \o rest) \in Data
           /\ Word(Len(h) + Len(b) + 4, 4) \in Word32 /\ Length(Word(Len(h) + Len(b) + 4, 4)) = Len(h) + Len(b) + 4
           /\ Word(Len(h), 4) \in Word32 /\ Length(Word(Len(h), 4)) = Len(h)
           /\ Pieces5(Combined(h, b) \o rest, Word(Len(h) + Len(b) + 4, 4), Word(Len(h), 4), h, b, rest)
<1> DEFINE k == Len(h)  l == Len(b)  w == Word(k + l + 4, 4)  v == Word(k, 4)
<1>1. k \in Nat /\ l \in Nat
  BY Cut
<1>2. k + l + 4 < MaxLength /\ k < MaxLength /\ k + l + 4 \in Nat
  <2>1. k + l + 4 < MaxLength
    OBVIOUS
  <2>2. MaxLength \in Nat
    BY SMT DEF MaxLength
  <2> HIDE DEF k, l
  <2> QED BY <1>1, <2>1, <2>2
<1>3. w \in Word32 /\ Length(w) = k + l + 4
  <2> DEFINE n == k + l + 4
  <2>1. n \in Nat /\ n < MaxLength
    BY <1>2
  <2> HIDE DEF n
  <2>2. Word(n, 4) \in Word32 /\ Length(Word(n, 4)) = n
    BY <2>1, WordOfNumber
  <2> QED BY <2>2 DEF n
<1>4. v \in Word32 /\ Length(v) = k
  <2> HIDE DEF k
  <2> QED BY <1>1, <1>2, WordOfNumber
<1>5. w \in Data /\ Len(w) = 4 /\ v \in Data /\ Len(v) = 4
  <2> HIDE DEF w, v
  <2> QED BY <1>3, <1>4, Word4
<1> HIDE DEF w, v
<1> DEFINE x == w \o v  y == x \o h  z == y \o b
<1>6. x \in Data /\ Len(x) = 8
  <2>1. w \o v \in Data /\ Len(w \o v) = Len(w) + Len(v)
    BY <1>5, Cut, Zenon
  <2> HIDE DEF x
  <2>2. x \in Data /\ Len(x) = Len(w) + Len(v)
    BY <2>1 DEF x
  <2> QED BY <1>5, <2>2
<1>7. y \in Data /\ Len(y) = 8 + k
  <2> HIDE DEF x
  <2> QED BY <1>6, Cut
<1>8. z \in Data /\ Len(z) = k + l + 8
  <2> HIDE DEF y
  <2>1. z \in Data /\ Len(z) = Len(y) + Len(b)
    BY <1>7, Cut
  <2> HIDE DEF z, k, l
  <2>2. Len(z) = (8 + k) + l
    BY <1>7, <2>1 DEF l
  <2> QED BY <1>1, <2>1, <2>2
<1>9. Combined(h, b) = z
  BY Zenon DEF Combined, w, v
<1>10. z \o rest = w \o (v \o (h \o (b \o rest)))
  <2>1. FiveData(w, v, h, b, rest)
    BY <1>5 DEF FiveData
  <2>2. InAnyOrder(w, v, h, b, rest)
    BY <2>1, FiveJoined
  <2>3. rest \o <<>> = rest
    BY JoinedEmpty
  <2> QED BY <2>2, <2>3, Zenon DEF InAnyOrder
<1>11. z \o rest \in Data
  <2> HIDE DEF z
  <2> QED BY <1>8, JoinedData
<1>12. b \o rest \in Data
  BY JoinedData
<1>13. h \o (b \o rest) \in Data
  <2> DEFINE s == b \o rest
  <2> HIDE DEF s
  <2>1. h \o s \in Data
    BY <1>12, JoinedData DEF s
  <2> QED BY <2>1 DEF s
<1>14. Pieces5(z \o rest, w, v, h, b, rest)
  BY <1>10, Zenon DEF Pieces5
<1> HIDE DEF x, y, z
<1>15. /\ Combined(h, b) \in Data /\ Len(Combined(h, b)) = k + l + 8
       /\ Combined(h, b) \o rest \in Data /\ Pieces5(Combined(h, b) \o rest, w, v, h, b, rest)
  BY <1>8, <1>9, <1>11, <1>14, Zenon
<1> QED BY <1>3, <1>4, <1>12, <1>13, <1>15, Zenon DEF k, l, w, v

\* A size of what is there of a stream.
LEMMA WordThere ==
    ASSUME NEW in \in Data, NEW at \in Nat
    PROVE  to_uint32(in, at) \in Word32 /\ Length(to_uint32(in, at)) \in Nat
<1> DEFINE w == to_uint32(in, at)
<1>1. Len(in) \in Nat /\ \A i \in 1..Len(in) : in[i] \in Byte
  BY DEF Data
<1>2. \A i \in 1..4 : (IF at + i <= Len(in) THEN in[at + i] ELSE 0) \in Byte
  <2> DEFINE l == Len(in)
  <2>1. l \in Nat /\ (\A i \in 1..l : in[i] \in Byte) /\ 0 \in Byte
    BY <1>1, Byte255
  <2> HIDE DEF l
  <2>2. \A i \in 1..4 : (IF at + i <= l THEN in[at + i] ELSE 0) \in Byte
    <3>1. TAKE i \in 1..4
    <3>2. CASE at + i <= l
      <4>1. at + i \in 1..l
        BY <2>1, <3>2
      <4> QED BY <2>1, <3>2, <4>1
    <3>3. CASE ~ at + i <= l
      BY <2>1, <3>3
    <3> QED BY <3>2, <3>3
  <2> QED BY <2>2 DEF l
<1>3. w \in Word32
  BY <1>2 DEF to_uint32, Word32
<1> HIDE DEF w
<1>4. w[1] \in Nat /\ w[2] \in Nat /\ w[3] \in Nat /\ w[4] \in Nat
  BY <1>3 DEF Word32, Byte
<1>5. MaxLength \in Nat
  BY SMT DEF MaxLength
<1>6. Length(w) \in Nat
  BY <1>4, <1>5 DEF Length
<1> QED BY <1>3, <1>6 DEF w

\* The first of them.
LEMMA PartWord ==
    ASSUME NEW in \in Data
    PROVE  to_uint32(in, 0) \in Word32 /\ Length(to_uint32(in, 0)) \in Nat
BY WordThere

\* Four bytes of a stream that have arrived are the stream's.
LEMMA Arrived ==
    ASSUME NEW in \in Data, NEW tail \in Data, NEW s \in Data, in \o tail = s, NEW n \in Nat, Len(in) >= n
    PROVE  /\ Len(s) >= Len(in)
           /\ \A i \in 1..n : in[i] = s[i]
<1> DEFINE k == Len(in)  l == Len(tail)
<1>1. k \in Nat /\ l \in Nat /\ Len(in \o tail) = k + l
  BY Cut
<1>2. \A i \in 1..k + l : (in \o tail)[i] = IF i <= k THEN in[i] ELSE tail[i - k]
  <2>1. in \in Seq(Byte) /\ tail \in Seq(Byte)
    BY DEF Data
  <2> QED BY <2>1, ConcatProperties
<1>3. Len(s) = k + l /\ k >= n /\ \A i \in 1..k + l : s[i] = IF i <= k THEN in[i] ELSE tail[i - k]
  BY <1>1, <1>2
<1> HIDE DEF k, l
<1>4. Len(s) >= k
  BY <1>1, <1>3
<1>5. \A i \in 1..n : i \in 1..k + l /\ i <= k
  BY <1>1, <1>3
<1>6. \A i \in 1..n : in[i] = s[i]
  BY <1>3, <1>5
<1> QED BY <1>4, <1>6 DEF k

\* What has come out of step starts with the tag of a header, which no buffer is
\* large enough for; and nothing is whole before four bytes are there.
LEMMA NotWhole ==
    ASSUME NEW in \in Data, NEW tail \in Data, NEW s \in Data, in \o tail = s,
           s[1] = 148, Len(s) < MaxLength
    PROVE  ~ Whole(in)
<1> DEFINE k == Len(in)  w == to_uint32(in, 0)  t == Length(w)
<1>1. k \in Nat /\ Len(s) >= k /\ Len(s) \in Nat
  BY Arrived, Cut
<1>2. w \in Word32 /\ t \in Nat
  BY PartWord
<1>3. ya_get_package_size(in).total = t
  BY DEF ya_get_package_size
<1>4. CASE k >= 1
  <2>1. w[1] = 148
    <3>1. in[1] = s[1]
      <4> DEFINE n == 1
      <4>1. n \in Nat /\ k >= n /\ n \in 1..n
        BY <1>4
      <4> HIDE DEF n, k
      <4>2. \A i \in 1..n : in[i] = s[i]
        BY <4>1, Arrived DEF k
      <4> QED BY <4>1, <4>2 DEF n
    <3>2. w[1] = IF 0 + 1 <= k THEN in[0 + 1] ELSE 0
      BY DEF to_uint32
    <3> HIDE DEF w, k
    <3> QED BY <1>1, <1>4, <3>1, <3>2
  <2>2. t = MaxLength
    <3> HIDE DEF w
    <3> QED BY <2>1 DEF Length
  <2>3. MaxLength \in Nat
    BY SMT DEF MaxLength
  <2> DEFINE l == Len(s)
  <2>4. l < MaxLength /\ l >= k /\ l \in Nat
    BY <1>1
  <2> HIDE DEF t, k, l
  <2>5. ~ (k >= t + 4)
    BY <1>1, <2>2, <2>3, <2>4
  <2> QED BY <1>3, <2>5 DEF Whole, k
<1>5. CASE ~ (k >= 1)
  <2> HIDE DEF t, k
  <2>1. ~ (k >= t + 4)
    BY <1>1, <1>2, <1>5
  <2> QED BY <1>3, <2>1 DEF Whole, k
<1> QED BY <1>4, <1>5

\* A package found whole is there to its last byte.
LEMMA WholeThere ==
    ASSUME NEW in \in Data, NEW tail \in Data, NEW w \in Word32, NEW d \in Data, in \o tail = w \o d,
           Whole(in)
    PROVE  Len(in) >= Length(w) + 4
<1> DEFINE k == Len(in)  v == to_uint32(in, 0)  t == Length(v)
<1>1. k \in Nat
  BY Cut
<1>2. t \in Nat /\ v \in Word32
  BY PartWord
<1>3. ya_get_package_size(in).total = t
  BY DEF ya_get_package_size
<1>4. k >= t + 4
  BY <1>3 DEF Whole
<1>5. k >= 4
  <2> HIDE DEF t, k
  <2> QED BY <1>1, <1>2, <1>4
<1>6. w \o d \in Data /\ w \in Data /\ Len(w) = 4
  BY Word4, JoinedData
<1>7. \A i \in 1..4 : in[i] = (w \o d)[i]
  <2> DEFINE n == 4  s == w \o d
  <2>1. n \in Nat /\ k >= n /\ s \in Data /\ in \o tail = s
    BY <1>5, <1>6
  <2> HIDE DEF n, k, s
  <2>2. \A i \in 1..n : in[i] = s[i]
    BY <2>1, Arrived DEF k
  <2> QED BY <2>2 DEF n, s
<1>8. \A i \in 1..4 : v[i] = in[i]
  <2>1. \A i \in 1..4 : v[i] = IF 0 + i <= k THEN in[0 + i] ELSE 0
    BY DEF to_uint32
  <2> HIDE DEF v, k
  <2>2. \A i \in 1..4 : 0 + i = i /\ i <= k
    BY <1>1, <1>5
  <2> QED BY <2>1, <2>2
<1>9. \A i \in 1..4 : (w \o d)[i] = w[i]
  <2> DEFINE f == w \o d  l == Len(d)
  <2>1. w \in Seq(Byte) /\ d \in Seq(Byte) /\ l \in Nat
    BY <1>6, Cut DEF Data
  <2>2. \A i \in 1..Len(w) + l : f[i] = IF i <= Len(w) THEN w[i] ELSE d[i - Len(w)]
    BY <2>1, ConcatProperties
  <2> HIDE DEF f, l
  <2>3. \A i \in 1..4 : f[i] = w[i]
    BY <1>6, <2>1, <2>2, SMTT(30)
  <2> QED BY <2>3 DEF f
<1>10. v = w
  <2> HIDE DEF v
  <2>1. v = [i \in 1..4 |-> v[i]] /\ w = [i \in 1..4 |-> w[i]]
    BY <1>2 DEF Word32
  <2> QED BY <1>7, <1>8, <1>9, <2>1
<1> HIDE DEF v
<1> QED BY <1>4, <1>10

---------------------------------------------------------------------------
(* A package is read. *)

\* The second size is read at offset 4.
LEMMA SecondWord ==
    ASSUME NEW v \in Word32, NEW w \in Word32, NEW d \in Data
    PROVE  to_uint32(v \o (w \o d), 4) = w
<1> DEFINE s == w \o d  f == v \o (w \o d)
<1>1. v \in Data /\ Len(v) = 4 /\ w \in Data /\ Len(w) = 4 /\ s \in Data
  BY Word4, JoinedData
<1>2. Len(s) = 4 + Len(d) /\ Len(d) \in Nat
  <2>1. Len(w \o d) = Len(w) + Len(d) /\ Len(d) \in Nat
    BY <1>1, Cut
  <2> QED BY <1>1, <2>1
<1> HIDE DEF s
<1>3. \A i \in 1..4 + Len(s) : (v \o s)[i] = IF i <= 4 THEN v[i] ELSE s[i - 4]
  <2>1. v \in Seq(Byte) /\ s \in Seq(Byte)
    BY <1>1 DEF Data
  <2>2. \A i \in 1..Len(v) + Len(s) : (v \o s)[i] = IF i <= Len(v) THEN v[i] ELSE s[i - Len(v)]
    BY <2>1, ConcatProperties
  <2>3. Len(v) = 4
    BY <1>1
  <2> QED BY <2>2, <2>3
<1>4. Len(v \o s) = 4 + Len(s)
  <2>1. Len(v \o s) = Len(v) + Len(s)
    BY <1>1, Cut, Zenon
  <2> QED BY <1>1, <2>1
<1>5. \A i \in 1..4 : s[i] = w[i]
  <2>1. \A i \in 1..Len(w) + Len(d) : (w \o d)[i] = IF i <= Len(w) THEN w[i] ELSE d[i - Len(w)]
    <3>1. w \in Seq(Byte) /\ d \in Seq(Byte)
      BY <1>1 DEF Data
    <3> QED BY <3>1, ConcatProperties
  <2> DEFINE l == Len(d)
  <2>2. l \in Nat /\ \A i \in 1..4 + l : s[i] = IF i <= 4 THEN w[i] ELSE d[i - 4]
    BY <1>1, <1>2, <2>1 DEF s
  <2> HIDE DEF l
  <2> QED BY <2>2
<1> DEFINE g == v \o s
<1> DEFINE m == Len(s)  n == Len(g)  l == Len(d)
<1>6. m = 4 + l /\ l \in Nat /\ n = 4 + m /\ \A i \in 1..4 + m : g[i] = IF i <= 4 THEN v[i] ELSE s[i - 4]
  BY <1>2, <1>3, <1>4
<1> HIDE DEF g, m, n, l
<1>7. \A i \in 1..4 : 4 + i <= n /\ g[4 + i] = w[i]
  BY <1>5, <1>6
<1>8. to_uint32(g, 4) = [i \in 1..4 |-> w[i]]
  BY <1>7 DEF to_uint32, n
<1>9. w = [i \in 1..4 |-> w[i]]
  BY DEF Word32
<1> QED BY <1>8, <1>9 DEF g, s

\* What follows the two sizes.
LEMMA AfterSizes ==
    ASSUME NEW v \in Word32, NEW w \in Word32, NEW d \in Data
    PROVE  Drop(v \o (w \o d), 8) = d
<1>1. v \in Data /\ Len(v) = 4 /\ w \in Data /\ Len(w) = 4
  BY Word4
<1> DEFINE x == v \o w
<1>2. x \in Data /\ Len(x) = 8
  <2>1. v \o w \in Data /\ Len(v \o w) = Len(v) + Len(w)
    BY <1>1, Cut, Zenon
  <2>2. x \in Data /\ Len(x) = Len(v) + Len(w)
    BY <2>1
  <2> HIDE DEF x
  <2> QED BY <1>1, <2>2
<1>3. x \o d = v \o (w \o d)
  BY <1>1, Assoc
<1> HIDE DEF x
<1>4. Drop(x \o d, Len(x)) = d
  BY <1>2, Cut
<1> QED BY <1>2, <1>3, <1>4

\* ya_get_package_size tells the sizes of the package at the head of the buffer.
LEMMA PackageSize ==
    ASSUME NEW h \in Data, NEW b \in Data, NEW rest \in Data, Len(h) + Len(b) + 4 < MaxLength
    PROVE  /\ ya_get_package_size(Combined(h, b) \o rest)
                  = [total |-> Len(h) + Len(b) + 4, header |-> Len(h), body |-> Len(b)]
           /\ Drop(Combined(h, b) \o rest, 8) = h \o (b \o rest)
<1> DEFINE k == Len(h)  l == Len(b)  w == Word(k + l + 4, 4)  v == Word(k, 4)  s == Combined(h, b) \o rest
           t == b \o rest  u == h \o t  y == v \o u
<1>1. /\ s \in Data /\ t \in Data /\ u \in Data /\ w \in Word32 /\ Length(w) = k + l + 4
      /\ v \in Word32 /\ Length(v) = k /\ Pieces5(s, w, v, h, b, rest)
  BY FrameForm, Zenon
<1>2. k \in Nat /\ l \in Nat
  BY Cut
<1> HIDE DEF k, l, w, v, s, u
<1>3. s = w \o (v \o u)
  BY <1>1, Zenon DEF Pieces5, u
<1>4. y \in Data
  <2>1. v \in Data
    BY <1>1, Word4
  <2> QED BY <1>1, <2>1, JoinedData
<1> HIDE DEF t
<1>5. to_uint32(s, 0) = w
  <2>1. to_uint32(w \o y, 0) = w
    <3> HIDE DEF y
    <3> QED BY <1>1, <1>4, FirstWord
  <2> QED BY <1>3, <2>1
<1>6. to_uint32(s, 4) = v
  BY <1>1, <1>3, SecondWord
<1>7. Drop(s, 8) = u
  BY <1>1, <1>3, AfterSizes
<1>8. (k + l + 4) - k - 4 = l
  BY <1>2
<1>9. ya_get_package_size(s) = [total |-> k + l + 4, header |-> k, body |-> l]
  <2> DEFINE of(total, header) == [total |-> total, header |-> header, body |-> total - header - 4]
  <2>1. ya_get_package_size(s) = of(Length(to_uint32(s, 0)), Length(to_uint32(s, 4)))
    BY Zenon DEF ya_get_package_size
  <2>2. ya_get_package_size(s) = of(k + l + 4, k)
    BY <1>1, <1>5, <1>6, <2>1
  <2> QED BY <1>8, <2>2
<1> QED BY <1>7, <1>9 DEF k, l, s, u, t

\* The body is one way to write what the package means.
Carries(p) ==
    IF p.body = <<>> THEN p.means = NoParam
    ELSE get_parser(TypeName(p.code), Ok(p.body)) = p.means

\* ya_parse_event on a package with anything behind it: the event the phone meant and
\* the rest, or, where the header cannot be read, a failure that has drained only the
\* sizes.
LEMMA ParsePackage ==
    ASSUME NEW p, Headed(p), p.body \in Data, Carries(p), NEW rest \in Data,
           Len(PhoneHeader(p)) + Len(p.body) + 4 < MaxLength
    PROVE  LET s == Frame(p) \o rest
               got == ya_parse_event(Drop(s, 8), ya_get_package_size(s))
           IN  /\ Readable(p) => got.ok /\ got.left = rest /\ got.event = Meant(p)
               /\ ~ Readable(p) => ~ got.ok /\ got.left = Drop(s, 8)
<1> DEFINE h == PhoneHeader(p)  b == p.body  s == Frame(p) \o rest  k == Len(h)  l == Len(b)
           t == b \o rest  buf == h \o t
           size == [total |-> k + l + 4, header |-> k, body |-> l]
           hd == ya_parse_event_header(buf, k)
<1>1. h \in Data
  BY HeaderForm
<1>2. Drop(s, 8) = buf /\ ya_get_package_size(s) = size
  <2> HIDE DEF h, b
  <2>1. h \in Data /\ b \in Data /\ Len(h) + Len(b) + 4 < MaxLength
    BY <1>1 DEF h, b
  <2>2. Frame(p) = Combined(h, b)
    BY Zenon DEF Frame, h, b
  <2>3. /\ ya_get_package_size(Combined(h, b) \o rest)
                  = [total |-> Len(h) + Len(b) + 4, header |-> Len(h), body |-> Len(b)]
        /\ Drop(Combined(h, b) \o rest, 8) = h \o (b \o rest)
    BY <2>1, PackageSize, ZenonT(40)
  <2> QED BY <2>2, <2>3, Zenon
<1>3. t \in Data /\ Len(t) = l + Len(rest) /\ SubSeq(t, 1, l) = b /\ Drop(t, l) = rest /\ Len(rest) \in Nat /\ l \in Nat
  <2>1. b \in Data
    OBVIOUS
  <2> HIDE DEF b
  <2> QED BY <2>1, Cut
<1>4. hd = IF Readable(p) THEN HeaderOf(p) ELSE Failure
  <2> HIDE DEF t
  <2> QED BY <1>3, HeaderRead
<1>5. Drop(buf, k) = t
  <2> HIDE DEF h, t
  <2> QED BY <1>1, <1>3, Cut
<1>6. ~ (size.body > Len(t)) /\ size.body = l /\ size.header = k
  <2> DEFINE m == Len(t)  n == Len(rest)
  <2>1. m = l + n /\ l \in Nat /\ n \in Nat
    BY <1>3
  <2> HIDE DEF m, n, l, k
  <2>2. ~ (l > m)
    BY <2>1
  <2> QED BY <2>2 DEF m
<1> DEFINE got == ya_parse_event(buf, size)
           of(a, r) == CASE ~ a.ok -> [ok |-> FALSE, left |-> buf]
              [] a.ok /\ size.body > Len(r) -> [ok |-> FALSE, left |-> r]
              [] OTHER -> ParsedBody(a, TypeName(a.type), r, size.body)
<1>7. got = of(hd, t)
  <2> HIDE DEF h, b, k, l, t, buf, size
  <2>1. got = of(ya_parse_event_header(buf, size.header), Drop(buf, size.header))
    BY Zenon DEF ya_parse_event
  <2> HIDE DEF of, got
  <2> QED BY <1>5, <1>6, <2>1
<1>8. CASE ~ Readable(p)
  <2>1. hd = Failure
    BY <1>4, <1>8
  <2>2. ~ hd.ok
    <3> HIDE DEF hd
    <3> QED BY <2>1 DEF Failure
  <2> HIDE DEF hd, buf, t, size, got, s
  <2>3. got = [ok |-> FALSE, left |-> buf]
    BY <1>7, <2>2, Zenon
  <2>4. ~ got.ok /\ got.left = buf
    BY <2>3
  <2>5. got = ya_parse_event(Drop(s, 8), ya_get_package_size(s))
    BY <1>2 DEF got
  <2> QED BY <1>2, <1>8, <2>4, <2>5 DEF s
<1>9. CASE Readable(p)
  <2>1. hd = HeaderOf(p)
    BY <1>4, <1>9
  <2>2. hd.ok /\ hd.type = p.code /\ hd.direction = 1 /\ hd.uid = p.uid /\ hd.index = p.index
    <3> HIDE DEF hd
    <3> QED BY <2>1 DEF HeaderOf
  <2> HIDE DEF hd
  <2> DEFINE c == TypeName(p.code)
  <2>3. got = ParsedBody(hd, c, t, l)
    <3> HIDE DEF t, size, got, buf, l
    <3>1. got = ParsedBody(hd, TypeName(hd.type), t, size.body)
      BY <1>6, <1>7, <2>2, Zenon
    <3> QED BY <1>6, <2>2, <3>1
  <2> HIDE DEF c
  <2> DEFINE param == IF l = 0 THEN NoParam ELSE get_parser(c, mpack_reader_init_data(SubSeq(t, 1, l)))
  <2>4. param = p.means
    <3>1. CASE l = 0
      <4>1. b = <<>>
        <5>1. b \in Seq(Byte)
          BY DEF Data
        <5> HIDE DEF b
        <5> QED BY <3>1, <5>1, EmptySeq
      <4> QED BY <3>1, <4>1 DEF Carries
    <3>2. CASE l # 0
      <4>1. b # <<>>
        BY <3>2
      <4>2. mpack_reader_init_data(SubSeq(t, 1, l)) = Ok(b)
        BY <1>3, Zenon DEF mpack_reader_init_data, Ok
      <4>3. get_parser(c, Ok(b)) = p.means
        BY <4>1 DEF Carries, c
      <4> HIDE DEF t, l, b
      <4> QED BY <3>2, <4>2, <4>3
    <3> QED BY <3>1, <3>2
  <2> HIDE DEF l, param
  <2> DEFINE event == [type |-> c, direction |-> 1, uid |-> p.uid, index |-> p.index, param |-> p.means]
  <2>5. ParsedBody(hd, c, t, l) =
           [ok |-> TRUE, left |-> Drop(t, l),
            event |-> [type |-> c, direction |-> hd.direction, uid |-> hd.uid, index |-> hd.index, param |-> param]]
    BY Zenon DEF ParsedBody, param
  <2> HIDE DEF got, t
  <2>6. got = [ok |-> TRUE, left |-> rest, event |-> event]
    BY <1>3, <2>2, <2>3, <2>4, <2>5, Zenon DEF t
  <2>7. event = Meant(p)
    <3>1. Direction.REQUEST = 1
      BY DEF Direction
    <3> QED BY <3>1, Zenon DEF Meant, c
  <2> HIDE DEF event
  <2>8. got.ok /\ got.left = rest /\ got.event = Meant(p)
    BY <2>6, <2>7
  <2> HIDE DEF buf, size, s
  <2>9. got = ya_parse_event(Drop(s, 8), ya_get_package_size(s))
    BY <1>2 DEF got
  <2> QED BY <1>9, <2>8, <2>9 DEF s
<1> QED BY <1>8, <1>9

---------------------------------------------------------------------------
(* Bodies: arrays. *)

\* A body that begins with its fields has them and a rest.
LEMMA BeginsWith ==
    ASSUME NEW b \in Data, NEW s \in Data, Begins(b, s)
    PROVE  \E t \in Data : b = s \o t
<1> DEFINE n == Len(s)  l == Len(b)  x == SubSeq(b, 1, n)  y == SubSeq(b, n + 1, l)
<1>1. n \in Nat /\ l \in Nat /\ n <= l /\ x = s
  BY Cut DEF Begins
<1>2. y \in Data
  <2>1. n + 1 \in Nat \ {0} /\ n + 1 <= l + 1 /\ l <= Len(b)
    BY <1>1, SMTT(30)
  <2> HIDE DEF n, l
  <2> QED BY <1>1, <2>1, PartOfData
<1>3. x \o y = b
  <2> DEFINE m == 1
  <2>1. b \in Seq(Byte)
    BY DEF Data
  <2>2. m \in 1..Len(b) + 1 /\ n \in m - 1..Len(b) /\ l \in n..Len(b)
    <3> HIDE DEF n
    <3> QED BY <1>1
  <2>3. SubSeq(b, m, n) \o SubSeq(b, n + 1, l) = SubSeq(b, m, l)
    <3> HIDE DEF n, l, m
    <3> QED BY <2>1, <2>2, ConcatAdjacentSubSeq
  <2>4. SubSeq(b, m, l) = b
    BY <2>1, SubSeqFull
  <2> QED BY <2>3, <2>4, Zenon
<1> HIDE DEF x, y
<1> QED BY <1>1, <1>2, <1>3

\* The fields of an array of two or three, whatever comes after them.
LEMMA ArrayRead ==
    ASSUME NEW b \in Data, NEW e \in Data, \E head \in 144..159 : Begins(b, <<head>> \o e)
    PROVE  \E t \in Data : mpack_expect_array(Ok(b)).r = Ok(e \o t)
<1>1. PICK head \in 144..159 : Begins(b, <<head>> \o e)
  OBVIOUS
<1>2. head \in Byte
  BY DEF Byte
<1>3. PICK h \in Data : h = <<head>>
  BY <1>2, One
<1>4. PICK s \in Data : s = h \o e
  BY JoinedData
<1>5. PICK t \in Data : b = s \o t
  BY <1>1, <1>3, <1>4, BeginsWith
<1>6. PICK f \in Data : f = e \o t
  BY JoinedData
<1>7. (h \o e) \o t = h \o (e \o t)
  <2>1. h \in Data /\ e \in Data /\ t \in Data
    OBVIOUS
  <2>2. FiveData(h, e, t, t, t)
    BY <2>1 DEF FiveData
  <2>3. \A x, y, z : FiveData(x, y, z, z, z) => (x \o y) \o z = x \o (y \o z)
    BY Assoc, SMTT(30) DEF FiveData
  <2> QED BY <2>2, <2>3
<1>8. b = <<head>> \o f
  BY <1>3, <1>4, <1>5, <1>6, <1>7, Zenon
<1>9. mpack_expect_array(Ok(<<head>> \o f)).r = Ok(f)
  BY ArrayHead
<1> QED BY <1>6, <1>8, <1>9, Zenon

\* The expectation of a field is the mpack call it stands for.
LEMMA Expects ==
    ASSUME NEW q
    PROVE  Expect("i32", q) = mpack_expect_i32(q) /\ Expect("u32", q) = mpack_expect_u32(q)
           /\ Expect("float", q) = mpack_expect_float(q)
BY DEF Expect

\* parse_common reads its two signed words.
LEMMA TwoSigned ==
    ASSUME NEW b \in Data, NEW w1 \in Word32, NEW w2 \in Word32,
           NEW e1 \in SignedForms(w1), NEW e2 \in SignedForms(w2),
           \E head \in 144..159 : Begins(b, <<head>> \o (e1 \o e2))
    PROVE  ArrayOf(Ok(b), <<"i32", "i32">>) = <<w1, w2>>
<1>1. <<>> \in Data
  BY DEF Data
<1>2. e1 \in Data /\ e2 \in Data
  BY <1>1, SignedForm
<1>3. PICK e \in Data : e = e1 \o e2
  BY <1>2, JoinedData
<1>4. PICK t \in Data : mpack_expect_array(Ok(b)).r = Ok(e \o t)
  BY <1>3, ArrayRead
<1>5. PICK s \in Data : s = e2 \o t
  BY <1>2, JoinedData
<1>6. e \o t = e1 \o s
  BY <1>2, <1>3, <1>5, Assoc
<1> DEFINE i == "i32"  r == Ok(e1 \o s)  x1 == Expect(i, r)  x2 == Expect(i, x1.r)
<1>7. InTurn(r, <<i, i>>) = Result(x2.r, <<x1.v, x2.v>>)
  BY FourInTurn, Zenon
<1>8. x1 = mpack_expect_i32(r) /\ x2 = mpack_expect_i32(x1.r)
  BY Expects
<1> HIDE DEF x1, x2, i
<1>9. x1 = Result(Ok(s), w1)
  BY <1>8, ExpectsSigned
<1>10. x1.r = Ok(s) /\ x1.v = w1
  BY <1>9 DEF Result
<1>11. x2 = Result(Ok(t), w2)
  BY <1>5, <1>8, <1>10, ExpectsSigned
<1>12. x2.v = w2
  BY <1>11 DEF Result
<1>13. InTurn(r, <<i, i>>).v = <<w1, w2>>
  BY <1>7, <1>10, <1>12 DEF Result
<1> QED BY <1>4, <1>6, <1>13 DEF ArrayOf, i, r

\* parse_authorize reads its two unsigned words.
LEMMA TwoUnsigned ==
    ASSUME NEW b \in Data, NEW w1 \in Word32, NEW w2 \in Word32,
           NEW e1 \in UnsignedForms(w1), NEW e2 \in UnsignedForms(w2),
           \E head \in 144..159 : Begins(b, <<head>> \o (e1 \o e2))
    PROVE  ArrayOf(Ok(b), <<"u32", "u32">>) = <<w1, w2>>
<1>1. <<>> \in Data
  BY DEF Data
<1>2. e1 \in Data /\ e2 \in Data
  BY <1>1, UnsignedForm
<1>3. PICK e \in Data : e = e1 \o e2
  BY <1>2, JoinedData
<1>4. PICK t \in Data : mpack_expect_array(Ok(b)).r = Ok(e \o t)
  BY <1>3, ArrayRead
<1>5. PICK s \in Data : s = e2 \o t
  BY <1>2, JoinedData
<1>6. e \o t = e1 \o s
  BY <1>2, <1>3, <1>5, Assoc
<1> DEFINE i == "u32"  r == Ok(e1 \o s)  x1 == Expect(i, r)  x2 == Expect(i, x1.r)
<1>7. InTurn(r, <<i, i>>) = Result(x2.r, <<x1.v, x2.v>>)
  BY FourInTurn, Zenon
<1>8. x1 = mpack_expect_u32(r) /\ x2 = mpack_expect_u32(x1.r)
  BY Expects
<1> HIDE DEF x1, x2, i
<1>9. x1 = Result(Ok(s), w1)
  BY <1>8, ExpectsUnsigned
<1>10. x1.r = Ok(s) /\ x1.v = w1
  BY <1>9 DEF Result
<1>11. x2 = Result(Ok(t), w2)
  BY <1>5, <1>8, <1>10, ExpectsUnsigned
<1>12. x2.v = w2
  BY <1>11 DEF Result
<1>13. InTurn(r, <<i, i>>).v = <<w1, w2>>
  BY <1>7, <1>10, <1>12 DEF Result
<1> QED BY <1>4, <1>6, <1>13 DEF ArrayOf, i, r

\* parse_keyboard reads a code, an operation and the modifiers.
LEMMA ThreeRead ==
    ASSUME NEW b \in Data, NEW w1 \in Word32, NEW w2 \in Word32, NEW w3 \in Word32,
           NEW e1 \in SignedForms(w1), NEW e2 \in SignedForms(w2), NEW e3 \in UnsignedForms(w3),
           \E head \in 144..159 : Begins(b, <<head>> \o (e1 \o (e2 \o e3)))
    PROVE  ArrayOf(Ok(b), <<"i32", "i32", "u32">>) = <<w1, w2, w3>>
<1>1. <<>> \in Data
  BY DEF Data
<1>2. e1 \in Data /\ e2 \in Data /\ e3 \in Data
  BY <1>1, SignedForm, UnsignedForm
<1>3. PICK g \in Data : g = e2 \o e3
  BY <1>2, JoinedData
<1>4. PICK e \in Data : e = e1 \o g
  BY <1>2, JoinedData
<1>5. PICK t \in Data : mpack_expect_array(Ok(b)).r = Ok(e \o t)
  BY <1>3, <1>4, ArrayRead
<1>6. PICK f \in Data : f = e3 \o t
  BY <1>2, JoinedData
<1>7. PICK s \in Data : s = e2 \o f
  BY <1>2, JoinedData
<1>8. g \o t = s
  <2>1. (e2 \o e3) \o t = e2 \o (e3 \o t)
    BY <1>2, Assoc
  <2> QED BY <1>3, <1>6, <1>7, <2>1
<1>9. e \o t = e1 \o s
  <2>1. (e1 \o g) \o t = e1 \o (g \o t)
    BY <1>2, Assoc
  <2> QED BY <1>4, <1>8, <2>1
<1> DEFINE i == "i32"  u == "u32"  r == Ok(e1 \o s)  x1 == Expect(i, r)  x2 == Expect(i, x1.r)  x3 == Expect(u, x2.r)
<1>10. InTurn(r, <<i, i, u>>) = Result(x3.r, <<x1.v, x2.v, x3.v>>)
  BY FourInTurn, Zenon
<1>11. x1 = mpack_expect_i32(r) /\ x2 = mpack_expect_i32(x1.r) /\ x3 = mpack_expect_u32(x2.r)
  BY Expects
<1> HIDE DEF x1, x2, x3, i, u
<1>12. x1 = Result(Ok(s), w1)
  BY <1>11, ExpectsSigned
<1>13. x1.r = Ok(s) /\ x1.v = w1
  BY <1>12 DEF Result
<1>14. x2 = Result(Ok(f), w2)
  BY <1>7, <1>11, <1>13, ExpectsSigned
<1>15. x2.r = Ok(f) /\ x2.v = w2
  BY <1>14 DEF Result
<1>16. x3 = Result(Ok(t), w3)
  BY <1>6, <1>11, <1>15, ExpectsUnsigned
<1>17. x3.v = w3
  BY <1>16 DEF Result
<1>18. InTurn(r, <<i, i, u>>).v = <<w1, w2, w3>>
  BY <1>10, <1>13, <1>15, <1>17 DEF Result
<1> QED BY <1>5, <1>9, <1>18 DEF ArrayOf, i, u, r

---------------------------------------------------------------------------
(* Bodies: floats and lengths. *)

\* A scale: the tag of a float and its four bytes.
LEMMA FloatRead ==
    ASSUME NEW b \in Data, NEW w \in Word32,
           \E head \in 144..159 : Begins(b, <<head>> \o (<<\hCA>> \o w))
    PROVE  ArrayOf(Ok(b), <<"float">>)[1] = w
<1> DEFINE c == \hCA
<1>1. c \in Byte /\ TypeOf(c) = "float" /\ SizeAfter(c) = 4
  <2>1. c \in Byte
    BY DEF Byte
  <2> QED BY <2>1, Tags
<1>2. w \in Data /\ Len(w) = 4
  BY Word4
<1> HIDE DEF c
<1>3. PICK h \in Data : h = <<c>>
  BY <1>1, One
<1>4. PICK e \in Data : e = h \o w
  BY <1>2, JoinedData
<1>5. PICK t \in Data : mpack_expect_array(Ok(b)).r = Ok(e \o t)
  <2>1. \E head \in 144..159 : Begins(b, <<head>> \o e)
    BY <1>3, <1>4 DEF c
  <2> QED BY <2>1, ArrayRead
<1> DEFINE f == "float"  r == Ok(e \o t)  x == Expect(f, r)
<1>6. mpack_read_tag(r) = Result(Ok(t), [type |-> "float", v |-> w])
  <2>1. Len(w) = SizeAfter(c) /\ TypeOf(c) \notin {"ext", "reserved"} /\ Len(w) # 0
    BY <1>1, <1>2
  <2>2. mpack_read_tag(Ok((<<c>> \o w) \o t))
               = Result(Ok(t), [type |-> TypeOf(c), v |-> Widened(TypeOf(c), IF Len(w) = 0 THEN Inline(c) ELSE w)])
    BY <1>1, <1>2, <2>1, ReadWhole
  <2>3. Widened("float", w) = w
    BY DEF Widened
  <2> QED BY <1>1, <1>3, <1>4, <2>1, <2>2, <2>3
<1>7. InTurn(r, <<f>>) = Result(x.r, <<x.v>>)
  BY FourInTurn, Zenon
<1>8. x = mpack_expect_float(r)
  BY Expects
<1> DEFINE y == "float"  tag == Result(Ok(t), [type |-> y, v |-> w])
<1>9. tag.v.type = "float" /\ tag.v.v = w
  BY DEF Result
<1>10. tag.v.type \in {"uint", "int", "float", "double"}
  BY <1>9
<1>11. mpack_read_tag(r) = tag
  BY <1>6
<1> HIDE DEF x, f, r, y, tag
<1>12. mpack_expect_float(r) = Expected(tag, tag.v.type \in {"uint", "int", "float", "double"},
                            IF tag.v.type = "float" THEN tag.v.v ELSE <<tag.v.type, tag.v.v>>,
                            Filled(4, 0))
  BY <1>11, Zenon DEF mpack_expect_float
<1>13. mpack_expect_float(r) = Result(tag.r, w)
  BY <1>9, <1>10, <1>12, Zenon DEF Expected
<1>14. x.v = w
  BY <1>8, <1>13 DEF Result
<1>15. InTurn(r, <<f>>).v = <<w>>
  BY <1>7, <1>14 DEF Result
<1>16. ArrayOf(Ok(b), <<"float">>) = <<w>>
  BY <1>5, <1>15 DEF ArrayOf, f, r
<1> QED BY <1>16

---------------------------------------------------------------------------
(* Texts. *)

\* The tags of texts, in the three widths of their length.
LEMMA TextTags ==
    ASSUME NEW k \in Sizes
    PROVE  TagOfText[k] \in Byte /\ TypeOf(TagOfText[k]) = "str" /\ SizeAfter(TagOfText[k]) = k
<1>1. TagOfText[1] = \hD9 /\ TagOfText[2] = \hDA /\ TagOfText[4] = \hDB
  BY DEF TagOfText
<1>2. k = 1 \/ k = 2 \/ k = 4
  BY DEF Sizes
<1> DEFINE b == TagOfText[k]
<1>3. \/ k = 1 /\ b = \hD9
      \/ k = 2 /\ b = \hDA
      \/ k = 4 /\ b = \hDB
  BY <1>1, <1>2
<1> HIDE DEF b
<1>4. b \in Byte
  BY <1>3 DEF Byte
<1>5. TypeOf(b) = "str" /\ SizeAfter(b) = k
  BY <1>3, Tags
<1> QED BY <1>4, <1>5 DEF b

\* A length in one of its ways.
LEMMA LengthRead ==
    ASSUME NEW n \in Nat, n < MaxLength, NEW e \in LengthForms(n), NEW t \in Data
    PROVE  e \in Data /\ e \o t \in Data /\ mpack_expect_str(Ok(e \o t)) = Result(Ok(t), n)
<1> DEFINE w == Word(n, 4)
<1>1. w \in Word32 /\ Length(w) = n
  BY WordOfNumber
<1> HIDE DEF w
<1>2. ASSUME NEW b \in Byte, NEW v \in Data, NEW z, TypeOf(b) = "str", Len(v) = SizeAfter(b), e = <<b>> \o v,
             Widened("str", IF Len(v) = 0 THEN Inline(b) ELSE v) = z, Length(z) = n
      PROVE  e \in Data /\ e \o t \in Data /\ mpack_expect_str(Ok(e \o t)) = Result(Ok(t), n)
  <2>1. PICK h \in Data : h = <<b>> /\ Len(h) = 1 /\ h[1] = b
    BY One
  <2>2. e \in Data /\ e = h \o v
    BY <1>2, <2>1, JoinedData
  <2>3. e \o t \in Data
    BY <2>2, JoinedData
  <2> DEFINE r == Ok(e \o t)  s == "str"  tag == Result(Ok(t), [type |-> s, v |-> z])
  <2>4. mpack_read_tag(r) = tag
    <3>1. TypeOf(b) \notin {"ext", "reserved"}
      BY <1>2
    <3>2. mpack_read_tag(Ok((<<b>> \o v) \o t))
               = Result(Ok(t), [type |-> TypeOf(b), v |-> Widened(TypeOf(b), IF Len(v) = 0 THEN Inline(b) ELSE v)])
      BY <1>2, <3>1, ReadWhole
    <3> QED BY <1>2, <3>2
  <2>5. tag.v.type = "str" /\ tag.v.v = z /\ tag.r = Ok(t)
    BY DEF Result
  <2>6. r.data = e \o t /\ (e \o t)[1] = b
    <3>1. r.data = e \o t
      BY DEF Ok
    <3>2. Len(h) >= 1
      BY <2>1
    <3>3. (h \o v)[1] = h[1] /\ h \o v \in Data /\ Len(h \o v) = Len(h) + Len(v)
      BY <3>2, FirstStays
    <3>4. Len(e) >= 1
      <4> DEFINE k == Len(v)  m == Len(e)
      <4>1. k \in Nat /\ m = 1 + k
        BY <2>1, <2>2, <3>3, Cut
      <4> HIDE DEF k, m
      <4>2. m >= 1
        BY <4>1
      <4> QED BY <4>2 DEF m
    <3>5. (e \o t)[1] = e[1]
      BY <2>2, <3>4, FirstStays
    <3> QED BY <2>1, <2>2, <3>1, <3>3, <3>5
  <2> HIDE DEF r, tag, s
  <2>7. ~ (r.data # <<>> /\ TypeOf(r.data[1]) # "str")
    BY <1>2, <2>6
  <2>8. mpack_expect_str(r) = CountOf("str", r)
    BY <2>7, Zenon DEF mpack_expect_str
  <2>9. CountOf("str", r) = Expected(tag, tag.v.type = "str", Length(tag.v.v), 0)
    BY <2>4, Zenon DEF CountOf
  <2>10. Expected(tag, tag.v.type = "str", Length(tag.v.v), 0) = Result(tag.r, n)
    BY <1>2, <2>5, Zenon DEF Expected
  <2>11. mpack_expect_str(r) = Result(Ok(t), n)
    BY <2>5, <2>8, <2>9, <2>10, Zenon
  <2> QED BY <2>2, <2>3, <2>11 DEF r
<1>3. CASE n <= 31 /\ e = <<\hA0 + n>>
  <2> DEFINE b == 160 + n  z == Filled(3, 0)
  <2>1. b \in 160..191 /\ b % 32 = n
    BY <1>3, SMT
  <2>2. b \in Byte /\ TypeOf(b) = "str" /\ SizeAfter(b) = 0
    BY <2>1, Tags
  <2>3. PICK v \in Data : v = <<>> /\ Len(v) = 0 /\ \A a \in Data : a \o v = a
    <3>1. <<>> \in Data /\ Len(<<>>) = 0 /\ \A a \in Data : a \o <<>> = a
      BY JoinedEmpty DEF Data
    <3> QED BY <3>1
  <2>4. e = <<b>> \o v
    <3>1. <<b>> \in Data
      BY <2>2, One
    <3> QED BY <1>3, <2>3, <3>1
  <2> HIDE DEF b
  <2>5. Widened("str", Inline(b)) = z \o <<n>>
    <3>1. Inline(b) = <<n>>
      BY <2>1, <2>2 DEF Inline
    <3>2. Len(<<n>>) = 1
      OBVIOUS
    <3>3. ZeroExtended(<<n>>, 4) = Filled(3, 0) \o <<n>>
      BY <3>2 DEF ZeroExtended
    <3>4. Widened("str", Inline(b)) = ZeroExtended(<<n>>, 4)
      BY <3>1, Zenon DEF Widened
    <3> QED BY <3>3, <3>4
  <2>6. Length(z \o <<n>>) = n
    <3> DEFINE x == z \o <<n>>
    <3>1. z = <<0, 0, 0>>
      <4>1. Filled(3, 0) = [i \in 1..3 |-> 0]
        BY DEF Filled
      <4> QED BY <4>1
    <3>2. x[1] = 0 /\ x[2] = 0 /\ x[3] = 0 /\ x[4] = n
      <4> HIDE DEF z
      <4> QED BY <3>1
    <3> HIDE DEF x
    <3>3. Length(x) = n
      BY <3>2 DEF Length
    <3> QED BY <3>3 DEF x
  <2> DEFINE y == z \o <<n>>
  <2>7. Widened("str", IF Len(v) = 0 THEN Inline(b) ELSE v) = y /\ Length(y) = n
    BY <2>3, <2>5, <2>6
  <2> HIDE DEF y
  <2>8. Len(v) = SizeAfter(b)
    BY <2>2, <2>3
  <2> QED BY <1>2, <2>2, <2>4, <2>7, <2>8
<1>4. CASE \E k \in Sizes : FitsUnsigned(w, k) /\ e = <<TagOfText[k]>> \o Low(w, k)
  <2>1. PICK k \in Sizes : FitsUnsigned(w, k) /\ e = <<TagOfText[k]>> \o Low(w, k)
    BY <1>4
  <2> DEFINE b == TagOfText[k]  v == Low(w, k)
  <2>2. b \in Byte /\ TypeOf(b) = "str" /\ SizeAfter(b) = k
    BY TextTags
  <2>3. k \in 0..4 /\ k # 0
    BY DEF Sizes
  <2>4. v \in Data /\ Len(v) = k /\ High(w, 4 - k) \o v = w
    BY <1>1, <2>3, Split
  <2>5. High(w, 4 - k) = Filled(4 - k, 0)
    BY <1>1, <2>1, Cuts
  <2> HIDE DEF v
  <2>6. Widened("str", v) = w
    <3>1. ZeroExtended(v, 4) = Filled(4 - k, 0) \o v
      BY <2>4 DEF ZeroExtended
    <3>2. Widened("str", v) = ZeroExtended(v, 4)
      BY Zenon DEF Widened
    <3> QED BY <2>4, <2>5, <3>1, <3>2
  <2>7. Widened("str", IF Len(v) = 0 THEN Inline(b) ELSE v) = w
    BY <2>3, <2>4, <2>6
  <2>8. Len(v) = SizeAfter(b) /\ e = <<b>> \o v
    BY <2>1, <2>2, <2>4 DEF v
  <2> HIDE DEF b
  <2> QED BY <1>1, <1>2, <2>2, <2>4, <2>7, <2>8
<1>5. \/ n <= 31 /\ e = <<\hA0 + n>>
      \/ \E k \in Sizes : FitsUnsigned(w, k) /\ e = <<TagOfText[k]>> \o Low(w, k)
  BY Zenon DEF LengthForms, Sizes, w
<1> QED BY <1>3, <1>4, <1>5

---------------------------------------------------------------------------
(* Bodies: texts, and every type. *)

\* Bytes at the start of a buffer.
LEMMA BytesRead ==
    ASSUME NEW a \in Data, NEW t \in Data, NEW n, n = Len(a)
    PROVE  mpack_read_bytes(Ok(a \o t), n).v = a
<1> DEFINE s == a \o t  r == Ok(a \o t)
<1>1. Len(s) = n + Len(t) /\ n \in Nat /\ Len(t) \in Nat /\ SubSeq(s, 1, n) = a
  BY Cut
<1>2. n <= Len(s)
  <2> DEFINE m == Len(s)  l == Len(t)
  <2>1. m = n + l /\ n \in Nat /\ l \in Nat
    BY <1>1
  <2> HIDE DEF m, l
  <2>2. n <= m
    BY <2>1
  <2> QED BY <2>2 DEF m
<1>3. r.data = s
  BY DEF Ok
<1> HIDE DEF r, s
<1>4. mpack_read_bytes(r, n) = Result(Skip(r, n), SubSeq(r.data, 1, n))
  BY <1>2, <1>3, Zenon DEF mpack_read_bytes
<1> QED BY <1>1, <1>3, <1>4 DEF Result, r, s

\* parse_text reads a text in whatever width its length was written.
LEMMA TextRead ==
    ASSUME NEW b \in Data, NEW text \in Data, NEW e \in LengthForms(Len(text)), Len(text) < MaxLength,
           Begins(b, e \o text), \A i \in 1..Len(text) : text[i] # 0
    PROVE  parse_text(Ok(b)) = [text |-> text]
<1> DEFINE n == Len(text)
<1>1. n \in Nat
  BY Cut
<1> HIDE DEF n
<1>2. \A t \in Data : e \in Data /\ e \o t \in Data /\ mpack_expect_str(Ok(e \o t)) = Result(Ok(t), n)
  BY <1>1, LengthRead DEF n
<1>3. PICK s \in Data : s = e \o text
  BY <1>2
<1>4. PICK t \in Data : b = s \o t
  BY <1>3, BeginsWith
<1>5. PICK a \in Data : a = text \o t
  BY JoinedData
<1>6. b = e \o a
  <2>1. (e \o text) \o t = e \o (text \o t)
    BY <1>2, Assoc
  <2> QED BY <1>3, <1>4, <1>5, <2>1
<1>7. mpack_expect_str(Ok(b)) = Result(Ok(a), n)
  BY <1>2, <1>6
<1>8. mpack_expect_str(Ok(b)).r = Ok(a) /\ mpack_expect_str(Ok(b)).v = n
  BY <1>7 DEF Result
<1>9. mpack_read_bytes(Ok(a), n).v = text
  BY <1>5, BytesRead DEF n
<1>10. CString(text) = text
  BY DEF CString
<1>11. parse_text(Ok(b)) = [text |-> CString(mpack_read_bytes(mpack_expect_str(Ok(b)).r, mpack_expect_str(Ok(b)).v).v)]
  BY Zenon DEF parse_text
<1> QED BY <1>8, <1>9, <1>10, <1>11

\* parse_discover reads the word a search begins with.
LEMMA MagicRead ==
    ASSUME NEW b \in Data, NEW w \in Word32, NEW e \in UnsignedForms(w), Begins(b, e)
    PROVE  mpack_expect_u32(Ok(b)).v = w
<1>1. <<>> \in Data
  BY DEF Data
<1>2. e \in Data
  BY <1>1, UnsignedForm
<1>3. PICK t \in Data : b = e \o t
  BY <1>2, BeginsWith
<1>4. mpack_expect_u32(Ok(b)) = Result(Ok(t), w)
  BY <1>3, ExpectsUnsigned
<1> QED BY <1>4 DEF Result

FieldsOf(b, e) == \E head \in 144..159 : Begins(b, <<head>> \o e)

\* A package that writes what it means is parsed as what it means.
LEMMA WritesCarries ==
    ASSUME NEW p, p.body \in Data, Writes(p)
    PROVE  Carries(p)
<1> DEFINE b == p.body  type == TypeName(p.code)  m == p.means
<1>1. CASE b = <<>>
  BY <1>1, Zenon DEF Carries, Writes
<1> SUFFICES ASSUME b # <<>> PROVE get_parser(type, Ok(b)) = m
  BY <1>1 DEF Carries
<1>2. b \in Data
  OBVIOUS
<1>3. \/ /\ m = NoParam
         /\ type \in {"MOUSE_STOP", "HEARTBEAT", "UNKNOWN"}
      \/ /\ type \in CommonTypes /\ m \in YACommonEventRequest
         /\ \E l \in SignedForms(m.lparam), r \in SignedForms(m.rparam) : FieldsOf(b, l \o r)
      \/ /\ type = "KEYBOARD" /\ m \in YAKeyboardEventRequest
         /\ \E c \in SignedForms(m.code), o \in SignedForms(m.op), s \in UnsignedForms(m.mods) :
               FieldsOf(b, c \o (o \o s))
      \/ /\ type \in {"TEXT_INPUT", "TEXT_GET"} /\ m \in YATextInputEventRequest
         /\ Len(m.text) < MaxLength /\ \A i \in 1..Len(m.text) : m.text[i] # 0
         /\ \E l \in LengthForms(Len(m.text)) : Begins(b, l \o m.text)
      \/ /\ type = "AUTHORIZE" /\ m \in YAAuthorizeEventRequest
         /\ \E t \in UnsignedForms(m.type), v \in UnsignedForms(m.version) : FieldsOf(b, t \o v)
      \/ /\ type = "SESSION_OPTION" /\ m \in YASessionOptionEventRequest
         /\ FieldsOf(b, <<\hCA>> \o m.pointer_scale)
      \/ /\ type = "DISCOVER" /\ m \in YADiscoverEventRequest
         /\ \E t \in UnsignedForms(m.magic) : Begins(b, t)
  BY Zenon DEF Writes, FieldsOf
<1> HIDE DEF b, type, m
<1>4. CASE m = NoParam /\ type \in {"MOUSE_STOP", "HEARTBEAT", "UNKNOWN"}
  <2>1. /\ type \notin CommonTypes /\ type # "KEYBOARD" /\ type \notin {"TEXT_INPUT", "TEXT_GET"}
        /\ type # "AUTHORIZE" /\ type # "SESSION_OPTION" /\ type # "DISCOVER"
    BY <1>4 DEF CommonTypes
  <2>2. get_parser(type, Ok(b)) = NoParam
    BY <2>1, Zenon DEF get_parser
  <2> QED BY <1>4, <2>2
<1>5. CASE /\ type \in CommonTypes /\ m \in YACommonEventRequest
           /\ \E l \in SignedForms(m.lparam), r \in SignedForms(m.rparam) : FieldsOf(b, l \o r)
  <2>1. PICK l \in SignedForms(m.lparam), r \in SignedForms(m.rparam) : FieldsOf(b, l \o r)
    BY <1>5
  <2>2. m.lparam \in Word32 /\ m.rparam \in Word32 /\ m = [lparam |-> m.lparam, rparam |-> m.rparam]
    BY <1>5 DEF YACommonEventRequest
  <2>3. ArrayOf(Ok(b), <<"i32", "i32">>) = <<m.lparam, m.rparam>>
    BY <1>2, <2>1, <2>2, TwoSigned DEF FieldsOf
  <2>4. parse_common_request(Ok(b)) = [lparam |-> ArrayOf(Ok(b), <<"i32", "i32">>)[1], rparam |-> ArrayOf(Ok(b), <<"i32", "i32">>)[2]]
    BY Zenon DEF parse_common_request
  <2>5. parse_common_request(Ok(b)) = m
    BY <2>2, <2>3, <2>4
  <2>6. get_parser(type, Ok(b)) = parse_common_request(Ok(b))
    <3>1. type \in CommonTypes
      BY <1>5
    <3> QED BY <3>1 DEF get_parser, CommonTypes
  <2> QED BY <2>5, <2>6
<1>6. CASE /\ type = "KEYBOARD" /\ m \in YAKeyboardEventRequest
           /\ \E c \in SignedForms(m.code), o \in SignedForms(m.op), s \in UnsignedForms(m.mods) :
                 FieldsOf(b, c \o (o \o s))
  <2>1. PICK c \in SignedForms(m.code), o \in SignedForms(m.op), s \in UnsignedForms(m.mods) :
                 FieldsOf(b, c \o (o \o s))
    BY <1>6
  <2>2. m.code \in Word32 /\ m.op \in Word32 /\ m.mods \in Word32 /\ m = [code |-> m.code, op |-> m.op, mods |-> m.mods]
    BY <1>6 DEF YAKeyboardEventRequest
  <2> DEFINE a == ArrayOf(Ok(b), <<"i32", "i32", "u32">>)
  <2>3. a = <<m.code, m.op, m.mods>>
    BY <1>2, <2>1, <2>2, ThreeRead DEF FieldsOf
  <2>4. parse_keyboard_request(Ok(b)) = [code |-> a[1], op |-> a[2], mods |-> a[3]]
    BY Zenon DEF parse_keyboard_request
  <2> HIDE DEF a
  <2>5. parse_keyboard_request(Ok(b)) = m
    BY <2>2, <2>3, <2>4
  <2>6. get_parser(type, Ok(b)) = parse_keyboard_request(Ok(b))
    <3>1. type = "KEYBOARD"
      BY <1>6
    <3> QED BY <3>1 DEF get_parser, CommonTypes
  <2> QED BY <2>5, <2>6
<1>7. CASE /\ type \in {"TEXT_INPUT", "TEXT_GET"} /\ m \in YATextInputEventRequest
           /\ Len(m.text) < MaxLength /\ \A i \in 1..Len(m.text) : m.text[i] # 0
           /\ \E l \in LengthForms(Len(m.text)) : Begins(b, l \o m.text)
  <2>1. PICK l \in LengthForms(Len(m.text)) : Begins(b, l \o m.text)
    BY <1>7
  <2>2. m.text \in Data /\ m = [text |-> m.text]
    BY <1>7 DEF YATextInputEventRequest
  <2>3. parse_text(Ok(b)) = m
    BY <1>2, <1>7, <2>1, <2>2, TextRead
  <2>4. get_parser(type, Ok(b)) = parse_text(Ok(b))
    <3>1. type \in {"TEXT_INPUT", "TEXT_GET"}
      BY <1>7
    <3> QED BY <3>1 DEF get_parser, CommonTypes
  <2> QED BY <2>3, <2>4
<1>8. CASE /\ type = "AUTHORIZE" /\ m \in YAAuthorizeEventRequest
           /\ \E t \in UnsignedForms(m.type), v \in UnsignedForms(m.version) : FieldsOf(b, t \o v)
  <2>1. PICK t \in UnsignedForms(m.type), v \in UnsignedForms(m.version) : FieldsOf(b, t \o v)
    BY <1>8
  <2>2. m.type \in Word32 /\ m.version \in Word32 /\ m = [type |-> m.type, version |-> m.version]
    BY <1>8 DEF YAAuthorizeEventRequest
  <2> DEFINE a == ArrayOf(Ok(b), <<"u32", "u32">>)
  <2>3. a = <<m.type, m.version>>
    BY <1>2, <2>1, <2>2, TwoUnsigned DEF FieldsOf
  <2>4. parse_authorize_request(Ok(b)) = [type |-> a[1], version |-> a[2]]
    BY Zenon DEF parse_authorize_request
  <2> HIDE DEF a
  <2>5. parse_authorize_request(Ok(b)) = m
    BY <2>2, <2>3, <2>4
  <2>6. get_parser(type, Ok(b)) = parse_authorize_request(Ok(b))
    <3>1. type = "AUTHORIZE"
      BY <1>8
    <3> QED BY <3>1 DEF get_parser, CommonTypes
  <2> QED BY <2>5, <2>6
<1>9. CASE /\ type = "SESSION_OPTION" /\ m \in YASessionOptionEventRequest
           /\ FieldsOf(b, <<\hCA>> \o m.pointer_scale)
  <2>1. m.pointer_scale \in Word32 /\ m = [pointer_scale |-> m.pointer_scale]
    BY <1>9 DEF YASessionOptionEventRequest
  <2>2. ArrayOf(Ok(b), <<"float">>)[1] = m.pointer_scale
    BY <1>2, <1>9, <2>1, FloatRead DEF FieldsOf
  <2>3. get_parser(type, Ok(b)) = parse_session_option_request(Ok(b))
    <3>1. type = "SESSION_OPTION"
      BY <1>9
    <3> QED BY <3>1 DEF get_parser, CommonTypes
  <2>4. parse_session_option_request(Ok(b)) = [pointer_scale |-> ArrayOf(Ok(b), <<"float">>)[1]]
    BY Zenon DEF parse_session_option_request
  <2> QED BY <2>1, <2>2, <2>3, <2>4
<1>10. CASE /\ type = "DISCOVER" /\ m \in YADiscoverEventRequest
            /\ \E t \in UnsignedForms(m.magic) : Begins(b, t)
  <2>1. PICK t \in UnsignedForms(m.magic) : Begins(b, t)
    BY <1>10
  <2>2. m.magic \in Word32 /\ m = [magic |-> m.magic]
    BY <1>10 DEF YADiscoverEventRequest
  <2>3. mpack_expect_u32(Ok(b)).v = m.magic
    BY <1>2, <2>1, <2>2, MagicRead
  <2>4. get_parser(type, Ok(b)) = parse_discover_request(Ok(b))
    <3>1. type = "DISCOVER"
      BY <1>10
    <3> QED BY <3>1 DEF get_parser, CommonTypes
  <2>5. parse_discover_request(Ok(b)) = [magic |-> mpack_expect_u32(Ok(b)).v]
    BY Zenon DEF parse_discover_request
  <2> QED BY <2>2, <2>3, <2>4, <2>5
<1>11. get_parser(type, Ok(b)) = m
  BY <1>3, <1>4, <1>5, <1>6, <1>7, <1>8, <1>9, <1>10
<1> QED BY <1>11

---------------------------------------------------------------------------
(* A session's bytes. *)

---------------------------------------------------------------------------
(* The bytes of packages in a row.  FramesFrom(s, g, m) says that g holds what *)
(* starts at each place from m on.                                            *)

FramesFrom(s, g, m) ==
    g = [i \in m..Len(s) + 1 |-> IF i > Len(s) THEN <<>> ELSE Frame(s[i]) \o g[i + 1]]

Framed(s) == \A i \in 1..Len(s) : Frame(s[i]) \in Data

\* The recursion that lays packages one after another has a value.
LEMMA FramesExist ==
    ASSUME NEW s, Len(s) \in Nat
    PROVE  \E g : FramesFrom(s, g, 1)
<1> DEFINE L == Len(s)
           T == {k \in 0..L : ~ \E g : FramesFrom(s, g, L + 1 - k)}
<1>1. L \in Nat
  OBVIOUS
<1> HIDE DEF L
<1>2. T = {}
  <2>1. SUFFICES ASSUME T # {} PROVE FALSE
    OBVIOUS
  <2>2. PICK k \in T : \A j \in T : k <= j
    <3>1. T \in SUBSET Nat
      BY <1>1
    <3> HIDE DEF T
    <3> QED BY <2>1, <3>1, LeastElement
  <2>3. k \in 0..L /\ ~ \E g : FramesFrom(s, g, L + 1 - k)
    BY <2>2
  <2>4. CASE k = 0
    <3> DEFINE g == [i \in L + 1..L + 1 |-> <<>>]
    <3>1. L + 1 - k = L + 1 /\ \A i \in L + 1..L + 1 : i > L
      BY <1>1, <2>4
    <3>2. g = [i \in L + 1..L + 1 |-> IF i > L THEN <<>> ELSE Frame(s[i]) \o g[i + 1]]
      BY <3>1
    <3> HIDE DEF g
    <3>3. FramesFrom(s, g, L + 1)
      BY <3>2, Zenon DEF FramesFrom, L
    <3> QED BY <2>3, <3>1, <3>3
  <2>5. CASE k # 0
    <3>1. k - 1 \in 0..L /\ ~ k <= k - 1 /\ L + 1 - (k - 1) = L + 2 - k /\ L + 1 - k \in 1..L
          /\ L + 2 - k = (L + 1 - k) + 1
      BY <1>1, <2>3, <2>5
    <3>2. k - 1 \notin T
      <4> HIDE DEF T
      <4> QED BY <2>2, <3>1
    <3>3. PICK g : FramesFrom(s, g, L + 2 - k)
      <4>1. \E g : FramesFrom(s, g, L + 1 - (k - 1))
        BY <3>1, <3>2
      <4> QED BY <3>1, <4>1
    <3> DEFINE m == L + 1 - k
               h == [i \in m..L + 1 |-> IF i = m THEN Frame(s[m]) \o g[m + 1] ELSE g[i]]
    <3>4. m \in 1..L /\ L + 2 - k = m + 1
      BY <3>1
    <3> HIDE DEF m
    <3>5. g = [i \in m + 1..L + 1 |-> IF i > L THEN <<>> ELSE Frame(s[i]) \o g[i + 1]]
      BY <3>3, <3>4 DEF FramesFrom, L
    <3>6. \A i \in m..L + 1 : h[i] = IF i > L THEN <<>> ELSE Frame(s[i]) \o h[i + 1]
      <4>1. TAKE i \in m..L + 1
      <4>2. CASE i = m
        <5>1. h[i] = Frame(s[i]) \o g[i + 1] /\ h[i + 1] = g[i + 1] /\ ~ i > L
          <6>1. i + 1 \in m..L + 1 /\ i + 1 # m /\ ~ i > L
            BY <1>1, <3>4, <4>2
          <6>2. h[i] = Frame(s[i]) \o g[i + 1]
            BY <4>2
          <6>3. h[i + 1] = g[i + 1]
            BY <6>1
          <6> QED BY <6>1, <6>2, <6>3
        <5> HIDE DEF h
        <5> QED BY <5>1
      <4>3. CASE i # m /\ i <= L
        <5>1. h[i] = g[i] /\ h[i + 1] = g[i + 1] /\ ~ i > L /\ i \in m + 1..L + 1
          BY <1>1, <3>4, <4>3
        <5> HIDE DEF h
        <5>2. g[i] = Frame(s[i]) \o g[i + 1]
          BY <3>5, <5>1
        <5> QED BY <5>1, <5>2
      <4>4. CASE i > L
        <5>1. h[i] = g[i] /\ i \in m + 1..L + 1
          BY <1>1, <3>4, <4>4
        <5> HIDE DEF h
        <5>2. g[i] = <<>>
          BY <3>5, <4>4, <5>1
        <5> QED BY <4>4, <5>1, <5>2
      <4> QED BY <1>1, <3>4, <4>2, <4>3, <4>4
    <3>7. h = [i \in m..L + 1 |-> h[i]]
      OBVIOUS
    <3> HIDE DEF h
    <3>8. h = [i \in m..L + 1 |-> IF i > L THEN <<>> ELSE Frame(s[i]) \o h[i + 1]]
      BY <3>6, <3>7
    <3>9. FramesFrom(s, h, m)
      BY <3>8, Zenon DEF FramesFrom, L
    <3> QED BY <2>3, <3>9 DEF m
  <2> QED BY <2>4, <2>5
<1>3. L \in 0..L /\ L + 1 - L = 1
  BY <1>1
<1>4. \E g : FramesFrom(s, g, L + 1 - L)
  BY <1>2, <1>3
<1> QED BY <1>3, <1>4

\* Frames is what that recursion says.
LEMMA FramesIs ==
    ASSUME NEW s, Len(s) \in Nat, NEW f, FramesFrom(s, f, 1)
    PROVE  Frames(s) = f[1]
<1> DEFINE g == CHOOSE g : FramesFrom(s, g, 1)  L == Len(s)
<1>1. FramesFrom(s, g, 1)
  OBVIOUS
<1>2. Frames(s) = g[1]
  BY Zenon DEF Frames, FramesFrom
<1>3. L \in Nat
  OBVIOUS
<1>4. \A i \in 1..L + 1 : /\ f[i] = IF i > L THEN <<>> ELSE Frame(s[i]) \o f[i + 1]
                          /\ g[i] = IF i > L THEN <<>> ELSE Frame(s[i]) \o g[i + 1]
  <2> HIDE DEF g
  <2>1. f = [i \in 1..L + 1 |-> IF i > L THEN <<>> ELSE Frame(s[i]) \o f[i + 1]]
    BY Zenon DEF FramesFrom
  <2>2. g = [i \in 1..L + 1 |-> IF i > L THEN <<>> ELSE Frame(s[i]) \o g[i + 1]]
    BY <1>1, Zenon DEF FramesFrom
  <2> HIDE DEF L
  <2> QED BY <2>1, <2>2
<1> HIDE DEF g, L
<1> DEFINE T == {k \in 0..L : f[L + 1 - k] # g[L + 1 - k]}
<1>5. T = {}
  <2>1. SUFFICES ASSUME T # {} PROVE FALSE
    OBVIOUS
  <2>2. PICK k \in T : \A j \in T : k <= j
    <3>1. T \in SUBSET Nat
      BY <1>3
    <3> HIDE DEF T
    <3> QED BY <2>1, <3>1, LeastElement
  <2>3. k \in 0..L /\ f[L + 1 - k] # g[L + 1 - k]
    BY <2>2
  <2>4. CASE k = 0
    <3>1. L + 1 - k \in 1..L + 1 /\ L + 1 - k > L
      BY <1>3, <2>4
    <3> QED BY <1>4, <2>3, <3>1
  <2>5. CASE k # 0
    <3>1. k - 1 \in 0..L /\ ~ k <= k - 1 /\ L + 1 - (k - 1) = (L + 1 - k) + 1 /\ L + 1 - k \in 1..L + 1
          /\ ~ L + 1 - k > L
      BY <1>3, <2>3, <2>5
    <3>2. k - 1 \notin T
      <4> HIDE DEF T
      <4> QED BY <2>2, <3>1
    <3>3. f[(L + 1 - k) + 1] = g[(L + 1 - k) + 1]
      BY <3>1, <3>2
    <3> DEFINE i == L + 1 - k
    <3>4. i \in 1..L + 1 /\ ~ i > L /\ f[i + 1] = g[i + 1] /\ f[i] # g[i]
      BY <2>3, <3>1, <3>3
    <3> HIDE DEF i
    <3> QED BY <1>4, <3>4
  <2> QED BY <2>4, <2>5
<1>6. L \in 0..L /\ L + 1 - L = 1
  BY <1>3
<1>7. f[1] = g[1]
  BY <1>5, <1>6
<1> QED BY <1>2, <1>7

\* What starts at each place.
FromEach(s, g) ==
    /\ g[Len(s) + 1] = <<>>
    /\ \A i \in 1..Len(s) : g[i] = Frame(s[i]) \o g[i + 1]
    /\ \A i \in 1..Len(s) + 1 : g[i] \in Data

\* The bytes of a session from each of its packages on.
LEMMA FramesEach ==
    ASSUME NEW s, Len(s) \in Nat, Framed(s)
    PROVE  \E g : Frames(s) = g[1] /\ FromEach(s, g)
<1> DEFINE L == Len(s)
<1>1. PICK g : FramesFrom(s, g, 1)
  BY FramesExist
<1>2. Frames(s) = g[1]
  BY <1>1, FramesIs
<1>3. L \in Nat
  OBVIOUS
<1>4. g = [i \in 1..L + 1 |-> IF i > L THEN <<>> ELSE Frame(s[i]) \o g[i + 1]]
  BY <1>1, Zenon DEF FramesFrom
<1>5. \A i \in 1..L : Frame(s[i]) \in Data
  BY DEF Framed
<1>6. <<>> \in Data
  BY DEF Data
<1> HIDE DEF L
<1>7. g[L + 1] = <<>> /\ \A i \in 1..L : g[i] = Frame(s[i]) \o g[i + 1]
  <2>1. \A i \in 1..L + 1 : g[i] = IF i > L THEN <<>> ELSE Frame(s[i]) \o g[i + 1]
    BY <1>4
  <2>2. L + 1 \in 1..L + 1 /\ L + 1 > L /\ \A i \in 1..L : i \in 1..L + 1 /\ ~ i > L
    BY <1>3
  <2> QED BY <2>1, <2>2
<1> DEFINE T == {k \in 0..L : g[L + 1 - k] \notin Data}
<1>8. T = {}
  <2>1. SUFFICES ASSUME T # {} PROVE FALSE
    OBVIOUS
  <2>2. PICK k \in T : \A j \in T : k <= j
    <3>1. T \in SUBSET Nat
      BY <1>3
    <3> HIDE DEF T
    <3> QED BY <2>1, <3>1, LeastElement
  <2>3. k \in 0..L /\ g[L + 1 - k] \notin Data
    BY <2>2
  <2>4. CASE k = 0
    <3>1. L + 1 - k = L + 1
      BY <1>3, <2>4
    <3> QED BY <1>6, <1>7, <2>3, <3>1
  <2>5. CASE k # 0
    <3>1. k - 1 \in 0..L /\ ~ k <= k - 1 /\ L + 1 - (k - 1) = (L + 1 - k) + 1 /\ L + 1 - k \in 1..L
      BY <1>3, <2>3, <2>5
    <3>2. k - 1 \notin T
      <4> HIDE DEF T
      <4> QED BY <2>2, <3>1
    <3>3. g[(L + 1 - k) + 1] \in Data
      BY <3>1, <3>2
    <3> DEFINE i == L + 1 - k
    <3>4. i \in 1..L /\ g[i + 1] \in Data /\ g[i] \notin Data
      BY <2>3, <3>1, <3>3
    <3> HIDE DEF i, T
    <3>5. PICK a \in Data, b \in Data : a = Frame(s[i]) /\ b = g[i + 1]
      BY <1>5, <3>4
    <3>6. a \o b \in Data
      BY JoinedData
    <3> QED BY <1>7, <3>4, <3>5, <3>6
  <2> QED BY <2>4, <2>5
<1>9. \A i \in 1..L + 1 : g[i] \in Data
  <2>1. TAKE i \in 1..L + 1
  <2>2. L + 1 - i \in 0..L /\ L + 1 - (L + 1 - i) = i
    BY <1>3
  <2> QED BY <1>8, <2>2
<1> QED BY <1>2, <1>7, <1>9 DEF FromEach, L

\* Whatever satisfies the recursion from each package on is Frames.
LEMMA FramesAre ==
    ASSUME NEW s, Len(s) \in Nat, Framed(s), NEW f, FromEach(s, f)
    PROVE  Frames(s) = f[1]
<1> DEFINE L == Len(s)
           h == [i \in 1..L + 1 |-> f[i]]
<1>1. L \in Nat
  OBVIOUS
<1>2. f[L + 1] = <<>> /\ \A i \in 1..L : f[i] = Frame(s[i]) \o f[i + 1]
  BY DEF FromEach
<1> HIDE DEF L
<1>3. \A i \in 1..L + 1 : h[i] = IF i > L THEN <<>> ELSE Frame(s[i]) \o h[i + 1]
  <2>1. TAKE i \in 1..L + 1
  <2>2. CASE i > L
    <3>1. i = L + 1
      BY <1>1, <2>2
    <3> QED BY <1>2, <2>2, <3>1
  <2>3. CASE ~ i > L
    <3>1. i \in 1..L /\ i + 1 \in 1..L + 1
      BY <1>1, <2>3
    <3>2. h[i] = f[i] /\ h[i + 1] = f[i + 1]
      BY <3>1
    <3> HIDE DEF h
    <3> QED BY <1>2, <2>3, <3>1, <3>2
  <2> QED BY <2>2, <2>3
<1>4. h = [i \in 1..L + 1 |-> h[i]]
  OBVIOUS
<1>5. 1 \in 1..L + 1
  BY <1>1
<1>6. h[1] = f[1]
  BY <1>5
<1> HIDE DEF h
<1>7. h = [i \in 1..L + 1 |-> IF i > L THEN <<>> ELSE Frame(s[i]) \o h[i + 1]]
  BY <1>3, <1>4
<1>8. FramesFrom(s, h, 1)
  BY <1>7, Zenon DEF FramesFrom, L
<1>9. Frames(s) = h[1]
  BY <1>8, FramesIs
<1> QED BY <1>6, <1>9

\* The bytes of a session are bytes.
LEMMA FramesData ==
    ASSUME NEW s, Len(s) \in Nat, Framed(s)
    PROVE  Frames(s) \in Data
<1>1. PICK g : Frames(s) = g[1] /\ FromEach(s, g)
  BY FramesEach
<1>2. 1 \in 1..Len(s) + 1
  OBVIOUS
<1> QED BY <1>1, <1>2 DEF FromEach

\* No package, no byte.
LEMMA FramesNone ==
    ASSUME NEW s, Len(s) = 0
    PROVE  Frames(s) = <<>>
<1>1. Framed(s) /\ Len(s) \in Nat
  BY DEF Framed
<1>2. PICK g : Frames(s) = g[1] /\ FromEach(s, g)
  BY <1>1, FramesEach
<1> QED BY <1>2 DEF FromEach

\* The first package and the others.
LEMMA FramesFirst ==
    ASSUME NEW s, NEW t, Len(s) \in Nat, Len(s) >= 1, Len(t) = Len(s) - 1, Framed(s),
           \A i \in 1..Len(t) : t[i] = s[i + 1]
    PROVE  Frames(s) = Frame(s[1]) \o Frames(t) /\ Frame(s[1]) \in Data /\ Frames(t) \in Data
<1> DEFINE L == Len(s)  M == Len(t)
<1>1. L \in Nat /\ L >= 1 /\ M = L - 1 /\ (\A i \in 1..L : Frame(s[i]) \in Data) /\ \A i \in 1..M : t[i] = s[i + 1]
  BY DEF Framed
<1>2. PICK g : Frames(s) = g[1] /\ FromEach(s, g)
  BY FramesEach
<1> DEFINE f == [i \in 1..M + 1 |-> g[i + 1]]
<1>3. g[L + 1] = <<>> /\ (\A i \in 1..L : g[i] = Frame(s[i]) \o g[i + 1]) /\ \A i \in 1..L + 1 : g[i] \in Data
  BY <1>2 DEF FromEach
<1> HIDE DEF L, M
<1>4. f[M + 1] = <<>>
  <2>1. M + 1 \in 1..M + 1 /\ M + 1 + 1 = L + 1
    BY <1>1
  <2>2. f[M + 1] = g[M + 1 + 1]
    BY <2>1
  <2> HIDE DEF f
  <2> QED BY <1>3, <2>1, <2>2
<1>5. \A i \in 1..M : f[i] = Frame(t[i]) \o f[i + 1]
  <2>1. TAKE i \in 1..M
  <2>2. i \in 1..M + 1 /\ i + 1 \in 1..M + 1 /\ i + 1 \in 1..L
    BY <1>1
  <2>3. f[i] = g[i + 1] /\ f[i + 1] = g[i + 1 + 1]
    BY <2>2
  <2> HIDE DEF f
  <2>4. g[i + 1] = Frame(s[i + 1]) \o g[i + 1 + 1]
    BY <1>3, <2>2
  <2> QED BY <1>1, <2>3, <2>4
<1>6. \A i \in 1..M + 1 : f[i] \in Data
  <2>1. \A i \in 1..M + 1 : i + 1 \in 1..L + 1
    BY <1>1
  <2> QED BY <1>3, <2>1
<1>7. \A i \in 1..M : Frame(t[i]) \in Data
  <2>1. \A i \in 1..M : i + 1 \in 1..L
    BY <1>1
  <2> QED BY <1>1, <2>1
<1>8. f[1] = g[2] /\ 1 \in 1..L
  <2>1. 1 \in 1..M + 1 /\ 1 + 1 = 2 /\ 1 \in 1..L
    BY <1>1
  <2> QED BY <2>1
<1> HIDE DEF f
<1>9. Frames(t) = f[1]
  <2>1. FromEach(t, f) /\ Framed(t) /\ Len(t) \in Nat
    <3>1. M \in Nat
      BY <1>1
    <3> QED BY <3>1, <1>4, <1>5, <1>6, <1>7 DEF FromEach, Framed, M
  <2> QED BY <2>1, FramesAre
<1>10. f[1] \in Data
  <2>1. 1 \in 1..M + 1
    BY <1>1
  <2> QED BY <1>6, <2>1
<1>11. g[1] = Frame(s[1]) \o g[2]
  <2>1. 1 + 1 = 2
    OBVIOUS
  <2> QED BY <1>3, <1>8, <2>1
<1> QED BY <1>1, <1>2, <1>8, <1>9, <1>10, <1>11

\* The others and the last package.
LEMMA FramesLast ==
    ASSUME NEW s, NEW t, NEW p, Len(t) \in Nat, Len(s) = Len(t) + 1, Framed(s),
           \A i \in 1..Len(t) : t[i] = s[i], s[Len(s)] = p
    PROVE  Frames(s) = Frames(t) \o Frame(p) /\ Frame(p) \in Data /\ Frames(t) \in Data
<1> DEFINE L == Len(s)  M == Len(t)
<1>1. M \in Nat /\ L = M + 1 /\ (\A i \in 1..L : Frame(s[i]) \in Data) /\ (\A i \in 1..M : t[i] = s[i]) /\ s[L] = p
  BY DEF Framed
<1> HIDE DEF L, M
<1>2. \A i \in 1..M : Frame(t[i]) \in Data
  <2>1. \A i \in 1..M : i \in 1..L
    BY <1>1
  <2> QED BY <1>1, <2>1
<1>3. PICK z \in Data : z = Frame(p)
  <2>1. L \in 1..L
    BY <1>1
  <2> QED BY <1>1, <2>1
<1>4. Framed(t) /\ Len(t) \in Nat
  BY <1>1, <1>2 DEF Framed, M
<1>5. PICK g : Frames(t) = g[1] /\ FromEach(t, g)
  BY <1>4, FramesEach
<1>6. g[M + 1] = <<>> /\ (\A i \in 1..M : g[i] = Frame(t[i]) \o g[i + 1]) /\ \A i \in 1..M + 1 : g[i] \in Data
  BY <1>5 DEF FromEach, M
<1> DEFINE f == [i \in 1..L + 1 |-> IF i = L + 1 THEN <<>> ELSE g[i] \o z]
<1>7. f[L + 1] = <<>>
  <2>1. L + 1 \in 1..L + 1
    BY <1>1
  <2> QED BY <2>1
<1>8. \A i \in 1..L : f[i] = g[i] \o z
  <2>1. \A i \in 1..L : i \in 1..L + 1 /\ i # L + 1
    BY <1>1
  <2> QED BY <2>1
<1>9. \A i \in 1..L + 1 : f[i] \in Data
  <2>1. TAKE i \in 1..L + 1
  <2>2. CASE i = L + 1
    <3>1. f[i] = <<>>
      BY <1>7, <2>2
    <3> HIDE DEF f
    <3> QED BY <3>1 DEF Data
  <2>3. CASE i # L + 1
    <3>1. i \in 1..M + 1 /\ i \in 1..L
      BY <1>1, <2>3
    <3> HIDE DEF f
    <3>2. PICK a \in Data : a = g[i]
      BY <1>6, <3>1
    <3>3. a \o z \in Data
      BY JoinedData
    <3> QED BY <1>8, <3>1, <3>2, <3>3
  <2> QED BY <2>2, <2>3
<1> HIDE DEF f
<1>10. \A i \in 1..L : f[i] = Frame(s[i]) \o f[i + 1]
  <2>1. TAKE i \in 1..L
  <2>2. CASE i = L
    <3>1. i = M + 1 /\ f[i + 1] = <<>> /\ Frame(s[i]) = z
      BY <1>1, <1>3, <1>7, <2>2
    <3>2. f[i] = <<>> \o z
      BY <1>6, <1>8, <2>2, <3>1
    <3>3. <<>> \o z = z /\ z \o <<>> = z
      BY JoinedEmpty
    <3> QED BY <3>1, <3>2, <3>3
  <2>3. CASE i # L
    <3>1. i \in 1..M /\ i + 1 \in 1..L /\ i + 1 \in 1..M + 1
      BY <1>1, <2>3
    <3>2. PICK a \in Data, b \in Data : a = Frame(t[i]) /\ b = g[i + 1]
      BY <1>2, <1>6, <3>1
    <3>3. (a \o b) \o z = a \o (b \o z)
      BY Joined3
    <3>4. f[i] = g[i] \o z /\ f[i + 1] = g[i + 1] \o z /\ g[i] = Frame(t[i]) \o g[i + 1] /\ t[i] = s[i]
      BY <1>1, <1>6, <1>8, <3>1
    <3> QED BY <3>2, <3>3, <3>4
  <2> QED BY <2>2, <2>3
<1>11. Frames(s) = f[1]
  <2>1. FromEach(s, f) /\ Len(s) \in Nat
    <3>1. L \in Nat
      BY <1>1
    <3> QED BY <3>1, <1>7, <1>9, <1>10 DEF FromEach, L
  <2> QED BY <2>1, FramesAre
<1>12. f[1] = g[1] \o z /\ g[1] \in Data
  <2>1. 1 \in 1..L /\ 1 \in 1..M + 1
    BY <1>1
  <2> QED BY <1>6, <1>8, <2>1
<1> QED BY <1>3, <1>5, <1>11, <1>12

---------------------------------------------------------------------------
(* The head of a stream. *)

\* Joined3, where the parts come as one hypothesis.
LEMMA ThreeJoined == \A x, y, z : FiveData(x, y, z, z, z) => (x \o y) \o z = x \o (y \o z)
<1> SUFFICES ASSUME NEW x, NEW y, NEW z, FiveData(x, y, z, z, z)
             PROVE  (x \o y) \o z = x \o (y \o z)
  OBVIOUS
<1>1. x \in Data /\ y \in Data /\ z \in Data
  BY Zenon DEF FiveData
<1> QED BY <1>1, Assoc, SMTT(30)

\* The pieces of a stream in two cuttings, and that the first begins with the second's.
Splits(in, tail, f, d) == in \o tail = f \o d /\ Len(in) >= Len(f)
SplitAs(in, tail, f, d) == \E r \in Data : in = f \o r /\ r \o tail = d

\* What has arrived holds the first part of a stream: what is left of it goes on as the stream does.
LEMMA SplitStream ==
    ASSUME NEW in \in Data, NEW tail \in Data, NEW f \in Data, NEW d \in Data, Splits(in, tail, f, d)
    PROVE  SplitAs(in, tail, f, d)
<1> DEFINE k == Len(f)  n == Len(in)
<1>0. in \o tail = f \o d /\ Len(in) >= Len(f)
  BY Zenon DEF Splits
<1>1. k \in Nat /\ n \in Nat /\ n >= k
  BY <1>0, Cut
<1>2. SubSeq(in, 1, k) = f
  <2>1. PICK s \in Data : s = f \o d
    BY JoinedData
  <2>2. \A i \in 1..k : in[i] = s[i]
    <3> HIDE DEF k
    <3> QED BY <1>0, <1>1, <2>1, Arrived
  <2>3. \A i \in 1..k : s[i] = f[i]
    <3>1. f \in Seq(Byte) /\ d \in Seq(Byte)
      BY DEF Data
    <3>2. \A i \in 1..k + Len(d) : (f \o d)[i] = IF i <= k THEN f[i] ELSE d[i - k]
      BY <3>1, ConcatProperties
    <3> DEFINE l == Len(d)  g == f \o d
    <3>3. l \in Nat /\ \A i \in 1..k + l : g[i] = IF i <= k THEN f[i] ELSE d[i - k]
      BY <3>2, Cut
    <3> HIDE DEF k, l, g
    <3>4. \A i \in 1..k : g[i] = f[i]
      BY <1>1, <3>3
    <3> QED BY <2>1, <3>4 DEF g
  <2> DEFINE x == SubSeq(in, 1, k)
  <2>4. x \in Data /\ Len(x) = k /\ \A i \in 1..k : x[i] = in[i]
    <3> DEFINE m == 1
    <3>1. m \in Nat \ {0} /\ m <= k + 1 /\ k <= Len(in) /\ k - m + 1 = k /\ \A i \in 1..k : m + i - 1 = i
      BY <1>1
    <3> HIDE DEF m, k, n
    <3>2. SubSeq(in, m, k) \in Data /\ Len(SubSeq(in, m, k)) = k - m + 1
          /\ \A i \in 1..k - m + 1 : SubSeq(in, m, k)[i] = in[m + i - 1]
      BY <1>1, <3>1, PartOfData
    <3> QED BY <3>1, <3>2 DEF m
  <2> HIDE DEF x
  <2>5. x \in Seq(Byte) /\ f \in Seq(Byte) /\ Len(x) = Len(f)
    BY <2>4 DEF Data
  <2>6. \A i \in 1..Len(x) : x[i] = f[i]
    BY <2>2, <2>3, <2>4
  <2>7. x = f
    BY <2>5, <2>6, SeqEqual
  <2> QED BY <2>7 DEF x
<1>3. Begins(in, f)
  <2>1. k <= n
    <3> HIDE DEF k, n
    <3> QED BY <1>1
  <2> QED BY <1>2, <2>1 DEF Begins
<1>4. PICK r \in Data : in = f \o r
  BY <1>3, BeginsWith
<1>5. PICK t \in Data : t = r \o tail
  BY JoinedData
<1>6. f \o t = f \o d
  <2>1. (f \o r) \o tail = f \o (r \o tail)
    <3>1. f \in Data /\ r \in Data /\ tail \in Data
      OBVIOUS
    <3>2. FiveData(f, r, tail, tail, tail)
      BY <3>1 DEF FiveData
    <3> QED BY <3>2, ThreeJoined
  <2> QED BY <1>0, <1>4, <1>5, <2>1
<1>7. Drop(f \o t, k) = t /\ Drop(f \o d, k) = d
  BY Cut
<1> QED BY <1>0, <1>4, <1>5, <1>6, <1>7 DEF SplitAs

\* The sizes at the front are dropped before or after the rest has arrived.
LEMMA DropArrived ==
    ASSUME NEW in \in Data, NEW tail \in Data, Len(in) >= 8
    PROVE  Drop(in, 8) \in Data /\ Drop(in, 8) \o tail = Drop(in \o tail, 8)
<1> DEFINE n == 8  x == SubSeq(in, 1, n)  l == Len(in)
<1>1. n \in Nat /\ l \in Nat /\ l >= n
  BY Cut
<1>2. x \in Data /\ Len(x) = n
  <2> DEFINE m == 1
  <2>1. m \in Nat \ {0} /\ m <= n + 1 /\ n <= Len(in) /\ n - m + 1 = n
    BY <1>1
  <2> HIDE DEF m, n, l
  <2>2. SubSeq(in, m, n) \in Data /\ Len(SubSeq(in, m, n)) = n - m + 1
    BY <1>1, <2>1, PartOfData
  <2> QED BY <2>1, <2>2 DEF m
<1> HIDE DEF n
<1>3. Begins(in, x)
  <2>1. Len(x) <= Len(in) /\ SubSeq(in, 1, Len(x)) = x
    <3>1. n <= l
      <4> HIDE DEF l
      <4> QED BY <1>1
    <3> QED BY <1>2, <3>1
  <2> HIDE DEF x
  <2> QED BY <2>1, Zenon DEF Begins
<1> HIDE DEF x
<1>4. PICK r \in Data : in = x \o r
  BY <1>2, <1>3, BeginsWith
<1>5. Drop(in, n) = r
  BY <1>2, <1>4, Cut
<1>6. PICK t \in Data : t = r \o tail
  BY JoinedData
<1>7. in \o tail = x \o t
  <2>1. FiveData(x, r, tail, tail, tail)
    BY <1>2 DEF FiveData
  <2>2. (x \o r) \o tail = x \o (r \o tail)
    BY <2>1, ThreeJoined
  <2> QED BY <1>4, <1>6, <2>2
<1>8. Drop(x \o t, n) = t
  BY <1>2, Cut
<1> QED BY <1>5, <1>6, <1>7, <1>8 DEF n

\* The package at the head of a stream: found whole it is there, and it parses.
Sane(p) ==
    /\ Headed(p) /\ p.body \in Data /\ Carries(p)
    /\ Len(PhoneHeader(p)) + Len(p.body) + 4 < MaxLength

\* A package at the head of the stream: conn_readcb finds it whole only when all of it
\* is there, and what follows its sizes is the tag of an array, never the length of
\* anything.
LEMMA FrameFacts ==
    ASSUME NEW p, Sane(p), NEW d \in Data
    PROVE  /\ Frame(p) \in Data /\ Frame(p) \o d \in Data /\ Len(Frame(p)) \in Nat /\ Len(Frame(p)) >= 8
           /\ Drop(Frame(p) \o d, 8) \in Data /\ Drop(Frame(p) \o d, 8)[1] = 148
           /\ Len(Drop(Frame(p) \o d, 8)) <= Len(Frame(p) \o d)
           /\ \A in, tail \in Data : in \o tail = Frame(p) \o d /\ Whole(in) => Len(in) >= Len(Frame(p))
<1> DEFINE h == PhoneHeader(p)  b == p.body  k == Len(h)  l == Len(b)  s == Frame(p) \o d
           w == Word(k + l + 4, 4)  v == Word(k, 4)  t == b \o d  u == h \o t
<1>1. h \in Data /\ k \in 5..21 /\ h[1] = 148 /\ b \in Data /\ k + l + 4 < MaxLength /\ l \in Nat
  <2>1. Headed(p) /\ b \in Data /\ k + l + 4 < MaxLength
    BY DEF Sane
  <2>2. h \in Data /\ k \in 5..21 /\ h[1] = 148
    BY <2>1, HeaderForm
  <2>3. l \in Nat
    <3> HIDE DEF b
    <3> QED BY <2>1, Cut
  <2> QED BY <2>1, <2>2, <2>3
<1>2. Frame(p) = Combined(h, b)
  BY Zenon DEF Frame
<1> HIDE DEF h, b
<1>3. /\ Combined(h, b) \in Data /\ Len(Combined(h, b)) = k + l + 8
      /\ Combined(h, b) \o d \in Data /\ t \in Data /\ u \in Data
      /\ w \in Word32 /\ Length(w) = k + l + 4 /\ v \in Word32
      /\ Pieces5(Combined(h, b) \o d, w, v, h, b, d)
  <2>1. h \in Data /\ b \in Data /\ Len(h) + Len(b) + 4 < MaxLength
    BY <1>1
  <2> QED BY <2>1, FrameForm, Zenon
<1>4. s \in Data /\ Frame(p) \in Data /\ Len(Frame(p)) = k + l + 8
  BY <1>2, <1>3, Zenon
<1>5. s = w \o (v \o u)
  BY <1>2, <1>3, Zenon DEF Pieces5
<1> HIDE DEF w, v
<1>6. k \in Nat /\ k >= 1 /\ k + l + 8 \in Nat /\ k + l + 8 >= 8
  <2>1. k \in 5..21 /\ l \in Nat
    BY <1>1
  <2> HIDE DEF k, l
  <2> QED BY <2>1
<1>7. Drop(s, 8) = u
  <2>1. Drop(w \o (v \o u), 8) = u
    <3> HIDE DEF u
    <3> QED BY <1>3, AfterSizes
  <2> QED BY <1>5, <2>1
<1>8. u[1] = 148
  <2> HIDE DEF t
  <2>1. (h \o t)[1] = h[1]
    BY <1>1, <1>3, <1>6, FirstStays
  <2> QED BY <1>1, <2>1
<1>9. PICK y \in Data : y = v \o u
  <2>1. v \in Data
    BY <1>3, Word4
  <2> HIDE DEF u
  <2> QED BY <1>3, <2>1, JoinedData
<1>10. Len(u) <= Len(s)
  <2>1. w \in Data /\ v \in Data
    BY <1>3, Word4
  <2> HIDE DEF u, s
  <2>2. Len(y) = Len(v) + Len(u) /\ Len(s) = Len(w) + Len(y) /\ Len(u) \in Nat /\ Len(v) \in Nat /\ Len(w) \in Nat
        /\ Len(y) \in Nat
    <3>1. Len(v \o u) = Len(v) + Len(u) /\ Len(u) \in Nat /\ Len(v) \in Nat
      BY <1>3, <2>1, Cut
    <3>2. Len(w \o y) = Len(w) + Len(y) /\ Len(w) \in Nat /\ Len(y) \in Nat
      BY <1>3, <2>1, Cut
    <3> QED BY <1>5, <1>9, <3>1, <3>2
  <2> DEFINE a1 == Len(u)  a2 == Len(v)  a3 == Len(w)  a4 == Len(y)  a5 == Len(s)
  <2>3. a4 = a2 + a1 /\ a5 = a3 + a4 /\ a1 \in Nat /\ a2 \in Nat /\ a3 \in Nat
    BY <2>2
  <2> HIDE DEF a1, a2, a3, a4, a5
  <2>4. a1 <= a5
    BY <2>3
  <2> QED BY <2>4 DEF a1, a5
<1>11. ASSUME NEW in \in Data, NEW tail \in Data, in \o tail = s, Whole(in)
       PROVE  Len(in) >= Len(Frame(p))
  <2>1. in \o tail = w \o y
    BY <1>5, <1>9, <1>11
  <2>2. Len(in) >= Length(w) + 4
    BY <1>3, <1>11, <2>1, WholeThere
  <2> DEFINE n == Len(in)  f == Len(Frame(p))
  <2>3. n \in Nat /\ n >= k + l + 4 + 4 /\ f = k + l + 8
    BY <1>3, <1>4, <2>2, Cut
  <2>4. k \in Nat /\ l \in Nat
    BY <1>1, <1>6
  <2> HIDE DEF n, f, k, l
  <2>5. n >= f
    BY <2>3, <2>4
  <2> QED BY <2>5 DEF n, f
<1>12. Drop(s, 8) \in Data /\ Drop(s, 8)[1] = 148 /\ Len(Drop(s, 8)) <= Len(s)
  <2>1. u \in Data
    BY <1>3
  <2> HIDE DEF u, s
  <2> QED BY <1>7, <1>8, <1>10, <2>1
<1> QED BY <1>4, <1>6, <1>11, <1>12

---------------------------------------------------------------------------
(* The invariant of a session. *)

\* Every package of the phone is as PackagesAssumption says: its header and its body
\* can be read.
LEMMA PackageSane == \A p \in Packages \cup Datagrams \cup Searches : Sane(p)
<1> SUFFICES ASSUME NEW p \in Packages \cup Datagrams \cup Searches PROVE Sane(p)
  OBVIOUS
<1>1. /\ p.uid \in Word32 /\ p.index \in Word32 /\ p.code \in Byte /\ p.body \in Data
      /\ Len(PhoneHeader(p)) + Len(p.body) + 4 < MaxLength
      /\ Writes(p)
  BY PackagesAssumption
<1>2. Carries(p)
  BY <1>1, WritesCarries
<1> QED BY <1>1, <1>2 DEF Sane, Headed

\* A package's bytes.
LEMMA PackageFramed == \A p \in Packages \cup Datagrams \cup Searches : Frame(p) \in Data
<1> SUFFICES ASSUME NEW p \in Packages \cup Datagrams \cup Searches PROVE Frame(p) \in Data
  OBVIOUS
<1>1. <<>> \in Data
  BY DEF Data
<1> QED BY <1>1, PackageSane, FrameFacts

\* A session's packages have bytes.
LEMMA PackagesFramed == ASSUME NEW s \in Seq(Packages) PROVE Framed(s) /\ Len(s) \in Nat
<1>1. \A i \in 1..Len(s) : s[i] \in Packages
  OBVIOUS
<1> QED BY <1>1, PackageFramed DEF Framed

\* A session is too short for the tag of a header, taken for a length, to be reached.
LEMMA SessionShort ==
    ASSUME NEW s \in Seq(Packages), Len(s) <= MaxPackages
    PROVE  Len(Frames(s)) < MaxLength
<1>1. Len(s) \in 0..MaxPackages
  BY FramingAssumption
<1>2. s \in [1..Len(s) -> Packages]
  OBVIOUS
<1> QED BY <1>1, <1>2, PackagesAssumption

---------------------------------------------------------------------------
\* What is left of a session s when the events q came out of it.
Rest(s, q) == SubSeq(s, Len(q) + 1, Len(s))

SessionOK ==
    /\ sent \in Seq(Packages) /\ Len(sent) <= MaxPackages
    /\ wire \in Data /\ input \in Data
    /\ parsed \in Seq({Meant(p) : p \in Packages}) /\ Len(parsed) <= Len(sent)

InStepOf(rest, stream) ==
    \/ stream = Frames(rest)
    \/ rest # <<>> /\ ~ Readable(rest[1]) /\ stream = Drop(Frames(rest), 8)

\* What InStep says of the bytes.
StreamInStep ==
    LET rest == SubSeq(sent, Len(parsed) + 1, Len(sent))
    IN  \/ input \o wire = Frames(rest)
        \/ /\ rest # <<>> /\ ~ Readable(rest[1])
           /\ input \o wire = Drop(Frames(rest), 8)

StreamInv == SessionOK /\ StreamInStep /\ ParsedAsMeant

\* And what it says of the process.
SessionEnds ==
    ~ up /\ heard = Nothing =>
        \/ died = "sizes" /\ Len(input) < 4
        \/ parsed # <<>> /\ ~ Harmless(sent[Len(parsed)], "session")

FramingInv == StreamInv /\ SessionEnds

\* StreamInStep says InStepOf of what has not been parsed and what has not been read, before
\* and after a step.
LEMMA InStepIs == 
    /\ (StreamInStep <=> InStepOf(Rest(sent, parsed), input \o wire))
    /\ (StreamInStep' <=> InStepOf(Rest(sent', parsed'), input' \o wire'))
<1>1. StreamInStep <=> InStepOf(Rest(sent, parsed), input \o wire)
  BY Zenon DEF StreamInStep, InStepOf, Rest
<1>2. StreamInStep' <=> InStepOf(Rest(sent', parsed'), input' \o wire')
  BY Zenon DEF StreamInStep, InStepOf, Rest
<1> QED BY <1>1, <1>2

\* What is left of a session, package by package.
LEMMA RestIs ==
    ASSUME NEW s \in Seq(Packages), NEW q, Len(q) \in Nat, Len(q) <= Len(s), Len(s) <= MaxPackages
    PROVE  /\ Rest(s, q) \in Seq(Packages) /\ Len(Rest(s, q)) = Len(s) - Len(q)
           /\ Len(Rest(s, q)) \in Nat /\ Len(Rest(s, q)) <= MaxPackages
           /\ \A i \in 1..Len(Rest(s, q)) : Rest(s, q)[i] = s[Len(q) + i]
<1> DEFINE m == Len(q) + 1  n == Len(s)  r == SubSeq(s, m, n)
<1>1. s \in Seq(Packages) /\ n \in Nat /\ Len(q) \in Nat /\ Len(q) <= n /\ n <= MaxPackages /\ MaxPackages \in Nat
  BY FramingAssumption
<1>2. m \in Nat \ {0} /\ m <= n + 1
  BY <1>1
<1>3. r \in Seq(Packages) /\ Len(r) = (IF m <= n THEN n - m + 1 ELSE 0)
      /\ \A i \in 1..n - m + 1 : r[i] = s[m + i - 1]
  <2>1. \A i \in m..n : s[i] \in Packages
    <3>1. \A i \in m..n : i \in 1..Len(s)
      BY <1>1, <1>2
    <3> QED BY <1>1, <3>1
  <2>2. m \in 1..n + 1
    BY <1>1, <1>2
  <2> HIDE DEF m
  <2>3. m \in Int /\ n \in Int
    BY <1>1, <1>2
  <2> HIDE DEF n
  <2> QED BY <1>1, <2>1, <2>2, <2>3, SubSeqProperties DEF n
<1>4. Len(r) = n - Len(q)
  <2> DEFINE k == Len(q)
  <2> HIDE DEF r, n, k
  <2>1. k \in Nat /\ n \in Nat /\ k <= n /\ Len(r) = IF k + 1 <= n THEN n - (k + 1) + 1 ELSE 0
    BY <1>1, <1>3 DEF k
  <2>2. Len(r) = n - k
    BY <2>1
  <2> QED BY <2>2 DEF k
<1>5. \A i \in 1..n - Len(q) : r[i] = s[Len(q) + i]
  <2> DEFINE k == Len(q)
  <2>1. k \in Nat /\ n \in Nat /\ \A i \in 1..n - (k + 1) + 1 : r[i] = s[k + 1 + i - 1]
    BY <1>1, <1>3
  <2> HIDE DEF r, n, k
  <2>2. \A i \in 1..n - k : r[i] = s[k + i]
    <3>1. n - (k + 1) + 1 = n - k /\ \A i \in Nat : k + 1 + i - 1 = k + i
      BY <2>1
    <3>2. \A i \in 1..n - k : i \in Nat
      BY <2>1
    <3> QED BY <2>1, <3>1, <3>2
  <2> QED BY <2>2 DEF k
<1> HIDE DEF r
<1>6. Rest(s, q) = r
  BY DEF Rest, r
<1>7. n - Len(q) \in Nat /\ n - Len(q) <= MaxPackages
  BY <1>1
<1> HIDE DEF n
<1> QED BY <1>3, <1>4, <1>5, <1>6, <1>7 DEF n

\* Before the phone has written anything.
LEMMA FramingInit == Init => StreamInv
<1> SUFFICES ASSUME Init PROVE StreamInv
  OBVIOUS
<1>1. SessionOK
  <2>1. <<>> \in Data
    BY DEF Data
  <2>2. Len(<<>>) <= MaxPackages /\ <<>> \in Seq(Packages) /\ <<>> \in Seq({Meant(p) : p \in Packages})
    BY FramingAssumption
  <2> QED BY <2>1, <2>2 DEF Init, SessionOK
<1>2. StreamInStep
  <2>1. Rest(sent, parsed) = <<>>
    <3>1. sent = <<>> /\ parsed = <<>> /\ SubSeq(<<>>, Len(<<>>) + 1, Len(<<>>)) = <<>>
      BY DEF Init
    <3> QED BY <3>1 DEF Rest
  <2>2. Frames(Rest(sent, parsed)) = <<>>
    BY <2>1, FramesNone
  <2>3. input \o wire = <<>>
    BY DEF Init
  <2> QED BY <2>2, <2>3, InStepIs, Zenon DEF InStepOf
<1>3. ParsedAsMeant
  BY DEF Init, ParsedAsMeant
<1> QED BY <1>1, <1>2, <1>3 DEF StreamInv

---------------------------------------------------------------------------
(* What each step does to the stream. *)

\* The first package not parsed yet and the bytes of those after it.
LEMMA FirstOfRest ==
    ASSUME NEW rest \in Seq(Packages), rest # <<>>
    PROVE  /\ rest[1] \in Packages /\ Sane(rest[1]) /\ Frames(rest) = Frame(rest[1]) \o Frames(Tail(rest))
           /\ Frames(Tail(rest)) \in Data /\ Frames(rest) \in Data /\ Frame(rest[1]) \in Data
<1> DEFINE t == Tail(rest)
<1>1. Len(rest) \in Nat /\ Len(rest) >= 1 /\ rest[1] \in Packages
  BY EmptySeq
<1>2. t \in Seq(Packages) /\ Len(t) = Len(rest) - 1 /\ \A i \in 1..Len(t) : t[i] = rest[i + 1]
  BY HeadTailProperties
<1>3. Framed(rest)
  BY PackagesFramed
<1> HIDE DEF t
<1>4. Frames(rest) = Frame(rest[1]) \o Frames(t) /\ Frame(rest[1]) \in Data /\ Frames(t) \in Data
  BY <1>1, <1>2, <1>3, FramesFirst
<1>5. Frames(rest) \in Data
  BY <1>1, <1>3, FramesData
<1>6. Sane(rest[1])
  BY <1>1, PackageSane
<1> QED BY <1>1, <1>4, <1>5, <1>6 DEF t

\* What the phone writes goes to the end of the stream.
LEMMA WriteKeeps ==
    ASSUME NEW rest \in Seq(Packages), NEW more \in Seq(Packages), NEW p \in Packages, NEW stream \in Data,
           Len(more) = Len(rest) + 1, \A i \in 1..Len(rest) : rest[i] = more[i], more[Len(more)] = p,
           InStepOf(rest, stream)
    PROVE  InStepOf(more, stream \o Frame(p))
<1>1. Frames(more) = Frames(rest) \o Frame(p) /\ Frame(p) \in Data /\ Frames(rest) \in Data
  <2>1. Framed(more) /\ Len(rest) \in Nat
    BY PackagesFramed
  <2> QED BY <2>1, FramesLast
<1>2. CASE stream = Frames(rest)
  BY <1>1, <1>2, Zenon DEF InStepOf
<1>3. CASE rest # <<>> /\ ~ Readable(rest[1]) /\ stream = Drop(Frames(rest), 8)
  <2>1. more # <<>> /\ more[1] = rest[1]
    <3>1. Len(rest) \in Nat /\ Len(rest) >= 1
      BY <1>3, EmptySeq
    <3>2. 1 \in 1..Len(rest)
      BY <3>1
    <3> QED BY <3>1, <3>2
  <2>2. Len(Frames(rest)) >= 8
    <3>1. /\ Sane(rest[1]) /\ Frames(rest) = Frame(rest[1]) \o Frames(Tail(rest))
          /\ Frames(Tail(rest)) \in Data /\ Frame(rest[1]) \in Data
      BY <1>3, FirstOfRest
    <3>2. PICK f \in Data, d \in Data : f = Frame(rest[1]) /\ d = Frames(Tail(rest))
      BY <3>1
    <3>3. Len(f) >= 8
      BY <3>1, <3>2, FrameFacts
    <3>4. Len(f \o d) = Len(f) + Len(d) /\ Len(f) \in Nat /\ Len(d) \in Nat
      BY Cut
    <3> DEFINE k == Len(f)  l == Len(d)  m == Len(Frames(rest))
    <3>5. k \in Nat /\ l \in Nat /\ k >= 8 /\ m = k + l
      BY <3>1, <3>2, <3>3, <3>4
    <3> HIDE DEF k, l, m
    <3>6. m >= 8
      BY <3>5
    <3> QED BY <3>6 DEF m
  <2>3. PICK a \in Data, f \in Data : a = Frames(rest) /\ f = Frame(p)
    BY <1>1
  <2>4. Drop(a, 8) \o f = Drop(a \o f, 8)
    BY <2>2, <2>3, DropArrived
  <2>5. stream \o Frame(p) = Drop(Frames(more), 8)
    BY <1>1, <1>3, <2>3, <2>4
  <2> QED BY <1>3, <2>1, <2>5 DEF InStepOf
<1> QED BY <1>2, <1>3, Zenon DEF InStepOf

\* What the session finds whole is the first package that has not been parsed.
LEMMA ReadKeeps ==
    ASSUME NEW rest \in Seq(Packages), Len(rest) <= MaxPackages, NEW in \in Data, NEW tail \in Data,
           InStepOf(rest, in \o tail), Whole(in)
    PROVE  LET got == ya_parse_event(Drop(in, 8), ya_get_package_size(in))
           IN  /\ rest # <<>> /\ got.left \in Data
               /\ Readable(rest[1]) => got.ok /\ got.event = Meant(rest[1]) /\ got.left \o tail = Frames(Tail(rest))
               /\ ~ Readable(rest[1]) => ~ got.ok /\ got.left \o tail = Drop(Frames(rest), 8)
<1> DEFINE got == ya_parse_event(Drop(in, 8), ya_get_package_size(in))
<1>1. in \o tail \in Data
  BY JoinedData
<1>2. CASE in \o tail = Frames(rest)
  <2>1. rest # <<>>
    <3>1. SUFFICES ASSUME rest = <<>> PROVE FALSE
      OBVIOUS
    <3>2. Frames(rest) = <<>>
      BY <3>1, FramesNone
    <3>3. Len(in) = 0
      <4>1. Len(in \o tail) = Len(in) + Len(tail) /\ Len(in) \in Nat /\ Len(tail) \in Nat
        BY Cut
      <4>2. Len(in \o tail) = 0
        BY <1>2, <3>2
      <4> QED BY <4>1, <4>2
    <3> DEFINE t == Length(to_uint32(in, 0))  n == Len(in)
    <3>4. t \in Nat
      BY PartWord
    <3>5. n >= t + 4
      <4>1. ya_get_package_size(in).total = t
        BY DEF ya_get_package_size
      <4> QED BY <4>1 DEF Whole
    <3>6. n = 0
      BY <3>3
    <3> HIDE DEF t, n
    <3> QED BY <3>4, <3>5, <3>6
  <2> DEFINE p == rest[1]
  <2>2. /\ p \in Packages /\ Sane(p) /\ Frames(rest) = Frame(p) \o Frames(Tail(rest))
        /\ Frames(Tail(rest)) \in Data /\ Frame(p) \in Data
    BY <2>1, FirstOfRest
  <2> HIDE DEF p
  <2>3. PICK d \in Data : d = Frames(Tail(rest))
    BY <2>2
  <2>4. in \o tail = Frame(p) \o d
    BY <1>2, <2>2, <2>3
  <2>5. Len(in) >= Len(Frame(p)) /\ Len(Frame(p)) >= 8 /\ Len(Frame(p)) \in Nat
    BY <2>2, <2>4, FrameFacts
  <2>6. PICK f \in Data : f = Frame(p)
    BY <2>2
  <2>7. PICK r \in Data : in = f \o r /\ r \o tail = d
    <3>1. in \o tail = f \o d /\ Len(in) >= Len(f)
      BY <2>4, <2>5, <2>6
    <3>2. Splits(in, tail, f, d)
      BY <3>1, Zenon DEF Splits
    <3> HIDE DEF got
    <3>3. SplitAs(in, tail, f, d)
      BY <3>2, SplitStream
    <3> QED BY <3>3, Zenon DEF SplitAs
  <2>8. /\ Readable(p) => got.ok /\ got.left = r /\ got.event = Meant(p)
        /\ ~ Readable(p) => ~ got.ok /\ got.left = Drop(in, 8)
    <3>1. in = Frame(p) \o r
      BY <2>6, <2>7
    <3>2. Headed(p) /\ p.body \in Data /\ Carries(p) /\ Len(PhoneHeader(p)) + Len(p.body) + 4 < MaxLength
      BY <2>2, Zenon DEF Sane
    <3> HIDE DEF got
    <3>3. LET s == Frame(p) \o r
              g == ya_parse_event(Drop(s, 8), ya_get_package_size(s))
          IN  /\ Readable(p) => g.ok /\ g.left = r /\ g.event = Meant(p)
              /\ ~ Readable(p) => ~ g.ok /\ g.left = Drop(s, 8)
      BY <3>2, ParsePackage
    <3> QED BY <3>1, <3>3, Zenon DEF got
  <2>9. Drop(in, 8) \in Data /\ Drop(in, 8) \o tail = Drop(in \o tail, 8)
    <3>1. Len(in) >= 8
      <4> DEFINE n == Len(in)  k == Len(Frame(p))
      <4>1. n \in Nat /\ k \in Nat /\ n >= k /\ k >= 8
        BY <2>5, Cut
      <4> HIDE DEF n, k
      <4>2. n >= 8
        BY <4>1
      <4> QED BY <4>2 DEF n
    <3> QED BY <3>1, DropArrived
  <2> HIDE DEF got
  <2>10. CASE Readable(p)
    <3>1. got.ok /\ got.left = r /\ got.event = Meant(p)
      BY <2>8, <2>10
    <3>2. got.left \o tail = Frames(Tail(rest))
      BY <2>3, <2>7, <3>1
    <3> QED BY <2>1, <2>10, <3>1, <3>2 DEF p, got
  <2>11. CASE ~ Readable(p)
    <3>1. ~ got.ok /\ got.left = Drop(in, 8)
      BY <2>8, <2>11
    <3>2. got.left \in Data /\ got.left \o tail = Drop(Frames(rest), 8)
      BY <1>2, <2>9, <3>1
    <3> QED BY <2>1, <2>11, <3>1, <3>2 DEF p, got
  <2> QED BY <2>10, <2>11
<1>3. CASE rest # <<>> /\ ~ Readable(rest[1]) /\ in \o tail = Drop(Frames(rest), 8)
  <2> DEFINE p == rest[1]
  <2>1. /\ p \in Packages /\ Sane(p) /\ Frames(rest) = Frame(p) \o Frames(Tail(rest))
        /\ Frames(Tail(rest)) \in Data
    BY <1>3, FirstOfRest
  <2> HIDE DEF p
  <2>2. PICK d \in Data : d = Frames(Tail(rest))
    BY <2>1
  <2>3. Frames(rest) = Frame(p) \o d
    BY <2>1, <2>2
  <2>4. PICK s \in Data : s = in \o tail
    BY <1>1
  <2>5. s = Drop(Frame(p) \o d, 8) /\ s[1] = 148 /\ Len(s) <= Len(Frames(rest))
    <3>1. s = Drop(Frame(p) \o d, 8)
      BY <1>3, <2>3, <2>4
    <3>2. Drop(Frame(p) \o d, 8)[1] = 148 /\ Len(Drop(Frame(p) \o d, 8)) <= Len(Frame(p) \o d)
      BY <2>1, FrameFacts
    <3> QED BY <2>3, <3>1, <3>2
  <2>6. Len(s) < MaxLength
    <3>1. Len(Frames(rest)) < MaxLength
      BY SessionShort
    <3>2. MaxLength \in Nat
      BY SMT DEF MaxLength
    <3>3. Len(Frames(rest)) \in Nat /\ Len(s) \in Nat
      <4>1. Frames(rest) \in Data
        BY <1>3, FirstOfRest
      <4> QED BY <4>1, Cut
    <3> DEFINE k == Len(Frames(rest))  n == Len(s)
    <3>4. k < MaxLength /\ k \in Nat /\ n \in Nat /\ n <= k
      BY <2>5, <3>1, <3>3
    <3> HIDE DEF k, n
    <3>5. n < MaxLength
      BY <3>2, <3>4
    <3> QED BY <3>5 DEF n
  <2>7. ~ Whole(in)
    BY <2>4, <2>5, <2>6, NotWhole
  <2> QED BY <2>7
<1> QED BY <1>2, <1>3, Zenon DEF InStepOf

\* A buffer that holds a package holds its sizes.
LEMMA WholeSizes == ASSUME NEW in \in Data, Whole(in) PROVE SizesThere(in)
<1> DEFINE t == Length(to_uint32(in, 0))  n == Len(in)
<1>1. t \in Nat /\ n \in Nat
  BY PartWord, Cut
<1>2. n >= t + 4
  <2>1. ya_get_package_size(in).total = t
    BY DEF ya_get_package_size
  <2> QED BY <2>1 DEF Whole
<1> HIDE DEF t, n
<1>3. 0 <= n /\ 4 <= n
  BY <1>1, <1>2
<1> QED BY <1>3 DEF SizesThere, Reaches, n

\* The piece of the wire that arrives, and what stays.
LEMMA PieceArrives ==
    ASSUME NEW w \in Data, NEW n \in Nat, n <= Len(w)
    PROVE  /\ SubSeq(w, 1, n) \in Data /\ Drop(w, n) \in Data
           /\ SubSeq(w, 1, n) \o Drop(w, n) = w
<1> DEFINE x == SubSeq(w, 1, n)
<1>1. x \in Data /\ Len(x) = n
  <2> DEFINE m == 1
  <2>1. m \in Nat \ {0} /\ m <= n + 1 /\ n - m + 1 = n
    OBVIOUS
  <2> HIDE DEF m
  <2>2. SubSeq(w, m, n) \in Data /\ Len(SubSeq(w, m, n)) = n - m + 1
    BY <2>1, PartOfData
  <2> QED BY <2>1, <2>2 DEF m
<1>2. Begins(w, x)
  <2>1. Len(x) <= Len(w) /\ SubSeq(w, 1, Len(x)) = x
    BY <1>1
  <2> HIDE DEF x
  <2> QED BY <2>1, Zenon DEF Begins
<1> HIDE DEF x
<1>3. PICK t \in Data : w = x \o t
  BY <1>1, <1>2, BeginsWith
<1>4. Drop(w, n) = t
  BY <1>1, <1>3, Cut
<1> QED BY <1>1, <1>3, <1>4 DEF x

\* One package more is parsed: what is left is the rest of what was left.
LEMMA RestAfter ==
    ASSUME NEW s \in Seq(Packages), NEW q, NEW q2, Len(q) \in Nat, Len(q2) = Len(q) + 1,
           Len(q2) <= Len(s), Len(s) <= MaxPackages
    PROVE  Rest(s, q2) = Tail(Rest(s, q))
<1> DEFINE r == Rest(s, q)  t == Rest(s, q2)  n == Len(s)  k == Len(q)  k2 == Len(q2)
<1>1. n \in Nat /\ k \in Nat /\ k2 = k + 1 /\ k2 <= n /\ k <= n /\ n <= MaxPackages /\ k2 \in Nat
  OBVIOUS
<1>2. r \in Seq(Packages) /\ Len(r) = n - k /\ \A i \in 1..Len(r) : r[i] = s[k + i]
  <2>1. Len(q) \in Nat /\ Len(q) <= Len(s) /\ Len(s) <= MaxPackages
    BY <1>1
  <2> HIDE DEF r, t, n, k, k2
  <2> QED BY <2>1, RestIs DEF r, n, k
<1>3. t \in Seq(Packages) /\ Len(t) = n - k2 /\ \A i \in 1..Len(t) : t[i] = s[k2 + i]
  <2>1. Len(q2) \in Nat /\ Len(q2) <= Len(s) /\ Len(s) <= MaxPackages
    BY <1>1
  <2> HIDE DEF r, t, n, k, k2
  <2> QED BY <2>1, RestIs DEF t, n, k2
<1> HIDE DEF r, t, n, k, k2
<1>4. r # <<>>
  BY <1>1, <1>2
<1>5. Tail(r) \in Seq(Packages) /\ Len(Tail(r)) = Len(r) - 1 /\ \A i \in 1..Len(Tail(r)) : Tail(r)[i] = r[i + 1]
  BY <1>2, <1>4, HeadTailProperties
<1> DEFINE u == Tail(r)
<1> HIDE DEF u
<1>6. u \in Seq(Packages) /\ Len(u) = Len(t) /\ Len(t) \in Nat
  BY <1>1, <1>2, <1>3, <1>5 DEF u
<1>7. \A i \in 1..Len(t) : u[i] = t[i]
  <2> SUFFICES ASSUME NEW i \in 1..Len(t) PROVE u[i] = t[i]
    OBVIOUS
  <2>1. u[i] = r[i + 1]
    BY <1>5, <1>6 DEF u
  <2>2. i \in Nat /\ i + 1 \in 1..Len(r) /\ k + (i + 1) = k2 + i
    BY <1>1, <1>2, <1>3
  <2>3. r[i + 1] = s[k + (i + 1)]
    BY <1>2, <2>2
  <2>4. t[i] = s[k2 + i]
    BY <1>3
  <2> QED BY <2>1, <2>2, <2>3, <2>4
<1>8. u = t
  BY <1>3, <1>6, <1>7, SeqEqual
<1> QED BY <1>8 DEF u, t, r

---------------------------------------------------------------------------
(* The steps. *)

\* What SessionOK says of the lengths.
LEMMA SessionFacts ==
    ASSUME SessionOK
    PROVE  /\ sent \in Seq(Packages) /\ Len(sent) \in Nat /\ Len(sent) <= MaxPackages /\ MaxPackages \in Nat
           /\ Len(parsed) \in Nat /\ Len(parsed) <= Len(sent) /\ wire \in Data /\ input \in Data
           /\ Rest(sent, parsed) \in Seq(Packages) /\ Len(Rest(sent, parsed)) <= MaxPackages
<1>1. /\ sent \in Seq(Packages) /\ Len(sent) \in Nat /\ Len(sent) <= MaxPackages /\ MaxPackages \in Nat
      /\ Len(parsed) \in Nat /\ Len(parsed) <= Len(sent) /\ wire \in Data /\ input \in Data
  BY FramingAssumption DEF SessionOK
<1>2. Rest(sent, parsed) \in Seq(Packages) /\ Len(Rest(sent, parsed)) <= MaxPackages
  BY <1>1, RestIs
<1> QED BY <1>1, <1>2

\* The phone writes a package.
LEMMA PhoneStep ==
    ASSUME StreamInv, NEW p \in Packages, PhoneWrites(p)
    PROVE  StreamInv'
<1>1. SessionOK /\ StreamInStep /\ ParsedAsMeant
  BY Zenon DEF StreamInv
<1>2. /\ sent' = Append(sent, p) /\ wire' = wire \o Frame(p) /\ input' = input /\ parsed' = parsed
      /\ Len(sent) < MaxPackages
  BY DEF PhoneWrites
<1>3. /\ sent \in Seq(Packages) /\ Len(sent) \in Nat /\ Len(sent) <= MaxPackages /\ MaxPackages \in Nat
      /\ Len(parsed) \in Nat /\ Len(parsed) <= Len(sent) /\ wire \in Data /\ input \in Data
      /\ Rest(sent, parsed) \in Seq(Packages) /\ Len(Rest(sent, parsed)) <= MaxPackages
  BY <1>1, SessionFacts
<1>4. /\ sent' \in Seq(Packages) /\ Len(sent') = Len(sent) + 1 /\ sent'[Len(sent) + 1] = p
      /\ \A i \in 1..Len(sent) : sent'[i] = sent[i]
  BY <1>2, <1>3, AppendProperties
<1>5. Frame(p) \in Data
  BY PackageFramed
<1>6. SessionOK'
  <2>1. Len(sent') <= MaxPackages /\ Len(parsed') <= Len(sent')
    BY <1>2, <1>3, <1>4
  <2>2. wire' \in Data /\ input' \in Data
    BY <1>2, <1>3, <1>5, JoinedData
  <2>3. parsed' \in Seq({Meant(x) : x \in Packages})
    BY <1>1, <1>2 DEF SessionOK
  <2> QED BY <1>4, <2>1, <2>2, <2>3, Zenon DEF SessionOK
<1>7. StreamInStep'
  <2> DEFINE rest == Rest(sent, parsed)  more == Rest(sent', parsed')
  <2>1. rest \in Seq(Packages) /\ Len(rest) = Len(sent) - Len(parsed) /\ \A i \in 1..Len(rest) : rest[i] = sent[Len(parsed) + i]
    BY <1>3, RestIs
  <2>2. more \in Seq(Packages) /\ Len(more) = Len(sent') - Len(parsed') /\ \A i \in 1..Len(more) : more[i] = sent'[Len(parsed') + i]
    <3>1. Len(parsed') \in Nat /\ Len(parsed') <= Len(sent') /\ Len(sent') <= MaxPackages
      BY <1>2, <1>3, <1>4
    <3> HIDE DEF more
    <3> QED BY <1>4, <3>1, RestIs DEF more
  <2> HIDE DEF rest, more
  <2>3. Len(more) = Len(rest) + 1 /\ Len(rest) \in Nat /\ Len(sent) = Len(parsed) + Len(rest)
    BY <1>2, <1>3, <1>4, <2>1, <2>2
  <2>4. \A i \in 1..Len(rest) : rest[i] = more[i]
    <3> SUFFICES ASSUME NEW i \in 1..Len(rest) PROVE rest[i] = more[i]
      OBVIOUS
    <3>1. i \in 1..Len(more) /\ Len(parsed) + i \in 1..Len(sent)
      BY <1>3, <2>3
    <3>2. rest[i] = sent[Len(parsed) + i] /\ more[i] = sent'[Len(parsed) + i]
      BY <1>2, <2>1, <2>2, <3>1
    <3> QED BY <1>4, <3>1, <3>2
  <2>5. more[Len(more)] = p
    <3>1. Len(more) \in 1..Len(more) /\ Len(parsed) + Len(more) = Len(sent) + 1
      BY <1>3, <2>3
    <3>2. more[Len(more)] = sent'[Len(parsed) + Len(more)]
      BY <1>2, <2>2, <3>1
    <3> QED BY <1>4, <3>1, <3>2
  <2>6. PICK stream \in Data : stream = input \o wire
    BY <1>3, JoinedData
  <2>7. InStepOf(rest, stream)
    BY <1>1, <2>6, InStepIs DEF rest
  <2>8. InStepOf(more, stream \o Frame(p))
    BY <2>1, <2>2, <2>3, <2>4, <2>5, <2>7, WriteKeeps
  <2>9. stream \o Frame(p) = input' \o wire'
    <3>1. PICK f \in Data : f = Frame(p)
      BY <1>5
    <3>2. FiveData(input, wire, f, f, f)
      BY <1>3 DEF FiveData
    <3>3. (input \o wire) \o f = input \o (wire \o f)
      BY <3>2, ThreeJoined
    <3> QED BY <1>2, <2>6, <3>1, <3>3
  <2> QED BY <2>8, <2>9, InStepIs DEF more
<1>8. ParsedAsMeant'
  <2> SUFFICES ASSUME NEW i \in 1..Len(parsed') PROVE Readable(sent'[i]) /\ parsed'[i] = Meant(sent'[i])
    BY Zenon DEF ParsedAsMeant
  <2>1. i \in 1..Len(parsed) /\ i \in 1..Len(sent)
    BY <1>2, <1>3
  <2>2. Readable(sent[i]) /\ parsed[i] = Meant(sent[i])
    BY <1>1, <2>1 DEF ParsedAsMeant
  <2> QED BY <1>2, <1>4, <2>1, <2>2
<1> QED BY <1>6, <1>7, <1>8, Zenon DEF StreamInv

\* A callback that leaves the session alone.
LEMMA OtherStep ==
    ASSUME StreamInv, UNCHANGED <<sent, wire, input, parsed>>
    PROVE  StreamInv'
<1>1. SessionOK /\ StreamInStep /\ ParsedAsMeant
  BY Zenon DEF StreamInv
<1>2. SessionOK'
  BY <1>1 DEF SessionOK
<1>3. StreamInStep'
  BY <1>1, InStepIs
<1>4. ParsedAsMeant'
  BY <1>1 DEF ParsedAsMeant
<1> QED BY <1>2, <1>3, <1>4, Zenon DEF StreamInv

\* A piece arrives.
LEMMA ReadStep ==
    ASSUME StreamInv, NEW n \in Pieces, conn_readcb(n)
    PROVE  StreamInv'
<1>1. SessionOK /\ StreamInStep /\ ParsedAsMeant
  BY Zenon DEF StreamInv
<1>2. /\ sent \in Seq(Packages) /\ Len(sent) \in Nat /\ Len(sent) <= MaxPackages /\ MaxPackages \in Nat
      /\ Len(parsed) \in Nat /\ Len(parsed) <= Len(sent) /\ wire \in Data /\ input \in Data
      /\ Rest(sent, parsed) \in Seq(Packages) /\ Len(Rest(sent, parsed)) <= MaxPackages
  BY <1>1, SessionFacts
<1> DEFINE in0 == input \o SubSeq(wire, 1, n)
           got0 == ya_parse_event(Drop(in0, 8), ya_get_package_size(in0))
<1>3. /\ sent' = sent /\ wire' = Drop(wire, n) /\ n <= Len(wire)
      /\ \/ ~ SizesThere(in0) /\ input' = in0 /\ parsed' = parsed
         \/ ~ Whole(in0) /\ input' = in0 /\ parsed' = parsed
         \/ Whole(in0) /\ ~ got0.ok /\ input' = got0.left /\ parsed' = parsed
         \/ Whole(in0) /\ got0.ok /\ input' = got0.left /\ parsed' = Append(parsed, got0.event)
  BY Zenon DEF conn_readcb
<1>4. PICK x \in Data, tail \in Data : x = SubSeq(wire, 1, n) /\ tail = Drop(wire, n) /\ x \o tail = wire
  <2>1. n \in Nat
    BY FramingAssumption
  <2> QED BY <1>2, <1>3, <2>1, PieceArrives, ZenonT(40)
<1>5. PICK in \in Data : in = input \o x
  BY <1>2, JoinedData
<1>6. PICK got : got = ya_parse_event(Drop(in, 8), ya_get_package_size(in))
  OBVIOUS
<1>7. /\ sent' = sent /\ wire' = tail
      /\ \/ ~ SizesThere(in) /\ input' = in /\ parsed' = parsed
         \/ ~ Whole(in) /\ input' = in /\ parsed' = parsed
         \/ Whole(in) /\ ~ got.ok /\ input' = got.left /\ parsed' = parsed
         \/ Whole(in) /\ got.ok /\ input' = got.left /\ parsed' = Append(parsed, got.event)
  <2>1. in0 = in
    BY <1>4, <1>5
  <2>2. got0 = got
    BY <2>1, <1>6
  <2> HIDE DEF in0, got0
  <2> QED BY <1>3, <1>4, <2>1, <2>2
<1> HIDE DEF in0, got0
<1> DEFINE rest == Rest(sent, parsed)
<1>8. rest \in Seq(Packages) /\ Len(rest) <= MaxPackages
  BY <1>2
<1>9. in \o tail = input \o wire
  <2>1. FiveData(input, x, tail, tail, tail)
    BY <1>2 DEF FiveData
  <2>2. (input \o x) \o tail = input \o (x \o tail)
    BY <2>1, ThreeJoined
  <2> QED BY <1>4, <1>5, <2>2
<1>10. InStepOf(rest, in \o tail)
  BY <1>1, <1>9, InStepIs
<1> HIDE DEF rest
<1>11. CASE ~ Whole(in) \/ ~ SizesThere(in)
  <2>1. input' = in /\ parsed' = parsed
    BY <1>7, <1>11, WholeSizes
  <2>2. SessionOK'
    BY <1>1, <1>7, <2>1 DEF SessionOK
  <2>3. StreamInStep'
    <3>1. rest = Rest(sent', parsed') /\ in \o tail = input' \o wire'
      BY <1>7, <2>1 DEF rest
    <3> QED BY <1>10, <3>1, InStepIs
  <2>4. ParsedAsMeant'
    BY <1>1, <1>7, <2>1 DEF ParsedAsMeant
  <2> QED BY <2>2, <2>3, <2>4, Zenon DEF StreamInv
<1>12. CASE Whole(in) /\ SizesThere(in)
  <2>1. /\ rest # <<>> /\ got.left \in Data
        /\ Readable(rest[1]) => got.ok /\ got.event = Meant(rest[1]) /\ got.left \o tail = Frames(Tail(rest))
        /\ ~ Readable(rest[1]) => ~ got.ok /\ got.left \o tail = Drop(Frames(rest), 8)
    BY <1>6, <1>8, <1>10, <1>12, ReadKeeps
  <2>2. CASE ~ Readable(rest[1])
    <3>1. ~ got.ok /\ got.left \o tail = Drop(Frames(rest), 8)
      BY <2>1, <2>2
    <3>2. input' = got.left /\ parsed' = parsed
      BY <1>7, <1>12, <3>1
    <3>3. SessionOK'
      BY <1>1, <1>7, <2>1, <3>2 DEF SessionOK
    <3>4. StreamInStep'
      <4>1. rest = Rest(sent', parsed') /\ input' \o wire' = Drop(Frames(rest), 8)
        BY <1>7, <3>1, <3>2 DEF rest
      <4>2. InStepOf(rest, input' \o wire')
        BY <2>1, <2>2, <4>1, Zenon DEF InStepOf
      <4> QED BY <4>1, <4>2, InStepIs
    <3>5. ParsedAsMeant'
      BY <1>1, <1>7, <3>2 DEF ParsedAsMeant
    <3> QED BY <3>3, <3>4, <3>5, Zenon DEF StreamInv
  <2>3. CASE Readable(rest[1])
    <3>1. got.ok /\ got.event = Meant(rest[1]) /\ got.left \o tail = Frames(Tail(rest))
      BY <2>1, <2>3
    <3>2. input' = got.left /\ parsed' = Append(parsed, got.event)
      BY <1>7, <1>12, <3>1
    <3>3. Len(rest) = Len(sent) - Len(parsed) /\ \A i \in 1..Len(rest) : rest[i] = sent[Len(parsed) + i]
      BY <1>2, RestIs DEF rest
    <3>4. Len(rest) \in Nat /\ Len(rest) >= 1
      BY <1>8, <2>1, EmptySeq
    <3>5. Len(parsed) + 1 <= Len(sent) /\ rest[1] = sent[Len(parsed) + 1] /\ Len(parsed) + 1 \in 1..Len(sent)
      BY <1>2, <3>3, <3>4
    <3>6. rest[1] \in Packages
      BY <1>2, <3>5, ElementOfSeq
    <3> DEFINE M == {Meant(p) : p \in Packages}
    <3>7. parsed \in Seq(M) /\ got.event \in M
      BY <1>1, <3>1, <3>6 DEF SessionOK
    <3> HIDE DEF M
    <3>8. /\ parsed' \in Seq(M) /\ Len(parsed') = Len(parsed) + 1 /\ parsed'[Len(parsed) + 1] = got.event
          /\ \A i \in 1..Len(parsed) : parsed'[i] = parsed[i]
      BY <3>2, <3>7, AppendProperties
    <3>9. SessionOK'
      <4>1. sent' \in Seq(Packages) /\ Len(sent') <= MaxPackages /\ Len(parsed') <= Len(sent')
        BY <1>2, <1>7, <3>5, <3>8
      <4>2. wire' \in Data /\ input' \in Data
        BY <1>7, <2>1, <3>2
      <4> QED BY <3>8, <4>1, <4>2, Zenon DEF SessionOK, M
    <3>10. StreamInStep'
      <4>1. Rest(sent', parsed') = Tail(rest)
        <5>1. Len(parsed') = Len(parsed) + 1 /\ Len(parsed') <= Len(sent) /\ sent' = sent
          BY <1>2, <1>7, <3>5, <3>8
        <5>2. PICK q, q2 : q = parsed /\ q2 = parsed'
          OBVIOUS
        <5>3. Rest(sent, q2) = Tail(Rest(sent, q))
          BY <1>2, <5>1, <5>2, RestAfter
        <5> QED BY <5>1, <5>2, <5>3 DEF rest
      <4>2. input' \o wire' = Frames(Tail(rest))
        BY <1>7, <3>1, <3>2
      <4>3. InStepOf(Rest(sent', parsed'), input' \o wire')
        BY <4>1, <4>2, Zenon DEF InStepOf
      <4> QED BY <4>3, InStepIs
    <3>11. ParsedAsMeant'
      <4> SUFFICES ASSUME NEW i \in 1..Len(parsed') PROVE Readable(sent'[i]) /\ parsed'[i] = Meant(sent'[i])
        BY Zenon DEF ParsedAsMeant
      <4>1. CASE i = Len(parsed) + 1
        BY <1>7, <2>3, <3>1, <3>5, <3>8, <4>1
      <4>2. CASE i # Len(parsed) + 1
        <5>1. i \in 1..Len(parsed)
          BY <1>2, <3>8, <4>2
        <5>2. Readable(sent[i]) /\ parsed[i] = Meant(sent[i])
          BY <1>1, <5>1 DEF ParsedAsMeant
        <5> QED BY <1>7, <3>8, <5>1, <5>2
      <4> QED BY <4>1, <4>2
    <3> QED BY <3>9, <3>10, <3>11, Zenon DEF StreamInv
  <2> QED BY <2>2, <2>3
<1> QED BY <1>11, <1>12

\* What was heard is something.
LEMMA HeardSomething == ASSUME NEW p, NEW port, NEW event, NEW r, Heard(p, port, event, r) PROVE heard' # Nothing
<1> DEFINE b == IF r = Nothing THEN <<>> ELSE ya_serialize_event(r)
<1>1. heard' = [of |-> p, port |-> port, event |-> event, answered |-> r, answer |-> b]
  BY Zenon DEF Heard
<1> HIDE DEF b
<1> QED BY <1>1 DEF Nothing

\* What the phone sends a session without a harm, and a handler with its connection:
\* the process goes on, whatever is answered.
LEMMA FateHarmless ==
    ASSUME NEW p, NEW client \in BOOLEAN, NEW port \in {"session", "command"}, Harmless(p, port),
           NEW r \in process_server_event(Meant(p), client, port = "session")
    PROVE  Fate(Meant(p), client, port = "session", r) = "no"
<1> DEFINE e == Meant(p)  connected == port = "session"
<1>1. e.type = TypeName(p.code) /\ e.param = p.means
  BY DEF Meant
<1> HIDE DEF e
<1>2. /\ p.means = NoParam => e.type \notin {"DISCOVER", "TEXT_INPUT"}
      /\ p.means # NoParam => /\ e.type # "CONTROL"
                              /\ ~ connected => e.type # "AUTHORIZE" \/ ~ Accepted(p.means)
  BY <1>1 DEF Harmless
<1>3. Fault(e, connected) = "no"
  BY <1>1, <1>2 DEF Fault
<1>4. r # Nothing => ~ NullRead(r)
  <2> SUFFICES ASSUME r # Nothing PROVE ~ NullRead(r)
    OBVIOUS
  <2>1. r \in Handlers(e)
    BY DEF process_server_event, e
  <2>2. CASE e.type = "AUTHORIZE" /\ e.param # NoParam
    <3>1. r.param = AuthorizeResponse(e.param)
      BY <2>1, <2>2 DEF Handlers, Response
    <3>2. AuthorizeResponse(e.param) # NoParam
      BY DEF AuthorizeResponse, NoParam
    <3> QED BY <3>1, <3>2 DEF NullRead
  <2>3. CASE e.type = "DISCOVER" /\ e.param # NoParam
    <3>1. r.param = [port |-> <<0, 0>> \o SessionPort]
      BY <2>1, <2>3 DEF Handlers, handle_discover, Response
    <3> DEFINE x == <<0, 0>> \o SessionPort
    <3> HIDE DEF x
    <3>2. [port |-> x] # NoParam
      BY DEF NoParam
    <3> QED BY <3>1, <3>2, Zenon DEF NullRead, x
  <2>4. CASE e.type = "HEARTBEAT"
    BY <2>1, <2>4 DEF Handlers, Response, NullRead, SerializedTypes, CommonTypes
  <2>5. CASE e.type = "TEXT_GET"
    <3>1. PICK t \in Clipboard : r = Response(e, [text |-> t])
      BY <2>1, <2>5 DEF Handlers
    <3>2. r.param = [text |-> t]
      BY <3>1 DEF Response
    <3> QED BY <3>2 DEF NullRead, NoParam
  <2>6. CASE e.type = "CONTROL"
    BY <1>1, <1>2, <2>1, <2>6 DEF Handlers
  <2>7. CASE e.type \notin {"AUTHORIZE", "DISCOVER", "HEARTBEAT", "CONTROL", "TEXT_GET"}
    BY <2>1, <2>7 DEF Handlers
  <2>8. CASE e.type \in {"AUTHORIZE", "DISCOVER"} /\ e.param = NoParam
    BY <2>1, <2>8 DEF Handlers
  <2> QED BY <2>2, <2>3, <2>4, <2>5, <2>6, <2>7, <2>8
<1> QED BY <1>3, <1>4, Zenon DEF Fate, e

\* How a call of conn_readcb leaves the process.
LEMMA ReadEnds ==
    ASSUME NEW n \in Pieces, conn_readcb(n)
    PROVE  \/ died' = "no"
           \/ died' = "sizes" /\ ~ SizesThere(input')
           \/ \E e, r : /\ parsed' = Append(parsed, e)
                        /\ r \in process_server_event(e, TRUE, TRUE) /\ died' = Fate(e, TRUE, TRUE, r)
<1>1. died = "no"
  BY DEF conn_readcb, up
<1>2. PICK in, got :
          \/ ~ SizesThere(in) /\ input' = in /\ died' = "sizes"
          \/ died' = died
          \/ /\ parsed' = Append(parsed, got.event)
             /\ \E r \in process_server_event(got.event, TRUE, TRUE) : died' = Fate(got.event, TRUE, TRUE, r)
  BY Zenon DEF conn_readcb
<1> QED BY <1>1, <1>2, Zenon

\* The last event parsed is the last package's.
LEMMA LastParsed ==
    ASSUME StreamInv, StreamInv', NEW event, parsed' = Append(parsed, event)
    PROVE  /\ parsed' # <<>> /\ sent'[Len(parsed')] \in Packages /\ Readable(sent'[Len(parsed')])
           /\ event = Meant(sent'[Len(parsed')])
<1>1. /\ sent' \in Seq(Packages) /\ Len(parsed') <= Len(sent') /\ parsed' \in Seq({Meant(p) : p \in Packages})
      /\ ParsedAsMeant'
  BY Zenon DEF StreamInv, SessionOK
<1>2. Len(parsed) \in Nat /\ parsed \in Seq({Meant(p) : p \in Packages})
  BY DEF StreamInv, SessionOK
<1> DEFINE k == Len(parsed')
<1>3. k = Len(parsed) + 1 /\ parsed'[k] = event
  <2>1. parsed \in Seq({Meant(p) : p \in Packages} \cup {event})
    BY <1>2
  <2> QED BY <2>1, AppendProperties
<1>4. k \in 1..Len(parsed') /\ k \in 1..Len(sent') /\ parsed' # <<>>
  BY <1>1, <1>2, <1>3
<1>5. Readable(sent'[k]) /\ event = Meant(sent'[k])
  <2> HIDE DEF k
  <2> QED BY <1>1, <1>3, <1>4 DEF ParsedAsMeant
<1>6. sent'[k] \in Packages
  <2> HIDE DEF k
  <2> QED BY <1>1, <1>4, ElementOfSeq
<1> QED BY <1>4, <1>5, <1>6

\* A piece that ends the process is too short, or completes a package that is not
\* harmless.
LEMMA ReadEndsSession ==
    ASSUME StreamInv, StreamInv', NEW n \in Pieces, conn_readcb(n)
    PROVE  SessionEnds'
<1>1. CASE died' = "no"
  BY <1>1 DEF SessionEnds, up
<1>2. CASE died' = "sizes" /\ ~ SizesThere(input')
  <2>1. Len(input') \in Nat
    BY Cut DEF StreamInv, SessionOK
  <2>2. Len(input') < 4
    BY <1>2, <2>1 DEF SizesThere, Reaches
  <2> QED BY <1>2, <2>2 DEF SessionEnds
<1>3. CASE \E e, r : /\ parsed' = Append(parsed, e)
                     /\ r \in process_server_event(e, TRUE, TRUE) /\ died' = Fate(e, TRUE, TRUE, r)
  <2>1. PICK e, r : /\ parsed' = Append(parsed, e)
                    /\ r \in process_server_event(e, TRUE, TRUE) /\ died' = Fate(e, TRUE, TRUE, r)
    BY <1>3
  <2>2. PICK p : p = sent'[Len(parsed')]
    OBVIOUS
  <2>3. parsed' # <<>> /\ e = Meant(p)
    BY <2>1, <2>2, LastParsed
  <2>4. Harmless(p, "session") => died' = "no"
    <3> DEFINE port == "session"
    <3>1. (port = "session") = TRUE /\ port \in {"session", "command"}
      OBVIOUS
    <3> HIDE DEF port
    <3>2. Harmless(p, port) => Fate(Meant(p), TRUE, port = "session", r) = "no"
      BY <2>1, <2>3, <3>1, FateHarmless
    <3> QED BY <2>1, <2>3, <3>1, <3>2 DEF port
  <2> QED BY <2>2, <2>3, <2>4 DEF SessionEnds, up
<1> QED BY <1>1, <1>2, <1>3, ReadEnds, Zenon

\* What the phone sends to a UDP port: a package, or a datagram that is none.
Sends(p, bytes) ==
    \/ p \in Datagrams \cup Searches /\ bytes = Frame(p)
    \/ p = Stray /\ bytes \in Strays

\* The steps, the two ports' taken together.
LEMMA NextSteps ==
    ASSUME [Next]_vars
    PROVE  \/ \E p \in Packages : PhoneWrites(p)
           \/ \E n \in Pieces : conn_readcb(n)
           \/ \E p, bytes : Sends(p, bytes) /\ (udp_readcb(p, bytes) \/ run_loop(p, bytes))
           \/ UNCHANGED vars
<1>1. ASSUME NEW p \in Datagrams, udp_readcb(p, Frame(p))
      PROVE  \E q, bytes : Sends(q, bytes) /\ (udp_readcb(q, bytes) \/ run_loop(q, bytes))
  <2>1. PICK b : b = Frame(p)
    OBVIOUS
  <2>2. Sends(p, b)
    BY <2>1, Zenon DEF Sends
  <2> QED BY <1>1, <2>1, <2>2, Zenon
<1>2. ASSUME NEW p \in Searches, run_loop(p, Frame(p))
      PROVE  \E q, bytes : Sends(q, bytes) /\ (udp_readcb(q, bytes) \/ run_loop(q, bytes))
  <2>1. PICK b : b = Frame(p)
    OBVIOUS
  <2>2. Sends(p, b)
    BY <2>1, Zenon DEF Sends
  <2> QED BY <1>2, <2>1, <2>2, Zenon
<1>3. ASSUME NEW b \in Strays, udp_readcb(Stray, b) \/ run_loop(Stray, b)
      PROVE  \E q, bytes : Sends(q, bytes) /\ (udp_readcb(q, bytes) \/ run_loop(q, bytes))
  <2>1. Sends(Stray, b)
    BY Zenon DEF Sends
  <2> QED BY <1>3, <2>1, Zenon
<1> QED BY <1>1, <1>2, <1>3, Zenon DEF Next

\* The inductive invariant: the stream's, and how a session may end the process.
THEOREM FramingCorrect == Spec => []FramingInv
<1>1. Init => FramingInv
  <2>1. Init => SessionEnds
    BY DEF Init, SessionEnds, up
  <2> QED BY <2>1, FramingInit DEF FramingInv
<1>2. FramingInv /\ [Next]_vars => FramingInv'
  <2> SUFFICES ASSUME StreamInv, SessionEnds, [Next]_vars PROVE StreamInv' /\ SessionEnds'
    BY DEF FramingInv
  <2>1. CASE \E p \in Packages : PhoneWrites(p)
    <3>1. up'
      BY <2>1 DEF PhoneWrites, up
    <3> QED BY <2>1, <3>1, PhoneStep DEF SessionEnds
  <2>2. CASE \E n \in Pieces : conn_readcb(n)
    <3>1. StreamInv'
      BY <2>2, ReadStep
    <3> QED BY <2>2, <3>1, ReadEndsSession
  <2>3. CASE \E p, bytes : Sends(p, bytes) /\ (udp_readcb(p, bytes) \/ run_loop(p, bytes))
    <3>1. PICK p, bytes : udp_readcb(p, bytes) \/ run_loop(p, bytes)
      BY <2>3
    <3>2. UNCHANGED <<sent, wire, input, parsed>>
      BY <3>1 DEF udp_readcb, run_loop
    <3>3. \E port, event, r : Heard(p, port, event, r)
      BY <3>1, Zenon DEF udp_readcb, run_loop
    <3>4. heard' # Nothing
      BY <3>3, HeardSomething
    <3> QED BY <3>2, <3>4, OtherStep DEF SessionEnds
  <2>4. CASE UNCHANGED vars
    <3>1. UNCHANGED <<sent, wire, input, parsed, heard, died>>
      BY <2>4 DEF vars
    <3> QED BY <3>1, OtherStep DEF SessionEnds, up
  <2> QED BY <2>1, <2>2, <2>3, <2>4, NextSteps, Zenon
<1> QED BY <1>1, <1>2, PTL DEF Spec

\* conn_readcb never takes a byte too many or too few, however TCP cuts the stream
\* (ya_server_session.c); only a header it cannot read puts it out of step, and only a
\* call that finds fewer than four bytes (ya_utils.c:128) or a package that is not
\* harmless ends the process.
THEOREM StaysInStep == Spec => []InStep
<1>1. FramingInv => InStep
  <2>1. StreamInStep /\ SessionEnds => InStep
    BY Zenon DEF StreamInStep, SessionEnds, InStep
  <2> QED BY <2>1 DEF FramingInv, StreamInv
<1> QED BY <1>1, FramingCorrect, PTL

\* What ya_parse_event makes of the stream is what the phone meant, in order and in
\* whatever width it was written (ya_event.c).
THEOREM WhatIsParsedWasMeant == Spec => []ParsedAsMeant
<1>1. FramingInv => ParsedAsMeant
  BY DEF FramingInv, StreamInv
<1> QED BY <1>1, FramingCorrect, PTL

---------------------------------------------------------------------------
(* Paths. *)

ScriptNames == {"poweroff", "restart", "sleep"}

\* The names in a path: strings, those the code writes told apart (the provers do not know
\* that they are strings).
FileNames == STRING \cup ScriptNames \cup {"scripts", "Resources", "Library", "MouseHero"}
                  \cup {"windows", "macos", "linux"}
Paths == Seq(FileNames)

\* The paths of a machine are paths over FileNames.
LEMMA PathOf == \A s \in Seq(STRING) : s \in Paths
<1> SUFFICES ASSUME NEW s \in Seq(STRING) PROVE s \in Paths
  OBVIOUS
<1> DEFINE S == STRING  T == FileNames
<1>1. \A x \in S : x \in T
  BY Zenon DEF FileNames
<1> HIDE DEF S, T
<1>2. s \in Seq(S)
  BY DEF S
<1>3. s \in Seq(T)
  <2>1. s \in [1..Len(s) -> S] /\ Len(s) \in Nat
    BY <1>2, LenProperties
  <2>2. s \in [1..Len(s) -> T]
    BY <1>1, <2>1
  <2> QED BY <2>1, <2>2
<1> QED BY <1>3 DEF Paths, T

\* A path and what snprintf puts behind it.
LEMMA NamesJoined ==
    ASSUME NEW a, NEW b, a \in Paths, b \in Paths
    PROVE  /\ a \o b \in Paths /\ Len(a) \in Nat /\ Len(b) \in Nat /\ Len(a \o b) = Len(a) + Len(b)
           /\ \A i \in 1..Len(a) : (a \o b)[i] = a[i]
           /\ \A i \in 1..Len(b) : (a \o b)[Len(a) + i] = b[i]
<1> DEFINE k == Len(a)  l == Len(b)  c == a \o b
<1>1. c \in Paths /\ Len(c) = k + l /\ k \in Nat /\ l \in Nat
      /\ \A i \in 1..k + l : c[i] = IF i <= k THEN a[i] ELSE b[i - k]
  BY ConcatProperties, LenProperties DEF Paths
<1> HIDE DEF k, l, c
<1>2. \A i \in 1..k : c[i] = a[i]
  BY <1>1
<1>3. \A i \in 1..l : c[k + i] = b[i]
  <2> SUFFICES ASSUME NEW i \in 1..l PROVE c[k + i] = b[i]
    OBVIOUS
  <2>1. k + i \in 1..k + l /\ ~ (k + i <= k) /\ (k + i) - k = i
    BY <1>1
  <2> QED BY <1>1, <2>1
<1> QED BY <1>1, <1>2, <1>3 DEF k, l, c

\* The first names of a path.
LEMMA PartOfPath ==
    ASSUME NEW d, d \in Paths, NEW n \in Nat, n <= Len(d)
    PROVE  /\ SubSeq(d, 1, n) \in Paths /\ Len(SubSeq(d, 1, n)) = n
           /\ \A i \in 1..n : SubSeq(d, 1, n)[i] = d[i]
<1> DEFINE m == 1
<1>1. Len(d) \in Nat /\ \A i \in 1..Len(d) : d[i] \in FileNames
  BY ElementOfSeq, LenProperties DEF Paths
<1>2. \A i \in m..n : d[i] \in FileNames
  BY <1>1
<1>3. IF m <= n THEN TRUE ELSE n - m + 1 = 0
  OBVIOUS
<1>4. m \in Int /\ n \in Int /\ n - m + 1 = n /\ \A i \in 1..n : m + i - 1 = i
  OBVIOUS
<1> HIDE DEF m
<1>5. SubSeq(d, m, n) \in Seq(FileNames) /\ Len(SubSeq(d, m, n)) = (IF m <= n THEN n - m + 1 ELSE 0)
      /\ \A i \in 1..n - m + 1 : SubSeq(d, m, n)[i] = d[m + i - 1]
  BY <1>2, <1>4, SubSeqProperties
<1>6. Len(SubSeq(d, m, n)) = n
  BY <1>3, <1>4, <1>5
<1>7. \A i \in 1..n : SubSeq(d, m, n)[i] = d[i]
  BY <1>4, <1>5
<1> QED BY <1>5, <1>6, <1>7 DEF m, Paths

\* A path that begins as another one does.
LEMMA PrefixIs ==
    ASSUME NEW s, NEW t, s \in Paths, t \in Paths, Len(s) <= Len(t), \A i \in 1..Len(s) : s[i] = t[i]
    PROVE  IsPrefix(s, t)
<1> DEFINE n == Len(s)  x == SubSeq(s, 1, n)  y == SubSeq(t, 1, n)
<1>1. n \in Nat /\ n <= Len(t) /\ n <= Len(s)
  BY LenProperties DEF Paths
<1>2. x \in Paths /\ Len(x) = n /\ \A i \in 1..n : x[i] = s[i]
  <2> HIDE DEF n
  <2> QED BY <1>1, PartOfPath
<1>3. y \in Paths /\ Len(y) = n /\ \A i \in 1..n : y[i] = t[i]
  <2> HIDE DEF n
  <2> QED BY <1>1, PartOfPath
<1> HIDE DEF x, y
<1>4. x \in Seq(FileNames) /\ y \in Seq(FileNames) /\ Len(x) = Len(y) /\ \A i \in 1..Len(x) : x[i] = y[i]
  BY <1>2, <1>3 DEF Paths
<1>5. x = y
  BY <1>4, SeqEqual
<1> QED BY <1>1, <1>5 DEF IsPrefix, x, y

\* A directory n levels up.
LEMMA UpIs ==
    ASSUME NEW d, d \in Paths, NEW n \in Nat
    PROVE  /\ Up(d, n) \in Paths /\ Len(d) \in Nat
           /\ Len(Up(d, n)) = (IF n < Len(d) THEN Len(d) - n ELSE 0)
           /\ \A i \in 1..Len(Up(d, n)) : Up(d, n)[i] = d[i]
<1> DEFINE k == IF n < Len(d) THEN Len(d) - n ELSE 0
<1>1. Len(d) \in Nat
  BY LenProperties DEF Paths
<1>2. k \in Nat /\ k <= Len(d)
  BY <1>1
<1>3. Up(d, n) = SubSeq(d, 1, k)
  BY DEF Up
<1> HIDE DEF k
<1>4. Up(d, n) \in Paths /\ Len(Up(d, n)) = k /\ \A i \in 1..k : Up(d, n)[i] = d[i]
  BY <1>2, <1>3, PartOfPath
<1> QED BY <1>1, <1>4 DEF k

\* A script of that name, in a place of the server's or of the user's.
ScriptAt(m, path, name) ==
    path \in Paths /\ Len(path) \in Nat /\ Len(path) >= 2 /\ Last(path) = name /\ Trusted(m, path)

\* What ya_get_exe_dir and the home directory give are paths, on one of the three
\* platforms.
LEMMA MachineFacts ==
    ASSUME NEW m \in Machines
    PROVE  /\ ya_get_exe_dir(m) \in Paths /\ m.home \in Paths
           /\ m.platform \in {"windows", "macos", "linux"}
<1>1. m.executable \in Paths /\ m.cwd \in Paths /\ m.home \in Paths /\ m.platform \in {"windows", "macos", "linux"}
  BY MachinesAssumption, PathOf
<1>2. Up(m.executable, 1) \in Paths
  BY <1>1, UpIs
<1> QED BY <1>1, <1>2 DEF ya_get_exe_dir

\* A path below a directory that is not above the source tree's.
LEMMA PathBelow ==
    ASSUME NEW m \in Machines, NEW root, NEW rest, root \in Paths, rest \in Paths,
           Len(rest) >= 2, NEW name, Last(rest) = name,
           IsPrefix(Up(ya_get_exe_dir(m), 4), root) \/ (m.home # <<>> /\ root = m.home)
    PROVE  ScriptAt(m, root \o rest, name) /\ Len(root \o rest) = Len(root) + Len(rest)
<1> DEFINE d == ya_get_exe_dir(m)  u == Up(d, 4)  p == root \o rest
<1>1. /\ p \in Paths /\ Len(root) \in Nat /\ Len(rest) \in Nat /\ Len(p) = Len(root) + Len(rest)
      /\ \A i \in 1..Len(root) : p[i] = root[i]
      /\ \A i \in 1..Len(rest) : p[Len(root) + i] = rest[i]
  BY NamesJoined
<1> HIDE DEF p
<1>2. Len(p) \in Nat /\ Len(p) >= 2 /\ Len(root) <= Len(p)
  BY <1>1
<1>3. Last(p) = name
  <2>1. Len(rest) \in 1..Len(rest)
    BY <1>1
  <2>2. p[Len(p)] = rest[Len(rest)]
    BY <1>1, <2>1
  <2> QED BY <2>2 DEF Last
<1>4. u \in Paths /\ Len(u) \in Nat
  BY MachineFacts, UpIs, LenProperties DEF Paths
<1>5. Trusted(m, p)
  <2>1. CASE IsPrefix(u, root)
    <3>1. Len(u) <= Len(root) /\ SubSeq(u, 1, Len(u)) = SubSeq(root, 1, Len(u))
      BY <2>1 DEF IsPrefix
    <3> DEFINE n == Len(u)  x == SubSeq(u, 1, n)  y == SubSeq(root, 1, n)
    <3>2. n \in Nat /\ n <= Len(u) /\ n <= Len(root)
      BY <1>4, <3>1
    <3> HIDE DEF u, n
    <3>3. (\A i \in 1..n : x[i] = u[i]) /\ \A i \in 1..n : y[i] = root[i]
      BY <1>4, <3>2, PartOfPath
    <3>4. x = y
      BY <3>1 DEF n
    <3> HIDE DEF x, y
    <3>5. \A i \in 1..n : u[i] = p[i]
      <4>1. \A i \in 1..n : i \in 1..Len(root)
        BY <1>1, <3>2
      <4> QED BY <1>1, <3>3, <3>4, <4>1
    <3>6. n <= Len(p)
      BY <1>1, <1>2, <3>2
    <3>7. IsPrefix(u, p)
      BY <1>1, <1>4, <3>5, <3>6, PrefixIs DEF n
    <3> QED BY <3>7 DEF Trusted, u, d
  <2>2. CASE m.home # <<>> /\ root = m.home
    <3>1. IsPrefix(root, p)
      BY <1>1, <1>2, PrefixIs
    <3> QED BY <2>2, <3>1 DEF Trusted
  <2> QED BY <2>1, <2>2 DEF u, d
<1> QED BY <1>1, <1>2, <1>3, <1>5 DEF ScriptAt, p

\* Four directories up is above one directory up.
LEMMA UpBelow ==
    ASSUME NEW d, d \in Paths, NEW j \in {1, 4}
    PROVE  IsPrefix(Up(d, 4), Up(d, j)) /\ IsPrefix(Up(d, 4), d)
<1> DEFINE u == Up(d, 4)  v == Up(d, j)
<1>1. /\ u \in Paths /\ Len(d) \in Nat /\ Len(u) = (IF 4 < Len(d) THEN Len(d) - 4 ELSE 0)
      /\ \A i \in 1..Len(u) : u[i] = d[i]
  BY UpIs
<1>2. /\ v \in Paths /\ Len(v) = (IF j < Len(d) THEN Len(d) - j ELSE 0)
      /\ \A i \in 1..Len(v) : v[i] = d[i]
  <2>1. j \in Nat
    OBVIOUS
  <2> QED BY <2>1, UpIs
<1> HIDE DEF u, v
<1>3. Len(u) <= Len(v) /\ Len(u) <= Len(d) /\ Len(u) \in Nat /\ Len(v) \in Nat
  BY <1>1, <1>2
<1>4. \A i \in 1..Len(u) : u[i] = v[i]
  <2>1. \A i \in 1..Len(u) : i \in 1..Len(v)
    BY <1>3
  <2> QED BY <1>1, <1>2, <2>1
<1>5. IsPrefix(u, v)
  BY <1>1, <1>2, <1>3, <1>4, PrefixIs
<1>6. IsPrefix(u, d)
  BY <1>1, <1>3, PrefixIs
<1> QED BY <1>5, <1>6 DEF u, v

---------------------------------------------------------------------------
(* Scripts. *)

Packaged(m, name) == ya_get_exe_dir(m) \o <<"scripts", name>>
Older(m, name) == ya_get_exe_dir(m) \o <<"scripts", m.platform, name>>
Bundled(m, name) == Up(ya_get_exe_dir(m), 1) \o <<"Resources", "scripts", name>>

\* The directory the server's executable is in, and its length.
DirLength(m) == Len(ya_get_exe_dir(m))

\* Every script ya_run_power_script may run is in a trusted place, and has the name it
\* was asked for.
LEMMA ScriptPlaces ==
    ASSUME NEW m \in Machines, NEW name \in ScriptNames
    PROVE  /\ ScriptAt(m, Packaged(m, name), name) /\ Len(Packaged(m, name)) = DirLength(m) + 2
           /\ ScriptAt(m, Older(m, name), name) /\ Len(Older(m, name)) = DirLength(m) + 3
           /\ ScriptAt(m, Bundled(m, name), name)
           /\ Len(Bundled(m, name)) = (IF 1 < DirLength(m) THEN DirLength(m) - 1 ELSE 0) + 3
           /\ ScriptAt(m, DebugScript(m, name), name)
           /\ Len(DebugScript(m, name)) = (IF 4 < DirLength(m) THEN DirLength(m) - 4 ELSE 0) + 2
           /\ m.home # <<>> => ScriptAt(m, UserScript(m, name), name)
           /\ DirLength(m) \in Nat
<1> DEFINE d == ya_get_exe_dir(m)  u == Up(d, 4)
           two == <<"scripts", name>>  three == <<"scripts", m.platform, name>>
           bundle == <<"Resources", "scripts", name>>  users == <<"Library", "MouseHero", "scripts", name>>
<1> DEFINE N == FileNames
<1>1. d \in Paths /\ m.home \in Paths
  BY MachineFacts
<1>0. m.platform \in N /\ name \in N /\ "scripts" \in N /\ "Resources" \in N /\ "Library" \in N /\ "MouseHero" \in N
  <2>1. m.platform \in {"windows", "macos", "linux"}
    BY MachineFacts
  <2> QED BY <2>1, Zenon DEF FileNames
<1>2. two \in Paths /\ Len(two) = 2 /\ Len(two) >= 2 /\ Last(two) = name
  <2> HIDE DEF N
  <2>1. two \in Seq(N)
    BY <1>0
  <2>2. Len(two) = 2 /\ Last(two) = name
    BY <1>0 DEF Last
  <2> QED BY <2>1, <2>2 DEF Paths, N
<1>3. three \in Paths /\ Len(three) = 3 /\ Len(three) >= 2 /\ Last(three) = name
  <2> HIDE DEF N
  <2>1. three \in Seq(N)
    BY <1>0
  <2>2. Len(three) = 3 /\ Last(three) = name
    BY <1>0 DEF Last
  <2> QED BY <2>1, <2>2 DEF Paths, N
<1>4. bundle \in Paths /\ Len(bundle) = 3 /\ Len(bundle) >= 2 /\ Last(bundle) = name
  <2> HIDE DEF N
  <2>1. bundle \in Seq(N)
    BY <1>0
  <2>2. Len(bundle) = 3 /\ Last(bundle) = name
    BY <1>0 DEF Last
  <2> QED BY <2>1, <2>2 DEF Paths, N
<1>5. users \in Paths /\ Len(users) = 4 /\ Len(users) >= 2 /\ Last(users) = name
  <2> HIDE DEF N
  <2>1. users \in Seq(N)
    BY <1>0
  <2>2. Len(users) = 4 /\ Last(users) = name
    BY <1>0 DEF Last
  <2> QED BY <2>1, <2>2 DEF Paths, N
<1>6. IsPrefix(u, u) /\ IsPrefix(u, Up(d, 1)) /\ IsPrefix(u, d)
  BY <1>1, UpBelow
<1>7. /\ u \in Paths /\ Len(u) = (IF 4 < Len(d) THEN Len(d) - 4 ELSE 0)
      /\ Up(d, 1) \in Paths /\ Len(Up(d, 1)) = (IF 1 < Len(d) THEN Len(d) - 1 ELSE 0) /\ Len(d) \in Nat
  BY <1>1, UpIs
<1> HIDE DEF two, three, bundle, users
<1>8. ScriptAt(m, d \o two, name) /\ Len(d \o two) = Len(d) + Len(two)
  BY <1>1, <1>2, <1>6, PathBelow
<1>9. ScriptAt(m, d \o three, name) /\ Len(d \o three) = Len(d) + Len(three)
  BY <1>1, <1>3, <1>6, PathBelow
<1>10. ScriptAt(m, Up(d, 1) \o bundle, name) /\ Len(Up(d, 1) \o bundle) = Len(Up(d, 1)) + Len(bundle)
  BY <1>4, <1>6, <1>7, PathBelow
<1>11. ScriptAt(m, u \o two, name) /\ Len(u \o two) = Len(u) + Len(two)
  BY <1>2, <1>6, <1>7, PathBelow
<1>12. m.home # <<>> => ScriptAt(m, m.home \o users, name)
  BY <1>1, <1>5, PathBelow
<1>13. ScriptAt(m, Packaged(m, name), name) /\ Len(Packaged(m, name)) = DirLength(m) + 2
  BY <1>2, <1>8 DEF Packaged, DirLength, two
<1>14. ScriptAt(m, Older(m, name), name) /\ Len(Older(m, name)) = DirLength(m) + 3
  BY <1>3, <1>9 DEF Older, DirLength, three
<1>15. ScriptAt(m, Bundled(m, name), name)
       /\ Len(Bundled(m, name)) = (IF 1 < DirLength(m) THEN DirLength(m) - 1 ELSE 0) + 3
  BY <1>4, <1>7, <1>10 DEF Bundled, DirLength, bundle
<1>16. ScriptAt(m, DebugScript(m, name), name)
       /\ Len(DebugScript(m, name)) = (IF 4 < DirLength(m) THEN DirLength(m) - 4 ELSE 0) + 2
  BY <1>2, <1>7, <1>11 DEF DebugScript, DirLength, two
<1>17. m.home # <<>> => ScriptAt(m, UserScript(m, name), name)
  BY <1>12 DEF UserScript, users
<1> QED BY <1>7, <1>13, <1>14, <1>15, <1>16, <1>17 DEF DirLength

\* A debug build's script is none of the others.
LEMMA ScriptsDiffer ==
    ASSUME NEW m \in Machines, NEW name \in ScriptNames
    PROVE  /\ Packaged(m, name) # Older(m, name)
           /\ m.debug => /\ DebugScript(m, name) # Packaged(m, name)
                         /\ DebugScript(m, name) # Older(m, name)
                         /\ DebugScript(m, name) # Bundled(m, name)
                         /\ DebugScript(m, name) # UserScript(m, name)
<1> DEFINE k == DirLength(m)  a == Len(Packaged(m, name))  b == Len(Older(m, name))
           c == Len(Bundled(m, name))  e == Len(DebugScript(m, name))
<1>1. /\ k \in Nat /\ a = k + 2 /\ b = k + 3 /\ c = (IF 1 < k THEN k - 1 ELSE 0) + 3
      /\ e = (IF 4 < k THEN k - 4 ELSE 0) + 2
  BY ScriptPlaces
<1>2. m.debug => k # 0 /\ DebugScript(m, name) # UserScript(m, name)
  <2>1. ya_get_exe_dir(m) \in Seq(FileNames)
    BY MachineFacts DEF Paths
  <2>2. m.debug => ya_get_exe_dir(m) # <<>> /\ DebugScript(m, name) # UserScript(m, name)
    BY MachinesAssumption DEF ScriptNames
  <2> QED BY <2>1, <2>2, EmptySeq DEF DirLength
<1> HIDE DEF k, a, b, c, e
<1>3. a # b /\ (k # 0 => e # a) /\ e # b /\ e # c
  BY <1>1
<1> QED BY <1>2, <1>3 DEF a, b, c, e

\* Scripts of that name, each of them once.
Scripts(m, s, name) ==
    /\ s \in Seq(Paths) /\ \A i \in 1..Len(s) : ScriptAt(m, s[i], name)
    /\ \A i, j \in 1..Len(s) : i < j => s[i] # s[j]

\* A debug build's script goes before the others.
LEMMA OneMoreScript ==
    ASSUME NEW m, NEW name, NEW s, Scripts(m, s, name), NEW p, ScriptAt(m, p, name),
           \A i \in 1..Len(s) : p # s[i]
    PROVE  Scripts(m, <<p>> \o s, name) /\ Len(<<p>> \o s) = Len(s) + 1 /\ Len(s) \in Nat
<1> DEFINE h == <<p>>  c == h \o s  k == Len(s)
<1>1. s \in Seq(Paths) /\ \A i \in 1..k : ScriptAt(m, s[i], name) /\ \A j \in 1..k : i < j => s[i] # s[j]
  BY DEF Scripts
<1>2. h \in Seq(Paths) /\ Len(h) = 1 /\ h[1] = p
  BY DEF ScriptAt
<1> HIDE DEF h
<1>3. c \in Seq(Paths) /\ Len(c) = 1 + k /\ k \in Nat /\ \A i \in 1..1 + k : c[i] = IF i <= 1 THEN h[i] ELSE s[i - 1]
  <2>1. c \in Seq(Paths) /\ Len(c) = Len(h) + k /\ k \in Nat
        /\ \A i \in 1..Len(h) + k : c[i] = IF i <= Len(h) THEN h[i] ELSE s[i - Len(h)]
    BY <1>1, <1>2, ConcatProperties, LenProperties, ZenonT(40)
  <2> HIDE DEF c, k
  <2> QED BY <1>2, <2>1
<1> HIDE DEF c, k
<1>4. c[1] = p /\ \A i \in 1..1 + k : i = 1 \/ (i - 1 \in 1..k /\ c[i] = s[i - 1])
  BY <1>2, <1>3
<1>5. \A i \in 1..1 + k : ScriptAt(m, c[i], name)
  BY <1>1, <1>4
<1>6. \A i, j \in 1..1 + k : i < j => c[i] # c[j]
  <2> SUFFICES ASSUME NEW i \in 1..1 + k, NEW j \in 1..1 + k, i < j PROVE c[i] # c[j]
    OBVIOUS
  <2>1. j - 1 \in 1..k /\ c[j] = s[j - 1]
    BY <1>3, <1>4
  <2>2. CASE i = 1
    BY <1>4, <2>1, <2>2 DEF k
  <2>3. CASE i # 1
    <3>1. i - 1 \in 1..k /\ c[i] = s[i - 1] /\ i - 1 < j - 1
      BY <1>3, <1>4, <2>3
    <3> QED BY <1>1, <2>1, <3>1
  <2> QED BY <2>2, <2>3
<1> QED BY <1>3, <1>5, <1>6 DEF Scripts, c, h, k

\* On macOS and Linux one place is chosen.
LEMMA OneScript ==
    ASSUME NEW m, NEW name, NEW p, ScriptAt(m, p, name)
    PROVE  Scripts(m, <<p>>, name) /\ Len(<<p>>) = 1
<1> DEFINE h == <<p>>
<1>1. h \in Seq(Paths) /\ Len(h) = 1 /\ h[1] = p
  BY DEF ScriptAt
<1> HIDE DEF h
<1>2. \A i \in 1..1 : ScriptAt(m, h[i], name) /\ \A j \in 1..1 : ~ (i < j)
  BY <1>1
<1> QED BY <1>1, <1>2 DEF Scripts, h

\* On Windows both places are tried.
LEMMA TwoScripts ==
    ASSUME NEW m, NEW name, NEW p, NEW q, ScriptAt(m, p, name), ScriptAt(m, q, name), p # q
    PROVE  Scripts(m, <<p, q>>, name) /\ Len(<<p, q>>) = 2
<1> DEFINE h == <<p, q>>
<1>1. h \in Seq(Paths) /\ Len(h) = 2 /\ h[1] = p /\ h[2] = q
  BY DEF ScriptAt
<1> HIDE DEF h
<1>2. \A i \in 1..2 : ScriptAt(m, h[i], name) /\ \A j \in 1..2 : i < j => h[i] # h[j]
  BY <1>1
<1> QED BY <1>1, <1>2 DEF Scripts, h

\* The scripts ya_run_power_script tries.
InPlace(m, name) ==
    CASE m.platform = "windows" -> <<Packaged(m, name), Older(m, name)>>
      [] m.platform = "macos"   -> <<OnMac(m, name)>>
      [] m.platform = "linux"   -> <<IF Packaged(m, name) \in m.files THEN Packaged(m, name) ELSE Older(m, name)>>

\* What ya_run_power_script does, in terms of its scripts.
LEMMA RunsScripts == \A m, name : ya_run_power_script(m, name) = Tried(Debug(m, name) \o InPlace(m, name), m)
BY Zenon DEF ya_run_power_script, InPlace, Packaged, Older

\* The scripts of an installed server, platform by platform; none is the debug build's.
LEMMA PlacesAre ==
    ASSUME NEW m \in Machines, NEW name \in ScriptNames, m.platform = "macos" => m.home # <<>>
    PROVE  /\ Scripts(m, InPlace(m, name), name) /\ Len(InPlace(m, name)) \in {1, 2}
           /\ m.debug => \A i \in 1..Len(InPlace(m, name)) : DebugScript(m, name) # InPlace(m, name)[i]
<1>1. /\ ScriptAt(m, Packaged(m, name), name) /\ ScriptAt(m, Older(m, name), name)
      /\ ScriptAt(m, Bundled(m, name), name)
      /\ m.home # <<>> => ScriptAt(m, UserScript(m, name), name)
  BY ScriptPlaces
<1>2. /\ Packaged(m, name) # Older(m, name)
      /\ m.debug => /\ DebugScript(m, name) # Packaged(m, name)
                    /\ DebugScript(m, name) # Older(m, name)
                    /\ DebugScript(m, name) # Bundled(m, name)
                    /\ DebugScript(m, name) # UserScript(m, name)
  BY ScriptsDiffer
<1> DEFINE s == InPlace(m, name)
<1>3. CASE m.platform = "windows"
  <2> DEFINE p == Packaged(m, name)  q == Older(m, name)
  <2>1. s = <<p, q>>
    BY <1>3 DEF InPlace
  <2> HIDE DEF p, q, s
  <2>2. Scripts(m, s, name) /\ Len(s) = 2
    BY <1>1, <1>2, <2>1, TwoScripts DEF p, q
  <2>3. s[1] = p /\ s[2] = q
    BY <2>1
  <2>4. m.debug => \A i \in 1..2 : DebugScript(m, name) # s[i]
    BY <1>2, <2>3 DEF p, q
  <2> QED BY <2>2, <2>4 DEF s
<1>4. CASE m.platform = "macos"
  <2>1. PICK p : p = OnMac(m, name)
    OBVIOUS
  <2>2. p = UserScript(m, name) \/ p = Bundled(m, name)
    BY <1>4, <2>1 DEF OnMac, Bundled
  <2>3. s = <<p>>
    BY <1>4, <2>1 DEF InPlace
  <2>4. ScriptAt(m, p, name) /\ (m.debug => DebugScript(m, name) # p)
    BY <1>1, <1>2, <1>4, <2>2
  <2> HIDE DEF s
  <2>5. Scripts(m, s, name) /\ Len(s) = 1
    BY <2>3, <2>4, OneScript
  <2>6. s[1] = p
    BY <2>3
  <2>7. m.debug => \A i \in 1..1 : DebugScript(m, name) # s[i]
    BY <2>4, <2>6
  <2> QED BY <2>5, <2>7 DEF s
<1>5. CASE m.platform = "linux"
  <2>1. PICK p : p = IF Packaged(m, name) \in m.files THEN Packaged(m, name) ELSE Older(m, name)
    OBVIOUS
  <2>2. p = Packaged(m, name) \/ p = Older(m, name)
    BY <2>1
  <2>3. s = <<p>>
    BY <1>5, <2>1 DEF InPlace
  <2>4. ScriptAt(m, p, name) /\ (m.debug => DebugScript(m, name) # p)
    BY <1>1, <1>2, <2>2
  <2> HIDE DEF s
  <2>5. Scripts(m, s, name) /\ Len(s) = 1
    BY <2>3, <2>4, OneScript
  <2>6. s[1] = p
    BY <2>3
  <2>7. m.debug => \A i \in 1..1 : DebugScript(m, name) # s[i]
    BY <2>4, <2>6
  <2> QED BY <2>5, <2>7 DEF s
<1> QED BY <1>3, <1>4, <1>5, MachineFacts

\* Each is a script of the operation's, and none is there twice.
LEMMA ProgramsAre ==
    ASSUME NEW m \in Machines, NEW name \in ScriptNames, m.platform = "macos" => m.home # <<>>
    PROVE  LET s == Debug(m, name) \o InPlace(m, name)
           IN  Scripts(m, s, name) /\ Len(s) \in 1..3
<1> DEFINE t == InPlace(m, name)
<1>1. /\ Scripts(m, t, name) /\ Len(t) \in {1, 2}
      /\ m.debug => \A i \in 1..Len(t) : DebugScript(m, name) # t[i]
  BY PlacesAre
<1>2. ScriptAt(m, DebugScript(m, name), name)
  BY ScriptPlaces
<1>3. Debug(m, name) = <<>> \/ (m.debug /\ Debug(m, name) = <<DebugScript(m, name)>>)
  BY DEF Debug
<1> HIDE DEF t
<1>4. CASE Debug(m, name) = <<>>
  <2>1. <<>> \o t = t
    BY <1>1, ConcatEmptySeq DEF Scripts
  <2>2. Len(t) \in 1..3
    BY <1>1
  <2> QED BY <1>1, <1>4, <2>1, <2>2 DEF t
<1>5. CASE m.debug /\ Debug(m, name) = <<DebugScript(m, name)>>
  <2>1. PICK p : p = DebugScript(m, name)
    OBVIOUS
  <2>2. Scripts(m, <<p>> \o t, name) /\ Len(<<p>> \o t) = Len(t) + 1
    BY <1>1, <1>2, <1>5, <2>1, OneMoreScript
  <2>3. Len(t) + 1 \in 1..3
    <3> DEFINE l == Len(t)
    <3>1. l = 1 \/ l = 2
      BY <1>1
    <3> HIDE DEF l
    <3>2. l + 1 \in 1..3
      BY <3>1
    <3> QED BY <3>2 DEF l
  <2> QED BY <1>5, <2>1, <2>2, <2>3 DEF t
<1> QED BY <1>3, <1>4, <1>5

---------------------------------------------------------------------------
(* What a CONTROL operation runs. *)

\* What ran are the first of the programs, up to one that exits with 0 if there is one.
LEMMA TriedIs ==
    ASSUME NEW m, NEW s, Len(s) \in 1..3
    PROVE  \E n \in 1..Len(s) :
              /\ Tried(s, m).ran = SubSeq(s, 1, n) /\ Tried(s, m).ok = (s[n] \in m.works)
              /\ s[n] \in m.works \/ n = Len(s)
              /\ \A i \in 1..n - 1 : s[i] \notin m.works
<1> DEFINE Stops(k) == (s[k] \in m.works \/ k = Len(s)) /\ \A i \in 1..k - 1 : ~ (s[i] \in m.works)
           n == CHOOSE k \in 1..Len(s) : Stops(k)
<1>1. \E k \in 1..Len(s) : Stops(k)
  <2> DEFINE l == Len(s)
  <2>1. l = 1 \/ l = 2 \/ l = 3
    OBVIOUS
  <2> HIDE DEF l
  <2>2. \E k \in 1..l : (s[k] \in m.works \/ k = l) /\ \A i \in 1..k - 1 : ~ (s[i] \in m.works)
    <3>1. CASE s[1] \in m.works \/ l = 1
      <4>1. 1 \in 1..l /\ \A i \in 1..1 - 1 : FALSE
        BY <2>1
      <4> QED BY <3>1, <4>1
    <3>2. CASE l # 1 /\ ~ (s[1] \in m.works) /\ (s[2] \in m.works \/ l = 2)
      <4>1. 2 \in 1..l /\ \A i \in 1..2 - 1 : i = 1
        BY <2>1, <3>2
      <4> QED BY <3>2, <4>1
    <3>3. CASE l = 3 /\ ~ (s[1] \in m.works) /\ ~ (s[2] \in m.works)
      <4>1. 3 \in 1..l /\ \A i \in 1..3 - 1 : i = 1 \/ i = 2
        BY <3>3
      <4> QED BY <3>3, <4>1
    <3> QED BY <2>1, <3>1, <3>2, <3>3
  <2> QED BY <2>2 DEF l
<1>2. n \in 1..Len(s) /\ Stops(n)
  BY <1>1, Zenon
<1>3. Tried(s, m) = [ran |-> SubSeq(s, 1, n), ok |-> s[n] \in m.works]
  BY Zenon DEF Tried
<1> HIDE DEF n
<1> QED BY <1>2, <1>3

\* What came of the scripts and, where none did it, of the system's command.
Done(m, done, name) ==
    LET ran == done.ran
    IN  /\ ran # <<>>
        /\ \A i, j \in 1..Len(ran) : i < j => ran[i] \notin m.works /\ ran[i] # ran[j]
        /\ \A i \in 1..Len(ran) :
              IF Len(ran[i]) = 1 THEN i = Len(ran)
              ELSE Trusted(m, ran[i]) /\ Last(ran[i]) = name
        /\ done.ok \/ Len(Last(ran)) = 1

\* The scripts up to the one that stops the loop.
LEMMA FirstScripts ==
    ASSUME NEW m, NEW name, NEW s, Scripts(m, s, name), NEW n \in 1..Len(s)
    PROVE  Scripts(m, SubSeq(s, 1, n), name) /\ Len(SubSeq(s, 1, n)) = n
           /\ \A i \in 1..n : SubSeq(s, 1, n)[i] = s[i]
<1> DEFINE k == 1  t == SubSeq(s, k, n)
<1>1. s \in Seq(Paths) /\ Len(s) \in Nat /\ n \in Nat /\ n <= Len(s) /\ n >= 1
  BY LenProperties DEF Scripts
<1>2. \A i \in k..n : s[i] \in Paths
  <2>1. \A i \in k..n : i \in 1..Len(s)
    BY <1>1
  <2> QED BY <1>1, <2>1, ElementOfSeq
<1>3. k \in Int /\ n \in Int /\ k <= n /\ n - k + 1 = n /\ \A i \in 1..n : k + i - 1 = i
  BY <1>1
<1> HIDE DEF k
<1>4. t \in Seq(Paths) /\ Len(t) = n /\ \A i \in 1..n : t[i] = s[i]
  <2>1. t \in Seq(Paths) /\ Len(t) = (IF k <= n THEN n - k + 1 ELSE 0) /\ \A i \in 1..n - k + 1 : t[i] = s[k + i - 1]
    BY <1>2, <1>3, SubSeqProperties
  <2> HIDE DEF t
  <2> QED BY <1>3, <2>1
<1> HIDE DEF t
<1>5. \A i \in 1..n : i \in 1..Len(s)
  BY <1>1
<1>6. Scripts(m, t, name)
  BY <1>4, <1>5 DEF Scripts
<1> QED BY <1>4, <1>6 DEF t, k

\* Scripts up to one that exits with 0, else the system's command: the handlers of
\* ya_server_handler.c:737-834.
LEMMA ScriptsDone ==
    ASSUME NEW m, NEW name, NEW s, Scripts(m, s, name), Len(s) \in 1..3, NEW command, Len(command) = 1
    PROVE  Done(m, OrCommand(Tried(s, m), m, command), name)
<1> DEFINE done == OrCommand(Tried(s, m), m, command)
<1>1. PICK n \in 1..Len(s) :
              /\ Tried(s, m).ran = SubSeq(s, 1, n) /\ Tried(s, m).ok = (s[n] \in m.works)
              /\ s[n] \in m.works \/ n = Len(s)
              /\ \A i \in 1..n - 1 : s[i] \notin m.works
  BY TriedIs
<1>2. PICK t : t = SubSeq(s, 1, n)
  OBVIOUS
<1>3. Scripts(m, t, name) /\ Len(t) = n /\ n \in Nat /\ n >= 1 /\ \A i \in 1..n : t[i] = s[i]
  BY <1>2, FirstScripts
<1>4. \A i \in 1..n : Len(t[i]) # 1 /\ Trusted(m, t[i]) /\ Last(t[i]) = name
  <2> SUFFICES ASSUME NEW i \in 1..n PROVE Len(t[i]) # 1 /\ Trusted(m, t[i]) /\ Last(t[i]) = name
    OBVIOUS
  <2>1. ScriptAt(m, t[i], name)
    BY <1>3 DEF Scripts
  <2>2. t[i] \in Paths /\ Len(t[i]) \in Nat /\ Len(t[i]) >= 2 /\ Trusted(m, t[i]) /\ Last(t[i]) = name
    BY <2>1, Zenon DEF ScriptAt
  <2> DEFINE l == Len(t[i])
  <2>3. l \in Nat /\ l >= 2
    BY <2>2
  <2> HIDE DEF l
  <2>4. l # 1
    BY <2>3
  <2> QED BY <2>2, <2>4 DEF l
<1>5. \A i, j \in 1..n : i < j => t[i] \notin m.works /\ t[i] # t[j]
  <2> SUFFICES ASSUME NEW i \in 1..n, NEW j \in 1..n, i < j PROVE t[i] \notin m.works /\ t[i] # t[j]
    OBVIOUS
  <2>1. i \in 1..n - 1
    BY <1>3
  <2> QED BY <1>1, <1>3, <2>1 DEF Scripts
<1>6. CASE s[n] \in m.works
  <2>1. done = Tried(s, m) /\ done.ok
    BY <1>1, <1>6 DEF OrCommand
  <2>2. done.ran = t
    BY <1>1, <1>2, <2>1
  <2>3. t # <<>>
    BY <1>3
  <2> HIDE DEF done
  <2>4. Done(m, done, name)
    BY <1>3, <1>4, <1>5, <2>1, <2>2, <2>3 DEF Done
  <2> QED BY <2>4 DEF done
<1>7. CASE s[n] \notin m.works
  <2>1. done.ran = Append(t, command)
    <3>1. ~ Tried(s, m).ok
      BY <1>1, <1>7
    <3>2. done = system(Tried(s, m), command, m)
      BY <3>1 DEF OrCommand
    <3> QED BY <1>1, <1>2, <3>2 DEF system
  <2>2. PICK u : u = done.ran
    OBVIOUS
  <2>3. Len(u) = n + 1 /\ u[n + 1] = command /\ \A i \in 1..n : u[i] = t[i]
    <3> DEFINE S == Paths \cup {command}
    <3>1. t \in Seq(S) /\ command \in S
      <4>1. \A x \in Paths : x \in S
        OBVIOUS
      <4>2. t \in [1..Len(t) -> Paths] /\ Len(t) \in Nat
        BY <1>3, LenProperties DEF Scripts
      <4> HIDE DEF S
      <4>3. t \in [1..Len(t) -> S]
        BY <4>1, <4>2
      <4>4. t \in Seq(S)
        BY <4>2, <4>3
      <4> QED BY <4>4 DEF S
    <3> HIDE DEF S
    <3> QED BY <1>3, <2>1, <2>2, <3>1, AppendProperties
  <2>4. \A i \in 1..n + 1 : i = n + 1 \/ i \in 1..n
    BY <1>3
  <2>5. n + 1 \in 1..n + 1 /\ n + 1 \notin 1..n
    BY <1>3
  <2>6. \A i \in 1..n : t[i] \notin m.works
    <3> SUFFICES ASSUME NEW i \in 1..n PROVE t[i] \notin m.works
      OBVIOUS
    <3>1. CASE i = n
      BY <1>3, <1>7, <3>1
    <3>2. CASE i # n
      <4>1. i < n /\ n \in 1..n
        BY <1>3, <3>2
      <4> QED BY <1>5, <4>1
    <3> QED BY <3>1, <3>2
  <2>7. \A i, j \in 1..n + 1 : i < j => u[i] \notin m.works /\ u[i] # u[j]
    <3> SUFFICES ASSUME NEW i \in 1..n + 1, NEW j \in 1..n + 1, i < j PROVE u[i] \notin m.works /\ u[i] # u[j]
      OBVIOUS
    <3>1. i \in 1..n
      BY <1>3
    <3>2. u[i] = t[i] /\ t[i] \notin m.works
      BY <2>3, <2>6, <3>1
    <3>3. CASE j = n + 1
      <4>1. u[j] = command /\ Len(t[i]) # 1
        BY <1>4, <2>3, <3>1, <3>3
      <4> QED BY <3>2, <4>1
    <3>4. CASE j \in 1..n
      BY <1>5, <2>3, <3>1, <3>2, <3>4
    <3> QED BY <2>4, <3>3, <3>4
  <2>8. \A i \in 1..n + 1 : IF Len(u[i]) = 1 THEN i = n + 1 ELSE Trusted(m, u[i]) /\ Last(u[i]) = name
    <3> SUFFICES ASSUME NEW i \in 1..n + 1
                 PROVE  IF Len(u[i]) = 1 THEN i = n + 1 ELSE Trusted(m, u[i]) /\ Last(u[i]) = name
      OBVIOUS
    <3>1. CASE i = n + 1
      BY <2>3, <3>1
    <3>2. CASE i \in 1..n
      BY <1>4, <2>3, <3>2
    <3> QED BY <2>4, <3>1, <3>2
  <2>9. u # <<>> /\ Len(Last(u)) = 1
    <3>1. Len(u) # 0
      BY <1>3, <2>3
    <3>2. Last(u) = command
      BY <2>3 DEF Last
    <3> QED BY <3>1, <3>2
  <2> HIDE DEF done
  <2>10. Done(m, done, name)
    BY <2>2, <2>3, <2>7, <2>8, <2>9 DEF Done
  <2> QED BY <2>10 DEF done
<1> QED BY <1>6, <1>7

\* A CONTROL operation does it once.
LEMMA ControlOnce ==
    ASSUME NEW m \in Machines, NEW op, m.platform = "macos" => m.home # <<>>
    PROVE  ReachesOnce(m, op, handle_control(m, op))
<1>1. \A name \in ScriptNames : \A command : Len(command) = 1 =>
         Done(m, OrCommand(ya_run_power_script(m, name), m, command), name)
  <2> SUFFICES ASSUME NEW name \in ScriptNames, NEW command, Len(command) = 1
               PROVE  Done(m, OrCommand(ya_run_power_script(m, name), m, command), name)
    OBVIOUS
  <2>1. PICK s : s = Debug(m, name) \o InPlace(m, name)
    OBVIOUS
  <2>2. Scripts(m, s, name) /\ Len(s) \in 1..3
    BY <2>1, ProgramsAre
  <2>3. ya_run_power_script(m, name) = Tried(s, m)
    BY <2>1, RunsScripts
  <2> QED BY <2>2, <2>3, ScriptsDone
<1>2. Done(m, handle_poweroff(m), "poweroff")
  <2>1. PICK c : c = IF m.platform = "windows" THEN <<"shutdown /s /t 0">> ELSE <<"shutdown -h now">>
    BY Zenon
  <2>2. Len(c) = 1 /\ "poweroff" \in ScriptNames
    BY <2>1, Zenon DEF ScriptNames
  <2>3. handle_poweroff(m) = OrCommand(ya_run_power_script(m, "poweroff"), m, c)
    BY <2>1, Zenon DEF handle_poweroff
  <2> QED BY <1>1, <2>2, <2>3
<1>3. m.platform \in {"windows", "macos", "linux"}
  BY MachineFacts
<1>4. Done(m, handle_restart(m), "restart")
  <2>1. PICK c : c = CASE m.platform = "windows" -> <<"shutdown /r /t 0">>
                       [] m.platform = "macos"   -> <<"shutdown -r now">>
                       [] m.platform = "linux"   -> <<"reboot">>
    BY Zenon
  <2>2. Len(c) = 1 /\ "restart" \in ScriptNames
    BY <1>3, <2>1, Zenon DEF ScriptNames
  <2>3. handle_restart(m) = OrCommand(ya_run_power_script(m, "restart"), m, c)
    BY <2>1, Zenon DEF handle_restart
  <2> QED BY <1>1, <2>2, <2>3
<1>5. Done(m, handle_sleep(m), "sleep")
  <2>1. PICK c : c = CASE m.platform = "windows" -> <<"rundll32.exe powrprof.dll,SetSuspendState 0,1,0">>
                       [] m.platform = "macos"   -> <<"pmset sleepnow">>
                       [] m.platform = "linux"   -> <<"systemctl suspend">>
    BY Zenon
  <2>2. Len(c) = 1 /\ "sleep" \in ScriptNames
    BY <1>3, <2>1, Zenon DEF ScriptNames
  <2>3. handle_sleep(m) = OrCommand(ya_run_power_script(m, "sleep"), m, c)
    BY <2>1, Zenon DEF handle_sleep
  <2> QED BY <1>1, <2>2, <2>3
<1>6. \A done, name : Done(m, done, name) /\ op \in 1..3 /\ Script(op) = name => ReachesOnce(m, op, done)
  BY DEF Done, ReachesOnce
<1>7. CASE op = 1
  <2>1. handle_control(m, op) = handle_poweroff(m) /\ Script(op) = "poweroff" /\ op \in 1..3
    BY <1>7 DEF handle_control, Script, CONTROL_OP_SHUTDOWN, CONTROL_OP_RESTART, CONTROL_OP_SLEEP
  <2> QED BY <1>2, <1>6, <2>1
<1>8. CASE op = 2
  <2>1. handle_control(m, op) = handle_restart(m) /\ Script(op) = "restart" /\ op \in 1..3
    BY <1>8 DEF handle_control, Script, CONTROL_OP_SHUTDOWN, CONTROL_OP_RESTART, CONTROL_OP_SLEEP
  <2> QED BY <1>4, <1>6, <2>1
<1>9. CASE op = 3
  <2>1. handle_control(m, op) = handle_sleep(m) /\ Script(op) = "sleep" /\ op \in 1..3
    BY <1>9 DEF handle_control, Script, CONTROL_OP_SHUTDOWN, CONTROL_OP_RESTART, CONTROL_OP_SLEEP
  <2> QED BY <1>5, <1>6, <2>1
<1>10. CASE op \notin {1, 2, 3}
  <2>1. handle_control(m, op) = Nobody
    BY <1>10 DEF handle_control, CONTROL_OP_SHUTDOWN, CONTROL_OP_RESTART, CONTROL_OP_SLEEP
  <2>2. op \notin 1..3
    BY <1>10
  <2>3. handle_control(m, op).ran = <<>> /\ Len(<<>>) = 0
    BY <2>1 DEF Nobody
  <2> QED BY <2>2, <2>3 DEF ReachesOnce
<1> QED BY <1>7, <1>8, <1>9, <1>10

---------------------------------------------------------------------------
(* Datagrams. *)

\* A buffer that holds a package, or its beginning, and parses: it is what the phone meant.
LEMMA ReceivedWhole ==
    ASSUME NEW p \in Datagrams \cup Searches, NEW size \in Nat, size >= 8
    PROVE  /\ SizesThere(Buffer(Frame(p), size))
           /\ Received(Buffer(Frame(p), size)).ok =>
                 Received(Buffer(Frame(p), size)).event = Meant(p) /\ Readable(p)
<1> DEFINE n == Smaller(Len(Frame(p)), size)  buffer == Buffer(Frame(p), size)
<1>1. Sane(p) /\ Headed(p) /\ p.body \in Data /\ Carries(p) /\ Len(PhoneHeader(p)) + Len(p.body) + 4 < MaxLength
  BY PackageSane DEF Sane
<1>2. PICK f \in Data : f = Frame(p)
  BY PackageFramed
<1>3. <<>> \in Data /\ f \o <<>> = f /\ Len(f) \in Nat
  BY JoinedEmpty, Cut
<1>4. n \in Nat /\ n <= Len(f) /\ n >= 8
  <2> DEFINE k == Len(f)
  <2>1. k \in Nat /\ n = IF k < size THEN k ELSE size
    BY <1>2, <1>3 DEF Smaller
  <2>2. k >= 8
    BY <1>1, <1>2, <1>3, FrameFacts
  <2> HIDE DEF k, n
  <2> QED BY <2>1, <2>2 DEF k
<1>5. PICK in, tail : in \in Data /\ tail \in Data /\ in = buffer /\ in \o tail = f /\ Len(in) = n
  <2>1. buffer = SubSeq(f, 1, n)
    BY <1>2, Zenon DEF Buffer
  <2> HIDE DEF n, buffer
  <2>2. SubSeq(f, 1, n) \in Data /\ Drop(f, n) \in Data /\ SubSeq(f, 1, n) \o Drop(f, n) = f
    BY <1>4, PieceArrives
  <2>3. Len(SubSeq(f, 1, n)) = n
    <3> DEFINE m == 1
    <3>1. m \in Nat \ {0} /\ m <= n + 1 /\ n - m + 1 = n
      BY <1>4
    <3> HIDE DEF m
    <3>2. Len(SubSeq(f, m, n)) = n - m + 1
      BY <1>4, <3>1, PartOfData
    <3> QED BY <3>1, <3>2 DEF m
  <2> QED BY <2>1, <2>2, <2>3
<1> HIDE DEF n
<1>6. SizesThere(in)
  BY <1>4, <1>5 DEF SizesThere, Reaches
<1>7. ASSUME Received(in).ok PROVE Received(in).event = Meant(p) /\ Readable(p)
  <2>1. Received(in) = IF Len(in) # ya_get_package_size(in).total + 4 THEN [ok |-> FALSE]
                       ELSE ya_parse_event(Drop(in, 8), ya_get_package_size(in))
    BY Zenon DEF Received
  <2>2. Len(in) = ya_get_package_size(in).total + 4
    BY <1>7, <2>1
  <2>3. Whole(in)
    <3>1. ya_get_package_size(in).total \in Nat
      BY <1>5, PartWord DEF ya_get_package_size
    <3> DEFINE t == ya_get_package_size(in).total  l == Len(in)
    <3>2. t \in Nat /\ l = t + 4
      BY <2>2, <3>1
    <3> HIDE DEF t, l
    <3>3. l >= t + 4
      BY <3>2
    <3> QED BY <3>3 DEF Whole, t, l
  <2>4. in = f
    <3>1. Len(in) >= Len(f)
      <4>1. in \o tail = Frame(p) \o <<>>
        BY <1>2, <1>3, <1>5
      <4>2. Len(in) >= Len(Frame(p))
        BY <1>1, <1>3, <1>5, <2>3, <4>1, FrameFacts
      <4> QED BY <1>2, <4>2
    <3>2. n = Len(f)
      BY <1>3, <1>4, <1>5, <3>1
    <3>3. SubSeq(f \o <<>>, 1, Len(f)) = f
      BY <1>3, Cut
    <3>4. in = SubSeq(f, 1, n)
      BY <1>2, <1>5, Zenon DEF Buffer, n
    <3> QED BY <1>3, <3>2, <3>3, <3>4
  <2>5. LET s == Frame(p) \o <<>>
            g == ya_parse_event(Drop(s, 8), ya_get_package_size(s))
        IN  /\ Readable(p) => g.ok /\ g.left = <<>> /\ g.event = Meant(p)
            /\ ~ Readable(p) => ~ g.ok /\ g.left = Drop(s, 8)
    BY <1>1, <1>3, ParsePackage
  <2> DEFINE g == ya_parse_event(Drop(f, 8), ya_get_package_size(f))
  <2>6. Received(in) = g
    BY <2>1, <2>2, <2>4
  <2>7. Frame(p) \o <<>> = f
    BY <1>2, <1>3
  <2>8. (Readable(p) => g.event = Meant(p)) /\ (~ Readable(p) => ~ g.ok)
    BY <2>5, <2>7, Zenon
  <2> QED BY <1>7, <2>6, <2>8
<1> QED BY <1>5, <1>6, <1>7

\* Nothing comes out of a datagram that is shorter than the two sizes.
LEMMA StrayUnread == ASSUME NEW b \in Strays, NEW size \in Nat, size >= 8 PROVE ~ Received(Buffer(b, size)).ok
<1>1. b \in Data /\ Len(b) \in Nat /\ Len(b) < 8
  BY Cut, FramingAssumption
<1>2. Buffer(b, size) = b
  <2>1. Smaller(Len(b), size) = Len(b)
    BY <1>1 DEF Smaller
  <2>2. SubSeq(b, 1, Len(b)) = b
    <3>1. <<>> \in Data /\ b \o <<>> = b
      BY <1>1, JoinedEmpty
    <3> QED BY <1>1, <3>1, Cut
  <2> QED BY <2>1, <2>2 DEF Buffer
<1>3. Drop(b, 8) = <<>>
  <2> DEFINE m == 9  n == Len(b)
  <2>1. m = 8 + 1 /\ n < m /\ n \in Nat /\ m \in Nat
    BY <1>1
  <2> HIDE DEF m, n
  <2>2. SubSeq(b, m, n) = <<>>
    BY <2>1
  <2> QED BY <2>1, <2>2 DEF Drop, n
<1> DEFINE size2 == ya_get_package_size(b)  h == size2.header
<1>4. h \in Nat
  BY <1>1, WordThere DEF ya_get_package_size
<1>5. ~ ya_parse_event_header(<<>>, h).ok
  <2> HIDE DEF h
  <2>1. h = 0 \/ Len(<<>>) < h
    BY <1>4
  <2>2. ya_parse_event_header(<<>>, h) = Failure
    BY <2>1, Zenon DEF ya_parse_event_header
  <2> QED BY <2>2 DEF Failure
<1>6. ~ ya_parse_event(<<>>, size2).ok
  <2> DEFINE head == ya_parse_event_header(<<>>, h)
  <2> HIDE DEF size2, head
  <2>1. ya_parse_event(<<>>, size2) = [ok |-> FALSE, left |-> <<>>]
    BY <1>5 DEF ya_parse_event, head
  <2> QED BY <2>1
<1>7. Received(b) = [ok |-> FALSE] \/ Received(b) = ya_parse_event(Drop(b, 8), size2)
  BY Zenon DEF Received
<1> HIDE DEF size2
<1> QED BY <1>2, <1>3, <1>6, <1>7

\* What a port finds in its buffer.
LEMMA DatagramRead ==
    ASSUME NEW p, NEW bytes, Sends(p, bytes), NEW size \in Nat, size >= 8
    PROVE  /\ ~ SizesThere(Buffer(bytes, size)) => p = Stray
           /\ Received(Buffer(bytes, size)).ok =>
                 /\ p \in Datagrams \cup Searches /\ Readable(p)
                 /\ Received(Buffer(bytes, size)).event = Meant(p)
<1>1. CASE p \in Datagrams \cup Searches /\ bytes = Frame(p)
  BY <1>1, ReceivedWhole
<1>2. CASE p = Stray /\ bytes \in Strays
  BY <1>2, StrayUnread
<1> QED BY <1>1, <1>2, Zenon DEF Sends

\* The command port: nothing, or the phone's package and what process_server_event made
\* of it, without a connection.
LEMMA CommandHears ==
    ASSUME NEW p, NEW bytes, Sends(p, bytes), udp_readcb(p, bytes)
    PROVE  \/ Heard(p, "command", Nothing, Nothing) /\ (up' \/ p = Stray)
           \/ /\ p \in Datagrams \cup Searches /\ Readable(p)
              /\ \E client \in BOOLEAN : \E r \in process_server_event(Meant(p), client, FALSE) :
                    /\ died' = Fate(Meant(p), client, FALSE, r)
                    /\ Heard(p, "command", Meant(p), IF up' THEN r ELSE Nothing)
<1>1. PICK buffer, got : buffer = Buffer(bytes, DatagramSize) /\ got = Received(buffer)
  OBVIOUS
<1>2. PICK client : client = (got.event.uid = ClientUid)
  OBVIOUS
<1>3. /\ died = "no"
      /\ \/ ~ SizesThere(buffer) /\ Heard(p, "command", Nothing, Nothing)
         \/ Heard(p, "command", Nothing, Nothing) /\ died' = died
         \/ /\ got.ok
            /\ \E r \in process_server_event(got.event, client, FALSE) :
                  /\ died' = Fate(got.event, client, FALSE, r)
                  /\ Heard(p, "command", got.event, IF up' THEN r ELSE Nothing)
  BY <1>1, <1>2, Zenon DEF udp_readcb, up
<1>4. /\ ~ SizesThere(buffer) => p = Stray
      /\ got.ok => p \in Datagrams \cup Searches /\ Readable(p) /\ got.event = Meant(p)
  BY <1>1, DatagramRead, FramingAssumption
<1>5. client \in BOOLEAN
  BY <1>2, Zenon
<1> QED BY <1>3, <1>4, <1>5, Zenon DEF up

\* The discovery port: nothing, or the phone's package, answered as a search where its
\* first word is the magic.
LEMMA SearchHears ==
    ASSUME NEW p, NEW bytes, Sends(p, bytes), run_loop(p, bytes)
    PROVE  \/ Heard(p, "discovery", Nothing, Nothing) /\ (up' \/ p = Stray)
           \/ /\ p \in Datagrams \cup Searches
              /\ \E a \in {Nothing, SearchAnswer} :
                    /\ Heard(p, "discovery", Meant(p), a)
                    /\ up' \/ (a = Nothing /\ p.means = NoParam)
<1>1. PICK buffer, got : buffer = Buffer(bytes, SearchSize) /\ got = Received(buffer)
  OBVIOUS
<1>2. /\ died = "no"
      /\ \/ ~ SizesThere(buffer) /\ Heard(p, "discovery", Nothing, Nothing)
         \/ Heard(p, "discovery", Nothing, Nothing) /\ died' = died
         \/ got.ok /\ got.event.param = NoParam /\ Heard(p, "discovery", got.event, Nothing)
         \/ /\ got.ok
            /\ \E magic : Heard(p, "discovery", got.event, IF magic = DISCOVERY_MAGIC THEN SearchAnswer ELSE Nothing)
            /\ died' = died
  BY <1>1, Zenon DEF run_loop, up
<1>3. /\ ~ SizesThere(buffer) => p = Stray
      /\ got.ok => p \in Datagrams \cup Searches /\ got.event = Meant(p)
  BY <1>1, DatagramRead, FramingAssumption
<1>4. Meant(p).param = p.means
  BY DEF Meant
<1>5. CASE got.ok /\ got.event.param = NoParam /\ Heard(p, "discovery", got.event, Nothing)
  BY <1>3, <1>4, <1>5
<1>6. CASE /\ got.ok
           /\ \E magic : Heard(p, "discovery", got.event, IF magic = DISCOVERY_MAGIC THEN SearchAnswer ELSE Nothing)
           /\ died' = died
  <2>1. PICK magic : Heard(p, "discovery", got.event, IF magic = DISCOVERY_MAGIC THEN SearchAnswer ELSE Nothing)
    BY <1>6
  <2>2. PICK a : a = IF magic = DISCOVERY_MAGIC THEN SearchAnswer ELSE Nothing
    OBVIOUS
  <2>3. a \in {Nothing, SearchAnswer} /\ Heard(p, "discovery", got.event, a)
    BY <2>1, <2>2, Zenon
  <2>4. up'
    BY <1>2, <1>6 DEF up
  <2> QED BY <1>3, <1>6, <2>3, <2>4, Zenon
<1> QED BY <1>2, <1>3, <1>5, <1>6, Zenon DEF up

HeardMeant ==
    heard # Nothing =>
        \/ heard.event = Nothing
        \/ heard.of \in Datagrams \cup Searches /\ heard.event = Meant(heard.of)

\* A datagram that was read, with the event it gave.
LEMMA HeardWrites ==
    ASSUME NEW p, NEW port, NEW event, NEW response, Heard(p, port, event, response),
           event = Nothing \/ (p \in Datagrams \cup Searches /\ event = Meant(p))
    PROVE  HeardMeant'
<1>1. heard'.of = p /\ heard'.event = event
  BY DEF Heard
<1> QED BY <1>1, Zenon DEF HeardMeant

\* Both UDP ports: a datagram is the package the phone meant or nothing, never a part
\* of one cut off by the buffer, and never one with something behind it
\* (ya_server_command.c, ya_server_discover.c).
THEOREM HeardAsMeant == Spec => []HeardMeant
<1>1. Init => HeardMeant
  BY DEF Init, HeardMeant
<1>2. HeardMeant /\ [Next]_vars => HeardMeant'
  <2> SUFFICES ASSUME HeardMeant, [Next]_vars PROVE HeardMeant'
    OBVIOUS
  <2>1. CASE \E p \in Packages : PhoneWrites(p)
    <3>1. heard' = Nothing
      BY <2>1 DEF PhoneWrites
    <3> QED BY <3>1 DEF HeardMeant
  <2>2. CASE \E n \in Pieces : conn_readcb(n)
    <3>1. heard' = heard
      BY <2>2 DEF conn_readcb
    <3> QED BY <3>1 DEF HeardMeant
  <2>3. CASE \E p, bytes : Sends(p, bytes) /\ (udp_readcb(p, bytes) \/ run_loop(p, bytes))
    <3>1. PICK p, bytes : Sends(p, bytes) /\ (udp_readcb(p, bytes) \/ run_loop(p, bytes))
      BY <2>3
    <3>2. \E port, event, r : /\ Heard(p, port, event, r)
                              /\ event = Nothing \/ (p \in Datagrams \cup Searches /\ event = Meant(p))
      BY <3>1, CommandHears, SearchHears, Zenon
    <3> QED BY <3>2, HeardWrites
  <2>4. CASE UNCHANGED vars
    <3>1. heard' = heard
      BY <2>4 DEF vars
    <3> QED BY <3>1 DEF HeardMeant
  <2> QED BY <2>1, <2>2, <2>3, <2>4, NextSteps, Zenon
<1> QED BY <1>1, <1>2, PTL DEF Spec

\* A CONTROL datagram runs the scripts of the operation it meant, none after one that
\* did it and none twice, and the system's own command at last
\* (ya_power_scripts.c:86-168, ya_server_handler.c:737-861).
THEOREM ControlReachesOnce == Spec => []PowerOnce
<1>1. HeardMeant => PowerOnce
  <2> SUFFICES ASSUME HeardMeant, heard # Nothing, heard.event # Nothing, heard.port = "command",
                      heard.event.type = "CONTROL", heard.event.param # NoParam,
                      NEW m \in Machines, m.platform = "macos" => m.home # <<>>
               PROVE  ReachesOnce(m, Length(heard.of.means.lparam), handle_control(m, Length(heard.event.param.lparam)))
    BY Zenon DEF PowerOnce
  <2>1. heard.event = Meant(heard.of)
    BY DEF HeardMeant
  <2>2. heard.event.param = heard.of.means
    BY <2>1 DEF Meant
  <2> QED BY <2>2, ControlOnce
<1> QED BY <1>1, HeardAsMeant, PTL

---------------------------------------------------------------------------
(* Loops, and a buffer that grows. *)

\* A loop over the numbers up to n: its values g, when every turn leads from T to T.
Loops(T, n, base, f, g) ==
    /\ g \in [0..n -> T] /\ g[0] = base
    /\ \A k \in 1..n : g[k] = f[<<g[k - 1], k>>]

\* Every loop has its values: the recursive functions of the modules are defined.
LEMMA LoopExists ==
    ASSUME NEW n \in Nat, NEW T, NEW base \in T, NEW f, \A t \in T : \A k \in 1..n : f[<<t, k>>] \in T
    PROVE  \E g : Loops(T, n, base, f, g)
<1> DEFINE P == {m \in 0..n : \E g : Loops(T, m, base, f, g)}
<1>1. 0 \in P
  <2> DEFINE g == [k \in 0..0 |-> base]
  <2>1. Loops(T, 0, base, f, g)
    BY DEF Loops
  <2> QED BY <2>1
<1>2. ASSUME NEW m \in 1..n, m - 1 \in P PROVE m \in P
  <2>1. PICK g : Loops(T, m - 1, base, f, g)
    BY <1>2
  <2> DEFINE h == [k \in 0..m |-> IF k = m THEN f[<<g[m - 1], m>>] ELSE g[k]]
  <2>2. g \in [0..m - 1 -> T] /\ g[0] = base /\ \A k \in 1..m - 1 : g[k] = f[<<g[k - 1], k>>]
    BY <2>1 DEF Loops
  <2>3. g[m - 1] \in T /\ f[<<g[m - 1], m>>] \in T
    BY <2>2
  <2>4. h \in [0..m -> T] /\ h[0] = base
    BY <2>2, <2>3
  <2>5. ASSUME NEW k \in 1..m PROVE h[k] = f[<<h[k - 1], k>>]
    <3>1. h[k - 1] = g[k - 1]
      OBVIOUS
    <3>2. CASE k = m
      <4>1. h[m] = f[<<g[m - 1], m>>]
        OBVIOUS
      <4> HIDE DEF h
      <4> QED BY <3>1, <3>2, <4>1, Zenon
    <3>3. CASE k # m
      <4>1. k \in 1..m - 1
        BY <3>3
      <4>2. h[k] = g[k]
        BY <3>3
      <4> HIDE DEF h
      <4> QED BY <2>2, <3>1, <4>1, <4>2
    <3> QED BY <3>2, <3>3
  <2>6. Loops(T, m, base, f, h)
    <3> HIDE DEF h
    <3> QED BY <2>4, <2>5 DEF Loops
  <2> QED BY <2>6
<1>3. P \in SUBSET Nat
  OBVIOUS
<1>4. \A k \in 0..n : k \in P
  <2> SUFFICES ASSUME NEW k \in 0..n, k \notin P PROVE FALSE
    OBVIOUS
  <2> DEFINE Q == {j \in 0..n : j \notin P}
  <2>1. Q \in SUBSET Nat /\ Q # {}
    OBVIOUS
  <2>2. PICK m \in Q : \A j \in Q : m <= j
    <3> HIDE DEF Q
    <3> QED BY <2>1, LeastElement
  <2>3. m \in 0..n /\ m \notin P
    BY <2>2
  <2>4. m # 0
    <3> HIDE DEF P
    <3> QED BY <1>1, <2>3
  <2>5. m \in 1..n /\ m - 1 \in 0..n /\ ~ m <= m - 1
    BY <2>3, <2>4
  <2>6. m - 1 \in P
    <3> HIDE DEF P
    <3> QED BY <2>2, <2>5
  <2> HIDE DEF P
  <2> QED BY <1>2, <2>3, <2>5, <2>6
<1> QED BY <1>4

\* The capacities of a growing buffer.
LEMMA DoubledSize ==
    ASSUME NEW size \in Nat, size >= 32, NEW n \in Nat, n <= size + MaxLength
    PROVE  Doubled(size, n) \in Nat /\ Doubled(size, n) >= n /\ Doubled(size, n) >= 2 * size
<1> DEFINE Enough(c) == IF c >= n THEN c ELSE 2 * c
           Is(C) == C = [k \in 1..31 |-> IF k = 1 THEN 2 * size ELSE Enough(C[k - 1])]
           f == [x \in Nat \X (1..30) |-> Enough(x[1])]
<1>1. \E C : Is(C)
  <2>1. \A t \in Nat : \A k \in 1..30 : f[<<t, k>>] = Enough(t) /\ Enough(t) \in Nat
    OBVIOUS
  <2>2. 30 \in Nat /\ 2 * size \in Nat /\ \A t \in Nat : \A k \in 1..30 : f[<<t, k>>] \in Nat
    BY <2>1
  <2>3. PICK g : Loops(Nat, 30, 2 * size, f, g)
    <3> HIDE DEF f
    <3> QED BY <2>2, LoopExists
  <2> DEFINE C == [k \in 1..31 |-> g[k - 1]]
  <2>4. g[0] = 2 * size /\ \A k \in 1..30 : g[k - 1] \in Nat /\ g[k] = Enough(g[k - 1])
    <3>1. g \in [0..30 -> Nat] /\ g[0] = 2 * size /\ \A k \in 1..30 : g[k] = f[<<g[k - 1], k>>]
      BY <2>3, Zenon DEF Loops
    <3>2. \A k \in 1..30 : g[k - 1] \in Nat
      BY <3>1
    <3> HIDE DEF f, Enough
    <3> QED BY <2>1, <3>1, <3>2, ZenonT(40)
  <2>5. ASSUME NEW k \in 1..31 PROVE C[k] = IF k = 1 THEN 2 * size ELSE Enough(C[k - 1])
    <3>1. CASE k = 1
      BY <2>4, <3>1
    <3>2. CASE k # 1
      <4>1. k - 1 \in 1..30 /\ C[k] = g[k - 1] /\ C[k - 1] = g[(k - 1) - 1]
        BY <3>2
      <4> HIDE DEF Enough, C
      <4> QED BY <2>4, <3>2, <4>1
    <3> QED BY <3>1, <3>2
  <2>6. C = [k \in 1..31 |-> IF k = 1 THEN 2 * size ELSE Enough(C[k - 1])]
    <3>1. C = [k \in 1..31 |-> C[k]]
      OBVIOUS
    <3> HIDE DEF C, Enough
    <3> QED BY <2>5, <3>1
  <2> HIDE DEF C
  <2> QED BY <2>6
<1> DEFINE C == CHOOSE C : Is(C)
<1>2. Is(C)
  <2> HIDE DEF Is
  <2> QED BY <1>1, Zenon
<1>3. Doubled(size, n) = C[31]
  BY Zenon DEF Doubled
<1>4. C[1] = 2 * size /\ \A k \in 2..31 : C[k] = IF C[k - 1] >= n THEN C[k - 1] ELSE 2 * C[k - 1]
  <2> HIDE DEF C
  <2> QED BY <1>2
<1> HIDE DEF C
<1>5. ASSUME NEW k \in 1..25, C[k] \in Nat
      PROVE  C[k + 6] \in Nat /\ C[k + 6] >= C[k] /\ (C[k + 6] >= n \/ C[k + 6] >= 64 * C[k])
  <2>1. \A j \in 1..30 : C[j] \in Nat => C[j + 1] \in Nat /\ (C[j + 1] = 2 * C[j] \/ (C[j + 1] = C[j] /\ C[j] >= n))
    <3>1. TAKE j \in 1..30
    <3>2. j + 1 \in 2..31 /\ (j + 1) - 1 = j
      OBVIOUS
    <3> QED BY <1>4, <3>2
  <2>2. C[k + 1] \in Nat /\ C[k + 1] >= C[k] /\ (C[k + 1] >= n \/ C[k + 1] >= 2 * C[k])
    BY <1>5, <2>1
  <2>3. C[k + 2] \in Nat /\ C[k + 2] >= C[k] /\ (C[k + 2] >= n \/ C[k + 2] >= 4 * C[k])
    <3>1. k + 1 \in 1..30 /\ (k + 1) + 1 = k + 2
      OBVIOUS
    <3> QED BY <1>5, <2>1, <2>2, <3>1
  <2>4. C[k + 3] \in Nat /\ C[k + 3] >= C[k] /\ (C[k + 3] >= n \/ C[k + 3] >= 8 * C[k])
    <3>1. k + 2 \in 1..30 /\ (k + 2) + 1 = k + 3
      OBVIOUS
    <3> QED BY <1>5, <2>1, <2>3, <3>1
  <2>5. C[k + 4] \in Nat /\ C[k + 4] >= C[k] /\ (C[k + 4] >= n \/ C[k + 4] >= 16 * C[k])
    <3>1. k + 3 \in 1..30 /\ (k + 3) + 1 = k + 4
      OBVIOUS
    <3> QED BY <1>5, <2>1, <2>4, <3>1
  <2>6. C[k + 5] \in Nat /\ C[k + 5] >= C[k] /\ (C[k + 5] >= n \/ C[k + 5] >= 32 * C[k])
    <3>1. k + 4 \in 1..30 /\ (k + 4) + 1 = k + 5
      OBVIOUS
    <3> QED BY <1>5, <2>1, <2>5, <3>1
  <2>7. k + 5 \in 1..30 /\ (k + 5) + 1 = k + 6
    OBVIOUS
  <2> QED BY <1>5, <2>1, <2>6, <2>7
<1>6. C[1] \in Nat /\ C[1] >= 64
  BY <1>4
<1>7. C[7] \in Nat /\ C[7] >= C[1] /\ (C[7] >= n \/ C[7] >= 64 * C[1])
  <2>1. 1 \in 1..25 /\ 1 + 6 = 7
    OBVIOUS
  <2> QED BY <1>5, <1>6, <2>1
<1>8. C[13] \in Nat /\ C[13] >= C[7] /\ (C[13] >= n \/ C[13] >= 64 * C[7])
  <2>1. 7 \in 1..25 /\ 7 + 6 = 13
    OBVIOUS
  <2> QED BY <1>5, <1>7, <2>1
<1>9. C[19] \in Nat /\ C[19] >= C[13] /\ (C[19] >= n \/ C[19] >= 64 * C[13])
  <2>1. 13 \in 1..25 /\ 13 + 6 = 19
    OBVIOUS
  <2> QED BY <1>5, <1>8, <2>1
<1>10. C[25] \in Nat /\ C[25] >= C[19] /\ (C[25] >= n \/ C[25] >= 64 * C[19])
  <2>1. 19 \in 1..25 /\ 19 + 6 = 25
    OBVIOUS
  <2> QED BY <1>5, <1>9, <2>1
<1>11. C[31] \in Nat /\ C[31] >= C[25] /\ (C[31] >= n \/ C[31] >= 64 * C[25])
  <2>1. 25 \in 1..25 /\ 25 + 6 = 31
    OBVIOUS
  <2> QED BY <1>5, <1>10, <2>1
<1>12. n <= size + 1073741824
  BY DEF MaxLength
<1>13. C[31] >= n
  BY <1>4, <1>6, <1>7, <1>8, <1>9, <1>10, <1>11, <1>12
<1> QED BY <1>3, <1>4, <1>6, <1>7, <1>8, <1>9, <1>10, <1>11, <1>13

\* The writer w is growing, has room for one element and holds the bytes b.
Growing(w, b) == b \in Data /\ \E n \in Nat : w = G(b, n) /\ Len(b) <= n /\ n >= 32

\* mpack_writer_init_growable starts such a writer.
LEMMA GrowingStart == Growing(mpack_writer_init_growable, <<>>)
<1>1. BufferSize \in Nat /\ BufferSize >= 32
  BY MPackAssumption
<1>2. <<>> \in Data /\ Len(<<>>) = 0
  BY DEF Data
<1> QED BY <1>1, <1>2, Growable DEF Growing

\* mpack_writer_destroy gives the bytes that were written.
LEMMA GrowingEnds ==
    ASSUME NEW w, NEW b, Growing(w, b)
    PROVE  mpack_writer_destroy(w) = b /\ b \in Data
<1> QED BY Destroyed DEF Growing

\* Appending keeps the capacity.
LEMMA AppendsTo ==
    ASSUME NEW x, NEW n, NEW e
    PROVE  Appended(G(x, n), e) = G(x \o e, n)
<1> DEFINE w == G(x, n)  y == x \o e
<1>1. w.buffer = x
  BY DEF G
<1>2. Appended(w, e) = [w EXCEPT !.buffer = y]
  <2> HIDE DEF w
  <2> QED BY <1>1 DEF Appended
<1>3. [w EXCEPT !.buffer = y] = G(y, n)
  <2> DEFINE t == TRUE
             r == [buffer |-> x, size |-> n, grows |-> t, error |-> "ok"]
  <2> HIDE DEF y, t
  <2>1. [r EXCEPT !.buffer = y] = [buffer |-> y, size |-> n, grows |-> t, error |-> "ok"]
    OBVIOUS
  <2> QED BY <2>1, Zenon DEF G, t
<1> QED BY <1>2, <1>3

\* mpack_growable_writer_flush makes the room that the data needs and appends it.
LEMMA Flushes ==
    ASSUME NEW x \in Data, NEW n \in Nat, NEW s \in Data
    PROVE  mpack_growable_writer_flush(G(x, n), s) = G(x \o s, Doubled(n, Len(x) + Len(s)))
<1> DEFINE w == G(x, n)  m == Doubled(n, Len(x) + Len(s))
<1>1. w.buffer = x /\ w.size = n
  BY DEF G
<1>2. mpack_growable_writer_flush(w, s) = Appended([w EXCEPT !.size = Doubled(@, mpack_writer_buffer_used(w) + Len(s))], s)
  BY Zenon DEF mpack_growable_writer_flush
<1>3. [w EXCEPT !.size = Doubled(@, mpack_writer_buffer_used(w) + Len(s))] = [w EXCEPT !.size = m]
  BY <1>1, Zenon DEF mpack_writer_buffer_used
<1>4. [w EXCEPT !.size = m] = G(x, m)
  <2> DEFINE t == TRUE
             r == [buffer |-> x, size |-> n, grows |-> t, error |-> "ok"]
  <2> HIDE DEF m, t
  <2>1. [r EXCEPT !.size = m] = [buffer |-> x, size |-> m, grows |-> t, error |-> "ok"]
    OBVIOUS
  <2> QED BY <2>1, Zenon DEF G, t
<1>5. Appended(G(x, m), s) = G(x \o s, m)
  <2> HIDE DEF m
  <2> QED BY AppendsTo
<1> HIDE DEF w, m
<1>6. mpack_growable_writer_flush(w, s) = G(x \o s, m)
  BY <1>2, <1>3, <1>4, <1>5, Zenon
<1> QED BY <1>6 DEF w, m

\* A flush of the buffer itself makes room for one more element.
LEMMA MakesRoom ==
    ASSUME NEW x \in Data, NEW n \in Nat, n >= 32, Len(x) <= n, x # <<>>
    PROVE  \E m \in Nat : mpack_writer_flush_unchecked(G(x, n)) = G(x, m) /\ m >= Len(x) + 32 /\ m >= 32
<1> DEFINE k == Len(x)  m == Doubled(n, k + Len(<<>>))
<1>1. <<>> \in Data /\ Len(<<>>) = 0 /\ x \o <<>> = x /\ k \in Nat
  BY JoinedEmpty, Cut
<1>2. mpack_growable_writer_flush(G(x, n), <<>>) = G(x, m)
  BY <1>1, Flushes
<1>3. G(x, n).buffer # <<>>
  BY DEF G
<1>4. mpack_writer_flush_unchecked(G(x, n)) = G(x, m)
  BY <1>2, <1>3, Zenon DEF mpack_writer_flush_unchecked
<1>5. m \in Nat /\ m >= 2 * n
  <2>1. k + Len(<<>>) \in Nat /\ k + Len(<<>>) <= n + MaxLength
    <3>1. k <= n
      OBVIOUS
    <3> HIDE DEF k
    <3> QED BY <1>1, <3>1 DEF MaxLength
  <2> HIDE DEF k
  <2> QED BY <2>1, DoubledSize
<1>6. m >= k + 32
  <2>1. k <= n
    OBVIOUS
  <2> HIDE DEF m, k
  <2> QED BY <1>1, <1>5, <2>1
<1> HIDE DEF m
<1> QED BY <1>4, <1>5, <1>6

\* An encoded element, of at most 32 bytes, is appended whatever the buffer held.
LEMMA AddsEncoded ==
    ASSUME NEW w, NEW b, Growing(w, b), NEW e \in Data, Len(e) <= 32
    PROVE  Growing(MPACK_WRITE_ENCODED(w, e), b \o e)
<1>1. PICK n \in Nat : w = G(b, n) /\ Len(b) <= n /\ n >= 32
  BY DEF Growing
<1>2. b \in Data /\ b \o e \in Data /\ Len(b \o e) = Len(b) + Len(e) /\ Len(b) \in Nat /\ Len(e) \in Nat
  BY Cut DEF Growing
<1>3. CASE Len(b) + Len(e) <= n
  <2>1. MPACK_WRITE_ENCODED(w, e) = G(b \o e, n)
    BY <1>1, <1>2, <1>3, WritesEncoded
  <2> QED BY <1>1, <1>2, <1>3, <2>1 DEF Growing
<1>4. CASE ~ (Len(b) + Len(e) <= n)
  <2>1. b # <<>>
    <3> SUFFICES ASSUME b = <<>> PROVE FALSE
      OBVIOUS
    <3>1. Len(b) = 0
      OBVIOUS
    <3> QED BY <1>1, <1>2, <1>4, <3>1
  <2>2. PICK m \in Nat : mpack_writer_flush_unchecked(G(b, n)) = G(b, m) /\ m >= Len(b) + 32 /\ m >= 32
    BY <1>1, <1>2, <2>1, MakesRoom
  <2>3. \A j : G(b, j).buffer = b /\ G(b, j).size = j /\ G(b, j).error = "ok" /\ G(b, j).grows
    BY DEF G
  <2>4. \A j : mpack_writer_buffer_left(G(b, j)) = j - Len(b)
    BY <2>3, Zenon DEF mpack_writer_buffer_left, mpack_writer_buffer_used
  <2>5. ~ (mpack_writer_buffer_left(G(b, n)) >= Len(e)) /\ mpack_writer_buffer_left(G(b, m)) >= Len(e)
    <3>1. mpack_writer_buffer_left(G(b, n)) = n - Len(b) /\ mpack_writer_buffer_left(G(b, m)) = m - Len(b)
      BY <2>4
    <3> QED BY <1>1, <1>2, <1>4, <2>2, <3>1
  <2>6. mpack_writer_ensure(G(b, n), Len(e)) = G(b, m)
    <3>1. ~ G(b, n).error # "ok" /\ ~ (G(b, n).error = "ok" /\ ~ G(b, n).grows)
      BY <2>3
    <3> QED BY <2>2, <2>5, <3>1, Zenon DEF mpack_writer_ensure
  <2>7. MPACK_WRITE_ENCODED(G(b, n), e) = Appended(G(b, m), e)
    BY <2>3, <2>5, <2>6, Zenon DEF MPACK_WRITE_ENCODED
  <2>8. MPACK_WRITE_ENCODED(w, e) = G(b \o e, m)
    BY <1>1, <2>7, AppendsTo
  <2>9. Len(b \o e) <= m
    BY <1>2, <2>2
  <2> QED BY <1>2, <2>2, <2>8, <2>9 DEF Growing
<1> QED BY <1>3, <1>4

\* mpack_write_native appends data of any length, the buffer growing for what does not
\* fit.
LEMMA AddsBytes ==
    ASSUME NEW w, NEW b, Growing(w, b), b # <<>>, NEW s \in Data, Len(s) < MaxLength
    PROVE  Growing(mpack_write_native(w, s), b \o s)
<1>1. PICK n \in Nat : w = G(b, n) /\ Len(b) <= n /\ n >= 32
  BY DEF Growing
<1>2. b \in Data /\ b \o s \in Data /\ Len(b \o s) = Len(b) + Len(s) /\ Len(b) \in Nat /\ Len(s) \in Nat
  BY Cut DEF Growing
<1>3. \A j : G(b, j).buffer = b /\ G(b, j).size = j /\ G(b, j).error = "ok" /\ G(b, j).grows
  BY DEF G
<1>4. \A j : mpack_writer_buffer_left(G(b, j)) = j - Len(b)
  BY <1>3, Zenon DEF mpack_writer_buffer_left, mpack_writer_buffer_used
<1>5. CASE ~ (n - Len(b) < Len(s))
  <2>1. mpack_write_native(w, s) = Appended(G(b, n), s)
    BY <1>1, <1>4, <1>5, Zenon DEF mpack_write_native
  <2>2. mpack_write_native(w, s) = G(b \o s, n)
    BY <2>1, AppendsTo
  <2>3. Len(b \o s) <= n
    BY <1>1, <1>2, <1>5
  <2> QED BY <1>1, <1>2, <2>2, <2>3 DEF Growing
<1>6. CASE n - Len(b) < Len(s)
  <2>1. mpack_write_native(w, s) = mpack_write_native_straddle(G(b, n), s)
    BY <1>1, <1>4, <1>6, Zenon DEF mpack_write_native
  <2>2. PICK m \in Nat : mpack_writer_flush_unchecked(G(b, n)) = G(b, m) /\ m >= Len(b) + 32 /\ m >= 32
    BY <1>1, <1>2, MakesRoom
  <2>3. mpack_write_native_straddle(G(b, n), s)
            = IF Len(s) > m - Len(b) THEN mpack_growable_writer_flush(G(b, m), s) ELSE Appended(G(b, m), s)
    <3>1. ~ G(b, n).error # "ok" /\ ~ (G(b, n).error = "ok" /\ ~ G(b, n).grows)
      BY <1>3
    <3>2. mpack_writer_buffer_left(G(b, m)) = m - Len(b)
      BY <1>4
    <3> QED BY <2>2, <3>1, <3>2, Zenon DEF mpack_write_native_straddle
  <2>4. CASE Len(s) > m - Len(b)
    <3> DEFINE j == Doubled(m, Len(b) + Len(s))
    <3>1. j \in Nat /\ j >= Len(b) + Len(s) /\ j >= 2 * m
      <4>1. Len(b) + Len(s) \in Nat /\ Len(b) + Len(s) <= m + MaxLength
        BY <1>2, <2>2 DEF MaxLength
      <4> QED BY <2>2, <4>1, DoubledSize
    <3>2. mpack_write_native(w, s) = G(b \o s, j)
      BY <1>2, <2>1, <2>3, <2>4, Flushes
    <3> HIDE DEF j
    <3>3. j >= 32 /\ Len(b \o s) <= j
      BY <1>2, <2>2, <3>1
    <3> QED BY <1>2, <3>1, <3>2, <3>3 DEF Growing
  <2>5. CASE ~ (Len(s) > m - Len(b))
    <3>1. mpack_write_native(w, s) = G(b \o s, m)
      BY <2>1, <2>3, <2>5, AppendsTo
    <3>2. Len(b \o s) <= m
      BY <1>2, <2>2, <2>5
    <3> QED BY <1>2, <2>2, <3>1, <3>2 DEF Growing
  <2> QED BY <2>4, <2>5
<1> QED BY <1>5, <1>6

\* The low bytes of a number's word are the number's word of fewer bytes.
LEMMA WordLow ==
    ASSUME NEW x \in Nat, x < MaxLength, NEW k \in Sizes
    PROVE  Word(x, k) = Low(Word(x, 4), k)
<1> DEFINE w == Word(x, 4)  c(j) == (x \div 256 ^ j) % 256
<1>1. Word(x, k) = [i \in 1..k |-> c(k - i)]
  BY DEF Word, Sizes
<1>2. \A i \in 1..4 : w[i] = c(4 - i)
  BY DEF Word
<1>3. w \in Word32
  BY WordOfNumber
<1> HIDE DEF w, c
<1>4. k \in 0..4 /\ k \in Nat
  BY DEF Sizes
<1>5. Low(w, k) \in Data /\ Len(Low(w, k)) = k /\ \A i \in 1..k : Low(w, k)[i] = w[4 - k + i]
  BY <1>3, <1>4, Split
<1>6. ASSUME NEW i \in 1..k PROVE Low(w, k)[i] = c(k - i)
  <2>1. 4 - k + i \in 1..4 /\ 4 - (4 - k + i) = k - i
    BY <1>4
  <2> QED BY <1>2, <1>5, <2>1
<1>7. Low(w, k) = [i \in 1..k |-> Low(w, k)[i]]
  BY <1>4, <1>5 DEF Data
<1>8. Low(w, k) = [i \in 1..k |-> c(k - i)]
  BY <1>6, <1>7
<1> QED BY <1>1, <1>8 DEF w

\* A text's length, as the server writes it.
LEMMA EncodedLength ==
    ASSUME NEW n \in Nat, n < MaxLength
    PROVE  EncodedStr(n) \in LengthForms(n)
<1> DEFINE w == Word(n, 4)
           tags == [m \in {1, 2, 4} |-> CASE m = 1 -> \hD9 [] m = 2 -> \hDA [] m = 4 -> \hDB]
<1>1. w \in Word32 /\ FitsUnsigned(w, 4)
  <2>1. w \in Word32
    BY WordOfNumber
  <2> HIDE DEF w
  <2>2. Len(w) = 4 /\ High(w, 0) = <<>>
    BY <2>1, Word4 DEF High
  <2>3. \A s : Filled(0, s) = <<>>
    BY DEF Filled
  <2> QED BY <2>1, <2>2, <2>3 DEF FitsUnsigned
<1>2. EncodedStr(n) = EncodedCount(n, 160, 31, tags)
  BY Zenon DEF EncodedStr
<1>3. tags = TagOfText
  BY Zenon DEF TagOfText
<1>4. CASE n <= 31
  <2>1. EncodedStr(n) = <<160 + n>>
    BY <1>2, <1>4, Zenon DEF EncodedCount
  <2> QED BY <1>4, <2>1 DEF LengthForms
<1>5. CASE ~ (n <= 31)
  <2> DEFINE T == {m \in DOMAIN tags : FitsUnsigned(w, m)}
  <2>1. T = {m \in {1, 2, 4} : FitsUnsigned(w, m)} /\ 4 \in T
    <3> HIDE DEF w
    <3> QED BY <1>1
  <2>2. \E i \in T : \A m \in T : i <= m
    <3> HIDE DEF w, tags
    <3> QED BY <2>1
  <2>3. EncodedStr(n) = <<tags[Shortest(T)]>> \o Word(n, Shortest(T))
    BY <1>2, <1>5, Zenon DEF EncodedCount
  <2> HIDE DEF T
  <2>4. Shortest(T) \in T
    BY <2>2 DEF Shortest
  <2> HIDE DEF w, tags
  <2>5. PICK k \in {1, 2, 4} : k = Shortest(T) /\ FitsUnsigned(w, k)
    BY <2>1, <2>4
  <2>6. EncodedStr(n) = <<TagOfText[k]>> \o Low(w, k)
    BY <1>3, <2>3, <2>5, WordLow DEF Sizes, w
  <2> QED BY <2>5, <2>6 DEF LengthForms, w
<1> QED BY <1>4, <1>5

\* mpack_write_str appends the tag of the length and the text.
LEMMA AddsText ==
    ASSUME NEW w, NEW b, Growing(w, b), NEW s \in Data, Len(s) < MaxLength
    PROVE  /\ EncodedStr(Len(s)) \in Data
           /\ Growing(mpack_write_str(w, s), b \o (EncodedStr(Len(s)) \o s))
<1> DEFINE n == Len(s)  e == EncodedStr(n)
<1>1. n \in Nat /\ n < MaxLength /\ b \in Data
  BY Cut DEF Growing
<1>2. e \in LengthForms(n)
  BY <1>1, EncodedLength
<1>3. e \in Data
  BY <1>1, <1>2, LengthRead
<1>4. Len(e) \in 1..5
  <2>1. PICK k \in 0..4 : Len(e) = 1 + k
    <3>1. CASE n <= 31 /\ e = <<160 + n>>
      BY <3>1
    <3>2. CASE \E k \in {1, 2, 4} : e = <<TagOfText[k]>> \o Low(Word(n, 4), k)
      <4>1. PICK k \in {1, 2, 4} : e = <<TagOfText[k]>> \o Low(Word(n, 4), k)
        BY <3>2
      <4>2. Word(n, 4) \in Word32
        BY <1>1, WordOfNumber
      <4>3. TagOfText[k] \in Byte /\ k \in 0..4
        BY TextTags DEF Sizes
      <4>4. Len(<<TagOfText[k]>> \o Low(Word(n, 4), k)) = 1 + k
        BY <4>2, <4>3, LowData
      <4> QED BY <4>1, <4>3, <4>4
    <3> HIDE DEF e, n
    <3> QED BY <1>2, <3>1, <3>2, Zenon DEF LengthForms
  <2> QED BY <2>1
<1>5. CASE n <= 31
  <2>1. mpack_write_str(w, s) = MPACK_WRITE_ENCODED(w, e \o s)
    BY <1>5, Zenon DEF mpack_write_str
  <2>2. e \o s \in Data /\ Len(e \o s) = Len(e) + n
    BY <1>3, Cut
  <2>3. Len(e \o s) <= 32
    <3>1. Len(e) = 1
      <4>1. e = <<160 + n>>
        BY <1>2, <1>5, Zenon DEF EncodedStr, EncodedCount
      <4> QED BY <4>1
    <3> QED BY <1>1, <1>5, <2>2, <3>1
  <2> QED BY <1>3, <2>1, <2>2, <2>3, AddsEncoded
<1>6. CASE ~ (n <= 31)
  <2>1. mpack_write_str(w, s) = mpack_write_native(MPACK_WRITE_ENCODED(w, e), s)
    BY <1>6, Zenon DEF mpack_write_str
  <2>2. Growing(MPACK_WRITE_ENCODED(w, e), b \o e)
    <3> DEFINE k == Len(e)
    <3>1. k <= 32
      <4>1. k \in 1..5
        BY <1>4
      <4> HIDE DEF k
      <4> QED BY <4>1
    <3> HIDE DEF e
    <3> QED BY <1>3, <3>1, AddsEncoded
  <2>3. b \o e # <<>>
    <3> SUFFICES ASSUME b \o e = <<>> PROVE FALSE
      OBVIOUS
    <3>1. Len(b \o e) = Len(b) + Len(e) /\ Len(b) \in Nat
      BY <1>1, <1>3, Cut
    <3>2. Len(b \o e) = 0
      OBVIOUS
    <3> QED BY <1>4, <3>1, <3>2
  <2>4. Growing(mpack_write_native(MPACK_WRITE_ENCODED(w, e), s), (b \o e) \o s)
    BY <1>1, <2>2, <2>3, AddsBytes
  <2>5. (b \o e) \o s = b \o (e \o s)
    BY <1>1, <1>3, Assoc
  <2> QED BY <1>3, <2>1, <2>4, <2>5
<1> QED BY <1>5, <1>6

---------------------------------------------------------------------------
(* What a phone reads of an answer. *)

\* The tag of TRUE.
TrueByte(x) == x = <<\hC3>>

\* What Scalar makes of a tag.
LEMMA ScalarIs ==
    ASSUME NEW r, NEW q, NEW t, NEW x, mpack_read_tag(r) = Result(q, [type |-> t, v |-> x])
    PROVE  /\ t = "str" => Scalar(r) = mpack_read_bytes(q, Length(x))
           /\ t = "bool" => Scalar(r) = Result(q, TrueByte(x))
           /\ t = "uint" => Scalar(r) = Result(q, Low(x, 4))
           /\ t \notin {"str", "bool", "uint"} => Scalar(r) = Result(q, x)
<1> DEFINE tag == Result(q, [type |-> t, v |-> x])  b == TrueByte(x)
           Of(g) == CASE g.v.type = "str"  -> mpack_read_bytes(g.r, Length(g.v.v))
                      [] g.v.type = "bool" -> Result(g.r, g.v.v = <<\hC3>>)
                      [] g.v.type = "uint" -> Result(g.r, Low(g.v.v, 4))
                      [] OTHER             -> Result(g.r, g.v.v)
<1>1. Scalar(r) = Of(tag)
  BY Zenon DEF Scalar
<1>2. tag.v.type = t /\ tag.v.v = x /\ tag.r = q
  BY DEF Result
<1> HIDE DEF tag
<1>3. Of(tag) = CASE t = "str"  -> mpack_read_bytes(q, Length(x))
                  [] t = "bool" -> Result(q, b)
                  [] t = "uint" -> Result(q, Low(x, 4))
                  [] OTHER      -> Result(q, x)
  BY <1>2, Zenon DEF TrueByte
<1> HIDE DEF Of, b
<1>4. CASE t = "str"
  BY <1>1, <1>3, <1>4
<1>5. CASE t = "bool"
  BY <1>1, <1>3, <1>5 DEF b
<1>6. CASE t = "uint"
  BY <1>1, <1>3, <1>6
<1>7. CASE t \notin {"str", "bool", "uint"}
  BY <1>1, <1>3, <1>7
<1> QED BY <1>4, <1>5, <1>6, <1>7

\* A phone reads back an unsigned word, in whatever width it was written.
LEMMA ScalarWord ==
    ASSUME NEW w \in Word32, NEW e \in UnsignedForms(w), NEW rest \in Data
    PROVE  e \in Data /\ Scalar(Ok(e \o rest)) = Result(Ok(rest), w)
<1> DEFINE t == "uint"  x == Filled(4, 0) \o w
<1>1. e \in Data /\ mpack_read_tag(Ok(e \o rest)) = Result(Ok(rest), [type |-> t, v |-> x])
  BY UnsignedForm
<1>2. Low(x, 4) = w
  BY Wide, Byte255
<1>3. t = "uint"
  OBVIOUS
<1> HIDE DEF x, t
<1>4. Scalar(Ok(e \o rest)) = Result(Ok(rest), Low(x, 4))
  BY <1>1, <1>3, ScalarIs
<1> QED BY <1>1, <1>2, <1>4

\* What mpack_write_bool appends.
BoolByte(b) == <<IF b THEN \hC3 ELSE \hC2>>

\* A phone reads back a truth value.
LEMMA ScalarBool ==
    ASSUME NEW b \in BOOLEAN, NEW rest \in Data
    PROVE  BoolByte(b) \in Data /\ Len(BoolByte(b)) = 1 /\ Scalar(Ok(BoolByte(b) \o rest)) = Result(Ok(rest), b)
<1> DEFINE c == IF b THEN \hC3 ELSE \hC2
<1>1. c \in {194, 195} /\ (b <=> c = 195)
  OBVIOUS
<1>2. BoolByte(b) = <<c>>
  BY Zenon DEF BoolByte
<1> HIDE DEF c
<1>3. c \in Byte /\ TypeOf(c) = "bool" /\ SizeAfter(c) = 0
  BY <1>1, Tags DEF Byte
<1>4. PICK e \in Data : e = <<>> /\ Len(e) = 0
  BY JoinedEmpty
<1>5. PICK h \in Data : h = <<c>> /\ Len(h) = 1 /\ h \o e = h
  <2>1. <<c>> \in Data /\ Len(<<c>>) = 1
    BY <1>3, One
  <2> QED BY <1>4, <2>1, JoinedEmpty
<1> DEFINE t == "bool"
<1>6. mpack_read_tag(Ok(h \o rest)) = Result(Ok(rest), [type |-> t, v |-> Widened(t, Inline(c))])
  <2>1. Len(e) = SizeAfter(c) /\ TypeOf(c) \notin {"ext", "reserved"}
    BY <1>3, <1>4
  <2>2. mpack_read_tag(Ok((<<c>> \o e) \o rest))
               = Result(Ok(rest), [type |-> TypeOf(c), v |-> Widened(TypeOf(c), IF Len(e) = 0 THEN Inline(c) ELSE e)])
    BY <1>3, <2>1, ReadWhole
  <2> QED BY <1>3, <1>4, <1>5, <2>2
<1>7. Widened(t, Inline(c)) = <<c>>
  <2>1. Inline(c) = <<c>>
    BY <1>3 DEF Inline
  <2>2. \A x : Widened("bool", x) = x
    BY DEF Widened
  <2> QED BY <2>1, <2>2
<1>8. t = "bool"
  OBVIOUS
<1> HIDE DEF t
<1>9. Scalar(Ok(h \o rest)) = Result(Ok(rest), TrueByte(<<c>>))
  BY <1>6, <1>7, <1>8, ScalarIs
<1>10. TrueByte(<<c>>) = b
  <2>1. <<c>> = <<195>> <=> c = 195
    OBVIOUS
  <2>2. TrueByte(<<c>>) <=> b
    BY <1>1, <2>1, Zenon DEF TrueByte
  <2>3. TrueByte(<<c>>) \in BOOLEAN
    BY Zenon DEF TrueByte
  <2> QED BY <2>2, <2>3
<1> QED BY <1>2, <1>5, <1>9, <1>10

\* What mpack_write_float appends.
FloatBytes(w) == mpack_encode_float(w)

\* A phone reads back a float's bytes.
LEMMA ScalarFloat ==
    ASSUME NEW w \in Word32, NEW rest \in Data
    PROVE  FloatBytes(w) \in Data /\ Len(FloatBytes(w)) = 5 /\ Scalar(Ok(FloatBytes(w) \o rest)) = Result(Ok(rest), w)
<1> DEFINE c == \hCA  t == "float"
<1>1. c \in Byte /\ TypeOf(c) = t /\ SizeAfter(c) = 4 /\ t \notin {"ext", "reserved", "str", "bool", "uint"}
  BY Tags DEF Byte
<1>2. w \in Data /\ Len(w) = 4
  BY Word4
<1>3. FloatBytes(w) = <<c>> \o w
  BY Zenon DEF FloatBytes, mpack_encode_float
<1>4. \A x : Widened("float", x) = x
  BY DEF Widened
<1> HIDE DEF c, t
<1>5. <<c>> \o w \in Data /\ Len(<<c>> \o w) = 5
  <2>1. <<c>> \in Data /\ Len(<<c>>) = 1
    BY <1>1, One
  <2>2. Len(<<c>> \o w) = 1 + 4 /\ <<c>> \o w \in Data
    BY <1>2, <2>1, Cut
  <2> QED BY <2>2
<1>6. mpack_read_tag(Ok((<<c>> \o w) \o rest)) = Result(Ok(rest), [type |-> t, v |-> w])
  <2>1. mpack_read_tag(Ok((<<c>> \o w) \o rest))
               = Result(Ok(rest), [type |-> TypeOf(c), v |-> Widened(TypeOf(c), IF Len(w) = 0 THEN Inline(c) ELSE w)])
    BY <1>1, <1>2, ReadWhole
  <2>2. (IF Len(w) = 0 THEN Inline(c) ELSE w) = w
    BY <1>2
  <2>3. Widened(t, w) = w
    BY <1>4 DEF t
  <2> QED BY <1>1, <2>1, <2>2, <2>3
<1>7. Scalar(Ok((<<c>> \o w) \o rest)) = Result(Ok(rest), w)
  BY <1>1, <1>6, ScalarIs
<1> QED BY <1>3, <1>5, <1>7

\* What mpack_write_str appends.
TextBytes(s) == EncodedStr(Len(s)) \o s

\* A phone reads back a text.
LEMMA ScalarText ==
    ASSUME NEW s \in Data, Len(s) < MaxLength, NEW rest \in Data
    PROVE  TextBytes(s) \in Data /\ Scalar(Ok(TextBytes(s) \o rest)) = Result(Ok(rest), s)
<1> DEFINE n == Len(s)  e == EncodedStr(n)  d == s \o rest
<1>1. n \in Nat /\ n < MaxLength /\ d \in Data /\ SubSeq(d, 1, n) = s /\ Len(d) = n + Len(rest) /\ Len(rest) \in Nat
  BY Cut
<1>2. e \in LengthForms(n)
  BY <1>1, EncodedLength
<1>3. e \in Data /\ mpack_expect_str(Ok(e \o d)) = Result(Ok(d), n)
  <2> HIDE DEF n, d, e
  <2> QED BY <1>1, <1>2, LengthRead
<1>4. TextBytes(s) \in Data /\ TextBytes(s) \o rest = e \o d
  <2>1. e \o s \in Data
    BY <1>3, JoinedData
  <2>2. (e \o s) \o rest = e \o (s \o rest)
    BY <1>3, Assoc
  <2> QED BY <2>1, <2>2 DEF TextBytes
<1> DEFINE r == Ok(e \o d)  tag == mpack_read_tag(r)
<1>5. r.error = "ok" /\ Ok(d).error = "ok" /\ Ok(d).data = d
  BY DEF Ok
<1>6. \A q : mpack_reader_flag_error(q, "type").error # "ok"
  BY DEF mpack_reader_flag_error
<1> HIDE DEF n, d, e
<1>7. /\ Result(Ok(d), n).r = Ok(d) /\ Result(Ok(d), n).v = n
      /\ \A q, z : Result(q, z).r = q /\ Result(q, z).v = z
  BY DEF Result
<1> HIDE DEF r
<1>8. mpack_expect_str(r) = CountOf("str", r)
  <2>1. CASE r.data # <<>> /\ TypeOf(r.data[1]) # "str"
    <3>1. mpack_expect_str(r) = Result(mpack_reader_flag_error(r, "type"), 0)
      BY <2>1, Zenon DEF mpack_expect_str
    <3>2. mpack_expect_str(r).r.error = "ok"
      BY <1>3, <1>5, <1>7 DEF r
    <3> QED BY <1>6, <1>7, <3>1, <3>2
  <2>2. CASE ~ (r.data # <<>> /\ TypeOf(r.data[1]) # "str")
    BY <2>2, Zenon DEF mpack_expect_str
  <2> QED BY <2>1, <2>2
<1>9. CountOf("str", r) = Expected(tag, tag.v.type = "str", Length(tag.v.v), 0)
  BY Zenon DEF CountOf
<1> DEFINE ok == tag.v.type = "str"
<1>10. ok
  <2> SUFFICES ASSUME ~ ok PROVE FALSE
    OBVIOUS
  <2>1. Expected(tag, ok, Length(tag.v.v), 0) = Result(mpack_reader_flag_error(tag.r, "type"), 0)
    <3> HIDE DEF ok, tag
    <3> QED BY Zenon DEF Expected
  <2>2. mpack_expect_str(r).r.error = "ok"
    BY <1>3, <1>5, <1>7 DEF r
  <2> QED BY <1>6, <1>7, <1>8, <1>9, <2>1, <2>2
<1>11. Expected(tag, ok, Length(tag.v.v), 0) = Result(tag.r, Length(tag.v.v))
  <2> HIDE DEF tag, ok
  <2> QED BY <1>10, Zenon DEF Expected
<1>12. tag.r = Ok(d) /\ Length(tag.v.v) = n
  <2>1. Result(tag.r, Length(tag.v.v)) = Result(Ok(d), n)
    BY <1>3, <1>8, <1>9, <1>11 DEF r
  <2> QED BY <1>7, <2>1
<1>13. Scalar(r) = mpack_read_bytes(tag.r, Length(tag.v.v))
  <2> DEFINE Of(g) == CASE g.v.type = "str"  -> mpack_read_bytes(g.r, Length(g.v.v))
                        [] g.v.type = "bool" -> Result(g.r, g.v.v = <<\hC3>>)
                        [] g.v.type = "uint" -> Result(g.r, Low(g.v.v, 4))
                        [] OTHER             -> Result(g.r, g.v.v)
  <2>1. Scalar(r) = Of(tag)
    BY Zenon DEF Scalar
  <2> DEFINE x1 == Result(tag.r, tag.v.v = <<\hC3>>)  x2 == Result(tag.r, Low(tag.v.v, 4))  x3 == Result(tag.r, tag.v.v)
             x0 == mpack_read_bytes(tag.r, Length(tag.v.v))  t == tag.v.type
  <2>2. Of(tag) = CASE t = "str" -> x0 [] t = "bool" -> x1 [] t = "uint" -> x2 [] OTHER -> x3
    BY Zenon
  <2>3. t = "str"
    BY <1>10
  <2> HIDE DEF Of, x0, x1, x2, x3, t
  <2>4. Of(tag) = x0
    BY <2>2, <2>3
  <2> QED BY <2>1, <2>4 DEF x0
<1>14. mpack_read_bytes(Ok(d), n) = Result(Ok(rest), s)
  <2>1. n <= Len(Ok(d).data)
    <3> DEFINE k == Len(d)  l == Len(rest)
    <3>1. k = n + l /\ n \in Nat /\ l \in Nat
      BY <1>1
    <3> HIDE DEF k, l
    <3>2. n <= k
      BY <3>1
    <3> QED BY <1>5, <3>2 DEF k
  <2>2. mpack_read_bytes(Ok(d), n) = Result(Skip(Ok(d), n), SubSeq(d, 1, n))
    BY <1>5, <2>1, Zenon DEF mpack_read_bytes
  <2>3. Skip(Ok(d), n) = Ok(rest)
    BY Skipped DEF d, n
  <2> QED BY <1>1, <2>2, <2>3
<1>15. Scalar(Ok(e \o d)) = Result(Ok(rest), s)
  BY <1>12, <1>13, <1>14 DEF r
<1> QED BY <1>4, <1>15

\* The recursion of Elements.
ElementsRead(h, n, f) ==
    f = [i \in 0..n |->
            IF i = 0 THEN [r |-> h, v |-> <<>>]
            ELSE [r |-> Scalar(f[i - 1].r).r, v |-> Append(f[i - 1].v, Scalar(f[i - 1].r).v)]]

\* What satisfies the recursion of Elements is Elements.
LEMMA ElementsAre ==
    ASSUME NEW bytes, NEW h, NEW n \in Nat, mpack_expect_array(Ok(bytes)).r = h,
           mpack_expect_array(Ok(bytes)).v = n, NEW f, ElementsRead(h, n, f)
    PROVE  Elements(bytes) = f[n]
<1> DEFINE g == CHOOSE g : ElementsRead(h, n, g)
<1>1. ElementsRead(h, n, g)
  OBVIOUS
<1>2. Elements(bytes) = g[n]
  <2>1. mpack_reader_init_data(bytes) = Ok(bytes)
    BY Zenon DEF mpack_reader_init_data, Ok
  <2> DEFINE head == mpack_expect_array(Ok(bytes))
             F == CHOOSE F : F = [i \in 0..head.v |->
                     IF i = 0 THEN [r |-> head.r, v |-> <<>>]
                     ELSE [r |-> Scalar(F[i - 1].r).r, v |-> Append(F[i - 1].v, Scalar(F[i - 1].r).v)]]
  <2>2. Elements(bytes) = F[head.v]
    BY <2>1, Zenon DEF Elements
  <2>3. head.r = h /\ head.v = n
    OBVIOUS
  <2> HIDE DEF head
  <2>4. F = g
    BY <2>3, Zenon DEF ElementsRead
  <2> QED BY <2>2, <2>3, <2>4
<1> HIDE DEF g
<1> DEFINE T == {i \in 0..n : f[i] # g[i]}
<1>3. T = {}
  <2>1. SUFFICES ASSUME T # {} PROVE FALSE
    OBVIOUS
  <2>2. PICK m \in T : \A k \in T : m <= k
    <3>1. T \in SUBSET Nat
      OBVIOUS
    <3> HIDE DEF T
    <3> QED BY <2>1, <3>1, LeastElement
  <2>3. CASE m = 0
    BY <1>1, <2>3 DEF ElementsRead
  <2>4. CASE m # 0
    <3>1. m \in 0..n /\ m - 1 \in 0..n /\ ~ (m <= m - 1)
      BY <2>4
    <3>2. f[m - 1] = g[m - 1]
      BY <2>2, <3>1
    <3>3. f[m] = [r |-> Scalar(f[m - 1].r).r, v |-> Append(f[m - 1].v, Scalar(f[m - 1].r).v)]
      BY <2>4, <3>1 DEF ElementsRead
    <3>4. g[m] = [r |-> Scalar(g[m - 1].r).r, v |-> Append(g[m - 1].v, Scalar(g[m - 1].r).v)]
      BY <1>1, <2>4, <3>1 DEF ElementsRead
    <3> QED BY <2>2, <3>2, <3>3, <3>4
  <2> QED BY <2>3, <2>4
<1> QED BY <1>2, <1>3

\* Elements reads an array element by element: t[i] is what is left before the i-th.
LEMMA ElementsIn ==
    ASSUME NEW bytes, NEW n \in Nat, NEW S, NEW v \in Seq(S), Len(v) = n, NEW t,
           mpack_expect_array(Ok(bytes)).r = Ok(t[1]), mpack_expect_array(Ok(bytes)).v = n,
           \A i \in 1..n : Scalar(Ok(t[i])) = Result(Ok(t[i + 1]), v[i])
    PROVE  Elements(bytes) = [r |-> Ok(t[n + 1]), v |-> v]
<1> DEFINE f == [i \in 0..n |-> [r |-> Ok(t[i + 1]), v |-> SubSeq(v, 1, i)]]
           h == Ok(t[1])
<1>1. \A q, z : Result(q, z).r = q /\ Result(q, z).v = z
  BY DEF Result
<1>2. ASSUME NEW i \in 0..n
      PROVE  f[i] = IF i = 0 THEN [r |-> h, v |-> <<>>]
                    ELSE [r |-> Scalar(f[i - 1].r).r, v |-> Append(f[i - 1].v, Scalar(f[i - 1].r).v)]
  <2>1. CASE i = 0
    <3>1. SubSeq(v, 1, 0) = <<>>
      OBVIOUS
    <3>2. 0 + 1 = 1
      OBVIOUS
    <3> QED BY <2>1, <3>1, <3>2
  <2>2. CASE i # 0
    <3>1. i - 1 \in 0..n /\ i \in 1..n /\ (i - 1) + 1 = i
      BY <2>2
    <3>2. f[i - 1].r = Ok(t[i]) /\ f[i - 1].v = SubSeq(v, 1, i - 1)
      BY <3>1
    <3>3. SubSeq(v, 1, i) = Append(SubSeq(v, 1, i - 1), v[i])
      BY <3>1
    <3>4. Scalar(Ok(t[i])).r = Ok(t[i + 1]) /\ Scalar(Ok(t[i])).v = v[i]
      BY <1>1, <3>1
    <3>5. f[i] = [r |-> Ok(t[i + 1]), v |-> SubSeq(v, 1, i)]
      OBVIOUS
    <3> HIDE DEF f
    <3> QED BY <2>2, <3>2, <3>3, <3>4, <3>5
  <2> QED BY <2>1, <2>2
<1>3. f = [i \in 0..n |-> f[i]]
  OBVIOUS
<1> HIDE DEF f
<1>4. f = [i \in 0..n |-> IF i = 0 THEN [r |-> h, v |-> <<>>]
                    ELSE [r |-> Scalar(f[i - 1].r).r, v |-> Append(f[i - 1].v, Scalar(f[i - 1].r).v)]]
  BY <1>2, <1>3
<1>5. ElementsRead(h, n, f)
  BY <1>4, Zenon DEF ElementsRead
<1>6. Elements(bytes) = f[n]
  <2> HIDE DEF h
  <2>1. mpack_expect_array(Ok(bytes)).r = h
    BY DEF h
  <2> QED BY <1>5, <2>1, ElementsAre
<1>7. SubSeq(v, 1, n) = v
  OBVIOUS
<1> QED BY <1>6, <1>7 DEF f

---------------------------------------------------------------------------
(* Answers: arrays. *)

\* The bytes e are an element with the value x.
Codes(e, x) == e \in Data /\ \A rest \in Data : Scalar(Ok(e \o rest)) = Result(Ok(rest), x)

\* The bytes d are elements with the values v, whatever comes after them: t[i] is what is
\* left before the i-th.
InRow(d, v, rest, t) ==
    /\ t[1] = d \o rest /\ t[Len(v) + 1] = rest
    /\ \A i \in 1..Len(v) : Scalar(Ok(t[i])) = Result(Ok(t[i + 1]), v[i])

\* The bytes d are elements with the values v.
CodesAll(d, v) == d \in Data /\ \A rest \in Data : \E t : InRow(d, v, rest, t)

\* No byte, no value.
LEMMA CodesNone == CodesAll(<<>>, <<>>)
<1>1. <<>> \in Data
  BY DEF Data
<1>2. ASSUME NEW rest \in Data PROVE \E t : InRow(<<>>, <<>>, rest, t)
  <2> DEFINE t == [i \in 1..1 |-> rest]
  <2>1. <<>> \o rest = rest
    BY JoinedEmpty
  <2>2. Len(<<>>) = 0 /\ 0 + 1 = 1 /\ 1..0 = {} /\ t[1] = rest
    OBVIOUS
  <2> HIDE DEF t
  <2>3. InRow(<<>>, <<>>, rest, t)
    BY <2>1, <2>2 DEF InRow
  <2> QED BY <2>3
<1> QED BY <1>1, <1>2 DEF CodesAll

\* Elements and one more element behind them.
LEMMA CodesOneMore ==
    ASSUME NEW S, NEW v \in Seq(S), NEW x \in S, NEW d, CodesAll(d, v), NEW e, Codes(e, x)
    PROVE  CodesAll(d \o e, Append(v, x))
<1>1. d \in Data /\ e \in Data /\ d \o e \in Data
  BY JoinedData DEF CodesAll, Codes
<1> DEFINE n == Len(v)  u == Append(v, x)
<1>2. n \in Nat /\ Len(u) = n + 1 /\ u[n + 1] = x /\ \A i \in 1..n : u[i] = v[i]
  OBVIOUS
<1>3. ASSUME NEW rest \in Data PROVE \E t : InRow(d \o e, u, rest, t)
  <2> DEFINE c == e \o rest
  <2>1. c \in Data /\ (d \o e) \o rest = d \o c
    BY <1>1, JoinedData, Assoc, SMTT(30)
  <2>2. PICK t : InRow(d, v, c, t)
    BY <2>1 DEF CodesAll
  <2>3. t[1] = d \o c /\ t[n + 1] = c /\ \A i \in 1..n : Scalar(Ok(t[i])) = Result(Ok(t[i + 1]), v[i])
    BY <2>2 DEF InRow
  <2>4. Scalar(Ok(c)) = Result(Ok(rest), x)
    BY DEF Codes
  <2> DEFINE s == [i \in 1..n + 2 |-> IF i = n + 2 THEN rest ELSE t[i]]
  <2> HIDE DEF n, u, c
  <2>5. s[1] = t[1] /\ s[n + 2] = rest /\ \A i \in 1..n + 1 : s[i] = t[i]
    BY <1>2
  <2> HIDE DEF s
  <2>6. ASSUME NEW i \in 1..n + 1 PROVE Scalar(Ok(s[i])) = Result(Ok(s[i + 1]), u[i])
    <3>1. CASE i \in 1..n
      <4>1. s[i] = t[i] /\ s[i + 1] = t[i + 1] /\ u[i] = v[i]
        BY <1>2, <2>5, <3>1
      <4> QED BY <2>3, <3>1, <4>1
    <3>2. CASE i = n + 1
      <4>1. i + 1 = n + 2 /\ s[i] = c /\ s[i + 1] = rest /\ u[i] = x
        BY <1>2, <2>3, <2>5, <3>2
      <4> QED BY <2>4, <4>1
    <3> QED BY <1>2, <3>1, <3>2
  <2>7. Len(u) + 1 = n + 2
    BY <1>2
  <2>8. InRow(d \o e, u, rest, s)
    BY <1>2, <2>1, <2>3, <2>5, <2>6, <2>7 DEF InRow
  <2> QED BY <2>8
<1> QED BY <1>1, <1>3 DEF CodesAll

\* An array's head and the elements behind it.
LEMMA ArrayOfElements ==
    ASSUME NEW S, NEW v \in Seq(S), Len(v) <= 15, NEW d, CodesAll(d, v), NEW h, h = 144 + Len(v)
    PROVE  <<h>> \o d \in Data /\ Elements(<<h>> \o d) = [r |-> Ok(<<>>), v |-> v]
<1> DEFINE n == Len(v)
<1>1. n \in Nat /\ h \in 144..159 /\ h % 16 = n
  <2>1. n \in Nat /\ n <= 15 /\ h = 144 + n
    OBVIOUS
  <2> HIDE DEF n
  <2> QED BY <2>1, SMTT(30)
<1>2. d \in Data /\ <<>> \in Data /\ d \o <<>> = d
  BY JoinedEmpty DEF CodesAll
<1>3. PICK t : InRow(d, v, <<>>, t)
  BY <1>2 DEF CodesAll
<1> DEFINE a == mpack_expect_array(Ok(<<h>> \o d))
<1>4. a.r = Ok(d) /\ a.v = n /\ <<h>> \o d \in Data
  BY <1>1, <1>2, ArrayHead, ZenonT(40)
<1>5. t[1] = d /\ t[n + 1] = <<>> /\ \A i \in 1..n : Scalar(Ok(t[i])) = Result(Ok(t[i + 1]), v[i])
  BY <1>2, <1>3 DEF InRow
<1>6. Elements(<<h>> \o d) = [r |-> Ok(t[n + 1]), v |-> v]
  <2>1. mpack_expect_array(Ok(<<h>> \o d)).r = Ok(t[1]) /\ mpack_expect_array(Ok(<<h>> \o d)).v = n
    BY <1>4, <1>5
  <2> HIDE DEF a
  <2> QED BY <1>1, <1>5, <2>1, ElementsIn, ZenonT(40)
<1> QED BY <1>4, <1>5, <1>6

\* The writer w holds an array's tag h and elements with the values v, k bytes of them at
\* most.
Writing(w, h, v, k) ==
    \E d : Growing(w, <<h>> \o d) /\ CodesAll(d, v) /\ Len(d) <= k

\* mpack_start_array on a new writer.
LEMMA WritingStarts ==
    ASSUME NEW n \in 0..15
    PROVE  Writing(mpack_start_array(mpack_writer_init_growable, n), 144 + n, <<>>, 0)
<1> DEFINE h == 144 + n
<1>1. PICK a \in Data : a = <<h>> /\ Len(a) = 1
  BY One, SMTT(30) DEF Byte
<1>2. PICK e \in Data : e = <<>> /\ Len(e) = 0 /\ e \o a = a /\ a \o e = a
  BY JoinedEmpty
<1>3. EncodedArray(n) = a
  BY <1>1 DEF EncodedArray, EncodedCount
<1> HIDE DEF h
<1>4. Growing(MPACK_WRITE_ENCODED(mpack_writer_init_growable, a), e \o a)
  <2>1. Len(a) <= 32
    BY <1>1
  <2> QED BY <1>2, <2>1, GrowingStart, AddsEncoded
<1>5. Growing(mpack_start_array(mpack_writer_init_growable, n), <<h>> \o e)
  BY <1>1, <1>2, <1>3, <1>4 DEF mpack_start_array
<1>6. Writing(mpack_start_array(mpack_writer_init_growable, n), h, <<>>, 0)
  <2>1. CodesAll(e, <<>>) /\ Len(e) <= 0
    BY <1>2, CodesNone
  <2> HIDE DEF h
  <2> QED BY <1>5, <2>1 DEF Writing
<1> QED BY <1>6 DEF h

\* The first i elements.
First(v, i) == SubSeq(v, 1, i)

\* The first elements and the next one.
LEMMA FirstMore ==
    ASSUME NEW S, NEW v \in Seq(S), NEW i \in Nat, i < Len(v)
    PROVE  /\ First(v, i) \in Seq(S) /\ v[i + 1] \in S
           /\ Append(First(v, i), v[i + 1]) = First(v, i + 1)
<1>1. i + 1 \in 1..Len(v) /\ i \in 0..Len(v)
  OBVIOUS
<1>2. SubSeq(v, 1, i) \in Seq(S) /\ v[i + 1] \in S
  BY <1>1
<1>3. SubSeq(v, 1, i + 1) = Append(SubSeq(v, 1, i), v[i + 1])
  BY <1>1
<1> QED BY <1>2, <1>3 DEF First

\* All of the elements, and none of them.
LEMMA FirstEnds ==
    ASSUME NEW S, NEW v \in Seq(S)
    PROVE  First(v, Len(v)) = v /\ First(v, 0) = <<>>
BY DEF First

\* One more element of an array, whatever kind it is of.
LEMMA WritesElement ==
    ASSUME NEW h \in Byte, NEW S, NEW v \in Seq(S), NEW i \in Nat, i < Len(v), NEW x, x = v[i + 1], NEW k \in Nat, NEW w, NEW w2, NEW e, NEW l \in Nat,
           Writing(w, h, First(v, i), k), Codes(e, x), Len(e) <= l,
           \A b : Growing(w, b) => Growing(w2, b \o e)
    PROVE  Writing(w2, h, First(v, i + 1), k + l)
<1>1. PICK d : Growing(w, <<h>> \o d) /\ CodesAll(d, First(v, i)) /\ Len(d) <= k
  BY DEF Writing
<1>2. d \in Data /\ e \in Data /\ <<h>> \in Data
  BY <1>1, One DEF CodesAll, Codes
<1>3. Growing(w2, (<<h>> \o d) \o e)
  BY <1>1
<1>4. (<<h>> \o d) \o e = <<h>> \o (d \o e)
  BY <1>2, Assoc
<1>5. CodesAll(d \o e, First(v, i + 1))
  <2> DEFINE f == First(v, i)
  <2>1. f \in Seq(S) /\ x \in S /\ Append(f, x) = First(v, i + 1)
    BY FirstMore
  <2>2. CodesAll(d, f)
    BY <1>1
  <2> HIDE DEF f
  <2>3. CodesAll(d \o e, Append(f, x))
    BY <2>1, <2>2, CodesOneMore
  <2> QED BY <2>1, <2>3
<1>6. Len(d \o e) <= k + l
  <2> DEFINE m == Len(d)  o == Len(e)  q == Len(d \o e)
  <2>1. q = m + o /\ m \in Nat /\ o \in Nat /\ m <= k /\ o <= l
    BY <1>1, <1>2, Cut
  <2> HIDE DEF m, o, q
  <2>2. q <= k + l
    BY <2>1
  <2> QED BY <2>2 DEF q
<1> QED BY <1>3, <1>4, <1>5, <1>6 DEF Writing

\* mpack_write_u32 as the next element.
LEMMA WritesWord ==
    ASSUME NEW h \in Byte, NEW S, NEW v \in Seq(S), NEW i \in Nat, i < Len(v), NEW x, x = v[i + 1], NEW k \in Nat, NEW w, Writing(w, h, First(v, i), k), x \in Word32
    PROVE  Writing(mpack_write_u32(w, x), h, First(v, i + 1), k + 5)
<1> DEFINE e == EncodedUnsigned(x)
<1>1. <<>> \in Data
  BY DEF Data
<1>2. e \in UnsignedForms(x)
  BY EncodedForm
<1>3. e \in Data /\ Len(e) \in 1..5
  BY <1>1, <1>2, UnsignedForm
<1>4. mpack_write_u32(w, x) = MPACK_WRITE_ENCODED(w, e)
  BY Zenon DEF mpack_write_u32
<1> HIDE DEF e
<1>5. Codes(e, x)
  BY <1>2, <1>3, ScalarWord DEF Codes
<1>6. Len(e) <= 5 /\ Len(e) <= 32
  <2> DEFINE l == Len(e)
  <2>1. l \in 1..5
    BY <1>3
  <2> HIDE DEF l
  <2>2. l <= 5 /\ l <= 32
    BY <2>1
  <2> QED BY <2>2 DEF l
<1>7. \A b : Growing(w, b) => Growing(mpack_write_u32(w, x), b \o e)
  BY <1>3, <1>4, <1>6, AddsEncoded
<1> QED BY <1>5, <1>6, <1>7, WritesElement

\* mpack_write_float as the next element.
LEMMA WritesFloat ==
    ASSUME NEW h \in Byte, NEW S, NEW v \in Seq(S), NEW i \in Nat, i < Len(v), NEW x, x = v[i + 1], NEW k \in Nat, NEW w, Writing(w, h, First(v, i), k), x \in Word32
    PROVE  Writing(mpack_write_float(w, x), h, First(v, i + 1), k + 5)
<1> DEFINE e == FloatBytes(x)
<1>1. <<>> \in Data
  BY DEF Data
<1>2. mpack_write_float(w, x) = MPACK_WRITE_ENCODED(w, e)
  BY Zenon DEF mpack_write_float, FloatBytes
<1>3. e \in Data /\ Len(e) = 5
  BY <1>1, ScalarFloat
<1>4. Codes(e, x)
  BY <1>3, ScalarFloat DEF Codes
<1> HIDE DEF e
<1>5. Len(e) <= 5 /\ Len(e) <= 32
  BY <1>3
<1>6. \A b : Growing(w, b) => Growing(mpack_write_float(w, x), b \o e)
  BY <1>2, <1>3, <1>5, AddsEncoded
<1> QED BY <1>4, <1>5, <1>6, WritesElement

\* mpack_write_bool as the next element.
LEMMA WritesBool ==
    ASSUME NEW h \in Byte, NEW S, NEW v \in Seq(S), NEW i \in Nat, i < Len(v), NEW x, x = v[i + 1], NEW k \in Nat, NEW w, Writing(w, h, First(v, i), k), x \in BOOLEAN
    PROVE  Writing(mpack_write_bool(w, x), h, First(v, i + 1), k + 5)
<1> DEFINE e == BoolByte(x)
<1>1. <<>> \in Data
  BY DEF Data
<1>2. mpack_write_bool(w, x) = MPACK_WRITE_ENCODED(w, e)
  BY Zenon DEF mpack_write_bool, BoolByte
<1>3. e \in Data /\ Len(e) = 1
  BY <1>1, ScalarBool
<1>4. Codes(e, x)
  BY <1>3, ScalarBool DEF Codes
<1> HIDE DEF e
<1>5. Len(e) <= 5 /\ Len(e) <= 32
  BY <1>3
<1>6. \A b : Growing(w, b) => Growing(mpack_write_bool(w, x), b \o e)
  BY <1>2, <1>3, <1>5, AddsEncoded
<1> QED BY <1>4, <1>5, <1>6, WritesElement

\* A text's tag takes at most five bytes.
LEMMA TextLength ==
    ASSUME NEW s \in Data, Len(s) < MaxLength
    PROVE  TextBytes(s) \in Data /\ Len(TextBytes(s)) <= Len(s) + 5 /\ Len(s) + 5 \in Nat
<1> DEFINE n == Len(s)  e == EncodedStr(n)
<1>1. n \in Nat /\ n < MaxLength
  BY Cut
<1>2. e \in LengthForms(n)
  BY <1>1, EncodedLength
<1>3. e \in Data
  BY <1>1, <1>2, LengthRead
<1>4. Len(e) \in 1..5
  <2>1. PICK k \in 0..4 : Len(e) = 1 + k
    <3>1. CASE n <= 31 /\ e = <<160 + n>>
      BY <3>1
    <3>2. CASE \E k \in {1, 2, 4} : e = <<TagOfText[k]>> \o Low(Word(n, 4), k)
      <4>1. PICK k \in {1, 2, 4} : e = <<TagOfText[k]>> \o Low(Word(n, 4), k)
        BY <3>2
      <4>2. Word(n, 4) \in Word32
        BY <1>1, WordOfNumber
      <4>3. TagOfText[k] \in Byte /\ k \in 0..4
        BY TextTags DEF Sizes
      <4>4. Len(<<TagOfText[k]>> \o Low(Word(n, 4), k)) = 1 + k
        BY <4>2, <4>3, LowData
      <4> QED BY <4>1, <4>3, <4>4
    <3> HIDE DEF e, n
    <3> QED BY <1>2, <3>1, <3>2, Zenon DEF LengthForms
  <2> QED BY <2>1
<1> DEFINE m == Len(e)  q == Len(e \o s)
<1>5. q = m + n /\ m \in Nat /\ n \in Nat /\ m \in 1..5 /\ e \o s \in Data
  BY <1>3, <1>4, Cut
<1>6. TextBytes(s) = e \o s
  BY Zenon DEF TextBytes
<1> HIDE DEF m, n, q, e
<1>7. q <= n + 5 /\ n + 5 \in Nat
  BY <1>5
<1> QED BY <1>5, <1>6, <1>7 DEF q, n

\* mpack_write_str as the next element.
LEMMA WritesText ==
    ASSUME NEW h \in Byte, NEW S, NEW v \in Seq(S), NEW i \in Nat, i < Len(v), NEW x, x = v[i + 1], NEW k \in Nat, NEW w, Writing(w, h, First(v, i), k),
           x \in Data, Len(x) < MaxLength
    PROVE  Writing(mpack_write_str(w, x), h, First(v, i + 1), k + (Len(x) + 5))
<1> DEFINE e == TextBytes(x)  l == Len(x) + 5
<1>1. e \in Data /\ Len(e) <= l /\ l \in Nat
  BY TextLength
<1>2. Codes(e, x)
  BY <1>1, ScalarText DEF Codes
<1>3. \A b : Growing(w, b) => Growing(mpack_write_str(w, x), b \o e)
  BY AddsText DEF TextBytes
<1> HIDE DEF e, l
<1>4. Writing(mpack_write_str(w, x), h, First(v, i + 1), k + l)
  BY <1>1, <1>2, <1>3, WritesElement
<1> QED BY <1>4 DEF l

\* What the writer leaves behind is read back as the values written.
LEMMA WritingEnds ==
    ASSUME NEW S, NEW v \in Seq(S), Len(v) <= 15, NEW k \in Nat, NEW w, Writing(w, 144 + Len(v), v, k)
    PROVE  LET b == mpack_writer_destroy(w)
           IN  b \in Data /\ b # <<>> /\ Len(b) <= k + 1 /\ Elements(b) = [r |-> Ok(<<>>), v |-> v]
<1> DEFINE h == 144 + Len(v)
<1>1. PICK d : Growing(w, <<h>> \o d) /\ CodesAll(d, v) /\ Len(d) <= k
  BY DEF Writing
<1>2. h \in Byte
  <2> DEFINE n == Len(v)
  <2>1. n \in Nat /\ n <= 15
    OBVIOUS
  <2> HIDE DEF n
  <2>2. 144 + n \in Byte
    BY <2>1 DEF Byte
  <2> QED BY <2>2 DEF n
<1>3. mpack_writer_destroy(w) = <<h>> \o d
  BY <1>1, GrowingEnds
<1>4. <<h>> \o d \in Data /\ Elements(<<h>> \o d) = [r |-> Ok(<<>>), v |-> v]
  BY <1>1, ArrayOfElements
<1> HIDE DEF h
<1>5. <<h>> \o d # <<>> /\ Len(<<h>> \o d) <= k + 1
  <2>1. <<h>> \in Data /\ Len(<<h>>) = 1 /\ d \in Data
    BY <1>1, <1>2, One DEF CodesAll
  <2> DEFINE m == Len(d)  q == Len(<<h>> \o d)
  <2>2. q = 1 + m /\ m \in Nat /\ m <= k
    BY <1>1, <2>1, Cut
  <2>3. <<h>> \o d = <<>> => q = 0
    OBVIOUS
  <2> HIDE DEF m, q
  <2>4. q # 0 /\ q <= k + 1
    BY <2>2
  <2> QED BY <2>3, <2>4 DEF q
<1> QED BY <1>3, <1>4, <1>5

---------------------------------------------------------------------------
(* Answers: headers and bodies. *)

\* A header's bytes, for any code and direction.
LEMMA HeaderWritten ==
    ASSUME NEW u \in Word32, NEW y \in Word32, NEW c \in Byte, NEW o \in Byte
    PROVE  LET h == FourWriter(u, Word(c, 4), Word(o, 4), y)
           IN  h = <<148>> \o FourForms(u, Word(c, 4), Word(o, 4), y)
               /\ h \in Data /\ Len(h) \in 5..21 /\ h[1] = 148
<1> DEFINE v == Word(c, 4)  x == Word(o, 4)
<1>1. v \in Word32 /\ x \in Word32
  BY WordOfCode
<1> HIDE DEF v, x
<1>2. HeaderBytes(FourWriter(u, v, x, y), FourForms(u, v, x, y))
  BY <1>1, FourWords
<1> QED BY <1>2, Zenon DEF v, x, HeaderBytes

\* What ya_parse_event_header makes of a header.
HeaderFields(u, c, o, y) == [ok |-> TRUE, uid |-> u, type |-> c, direction |-> o, index |-> y]

\* ya_parse_event_header reads a header back, unless its uid or its index is one it
\* takes for a negative number.
LEMMA HeaderBack ==
    ASSUME NEW u \in Word32, NEW y \in Word32, NEW c \in Byte, NEW o \in Byte, NEW rest \in Data,
           NEW h, h = FourWriter(u, Word(c, 4), Word(o, 4), y)
    PROVE  ya_parse_event_header(h \o rest, Len(h))
               = IF ~ Negative(u) /\ ~ Negative(y) THEN HeaderFields(u, c, o, y) ELSE Failure
<1> DEFINE n == Len(h)  v == Word(c, 4)  x == Word(o, 4)
           t == FourForms(u, v, x, y)
           k == <<"i32", "i32", "i32", "i32">>
<1>1. h = <<148>> \o t /\ h \in Data /\ n \in 5..21
  <2>1. v \in Word32 /\ x \in Word32
    BY WordOfCode
  <2> HIDE DEF v, x
  <2>2. HeaderBytes(FourWriter(u, v, x, y), FourForms(u, v, x, y))
    BY <2>1, FourWords
  <2> QED BY <2>2, Zenon DEF v, x, HeaderBytes
<1>2. v \in Word32 /\ x \in Word32 /\ v[4] = c /\ x[4] = o /\ ~ Negative(v) /\ ~ Negative(x)
  BY WordOfCode
<1> HIDE DEF v, x
<1>3. /\ ~ Negative(u) /\ ~ Negative(y) => InTurn(Ok(t), k) = Result(Ok(<<>>), <<u, v, x, y>>)
      /\ Negative(u) \/ Negative(y) => InTurn(Ok(t), k).r.error # "ok"
      /\ t \in Data
  BY <1>2, FourRead
<1>4. t \in Data
  BY <1>3
<1> HIDE DEF t, k
<1>5. mpack_expect_array(Ok(h)).r = Ok(t) /\ mpack_expect_array(Ok(h)).v = 4
  <2>1. 148 \in 144..159 /\ 148 % 16 = 4
    BY SMT
  <2> DEFINE b == 148
  <2>2. b \in 144..159 /\ b % 16 = 4 /\ h = <<b>> \o t
    BY <1>1, <2>1
  <2> HIDE DEF b
  <2> QED BY <1>4, <2>2, ArrayHead
<1>6. SubSeq(h \o rest, 1, n) = h /\ Len(h \o rest) = n + Len(rest) /\ Len(rest) \in Nat
  BY <1>1, Cut
<1>7. ~ (n = 0 \/ Len(h \o rest) < n)
  <2> DEFINE m == Len(h \o rest)  l == Len(rest)
  <2>1. m = n + l /\ l \in Nat /\ n \in 5..21
    BY <1>1, <1>6
  <2> HIDE DEF m, n, l
  <2>2. ~ (n = 0 \/ m < n)
    BY <2>1
  <2> QED BY <2>2 DEF m
<1>8. mpack_reader_init_data(SubSeq(h \o rest, 1, n)) = Ok(h)
  BY <1>6 DEF mpack_reader_init_data, Ok
<1> DEFINE buf == h \o rest
           read == InTurn(Ok(t), k)
<1>9. ya_parse_event_header(buf, n) =
         IF n = 0 \/ Len(buf) < n \/ read.r.error # "ok" THEN Failure
         ELSE [ok |-> TRUE, uid |-> read.v[1], type |-> read.v[2][4],
               direction |-> read.v[3][4], index |-> read.v[4]]
  <2> DEFINE a == mpack_expect_array(Ok(h))
             four == IF a.v = 4 THEN a.r ELSE mpack_reader_flag_error(a.r, "type")
             of(q) == IF n = 0 \/ Len(buf) < n \/ q.r.error # "ok" THEN Failure
                      ELSE [ok |-> TRUE, uid |-> q.v[1], type |-> q.v[2][4],
                            direction |-> q.v[3][4], index |-> q.v[4]]
  <2>1. four = Ok(t)
    BY <1>5
  <2> HIDE DEF n, buf, a, read
  <2>2. ya_parse_event_header(buf, n) =
           LET m == mpack_expect_array(mpack_reader_init_data(SubSeq(buf, 1, n)))
           IN  of(InTurn(IF m.v = 4 THEN m.r ELSE mpack_reader_flag_error(m.r, "type"), k))
    BY Zenon DEF ya_parse_event_header, k
  <2>3. mpack_reader_init_data(SubSeq(buf, 1, n)) = Ok(h)
    BY <1>8 DEF buf
  <2> HIDE DEF of
  <2>4. ya_parse_event_header(buf, n) = of(InTurn(four, k))
    BY <2>2, <2>3, Zenon DEF a, four
  <2>5. ya_parse_event_header(buf, n) = of(read)
    BY <2>1, <2>4, Zenon DEF read
  <2> QED BY <2>5, Zenon DEF of
<1>10. CASE ~ Negative(u) /\ ~ Negative(y)
  <2>1. read.r.error = "ok" /\ read.v = <<u, v, x, y>>
    BY <1>3, <1>10 DEF Result, Ok
  <2>2. read.v[1] = u /\ read.v[2] = v /\ read.v[3] = x /\ read.v[4] = y
    <3> HIDE DEF read
    <3> QED BY <2>1
  <2> HIDE DEF read, n, buf
  <2>4. ya_parse_event_header(buf, n) =
              [ok |-> TRUE, uid |-> read.v[1], type |-> read.v[2][4],
               direction |-> read.v[3][4], index |-> read.v[4]]
    <3>1. ~ (n = 0 \/ Len(buf) < n \/ read.r.error # "ok")
      BY <1>7, <2>1 DEF buf
    <3> QED BY <1>9, <3>1, Zenon
  <2>5. read.v[1] = u /\ read.v[2][4] = c /\ read.v[3][4] = o /\ read.v[4] = y
    BY <1>2, <2>2
  <2>6. ya_parse_event_header(buf, n) = HeaderFields(u, c, o, y)
    BY <2>4, <2>5, Zenon DEF HeaderFields
  <2> QED BY <1>10, <2>6, Zenon DEF buf, n
<1>11. CASE Negative(u) \/ Negative(y)
  <2>1. read.r.error # "ok"
    BY <1>3, <1>11
  <2> HIDE DEF read, n, buf
  <2>3. ya_parse_event_header(buf, n) = Failure
    BY <1>9, <2>1, Zenon
  <2> QED BY <1>11, <2>3, Zenon DEF buf, n
<1> QED BY <1>10, <1>11

---------------------------------------------------------------------------
\* Longer texts are not sent.
Half == MaxLength \div 2

\* What the server puts into a response: the parameter of its type, with texts it can
\* send.
Fits(type, p) ==
    \/ type = "AUTHORIZE" /\ p \in YAAuthorizeEventResponse /\ Len(p.macs) < Half
    \/ type = "DISCOVER" /\ p \in YADiscoverEventResponse
    \/ type = "TEXT_GET" /\ p \in YAInputGetEventResponse /\ Len(p.text) < Half
    \/ type = "HEARTBEAT" /\ p = NoParam

\* The body of a response.
BodyOf(a) == mpack_writer_destroy(get_serializer(a.type, mpack_writer_init_growable, a.param))

\* A phone reads a body by its type.
ReadBody(type, body) ==
    CASE type = "TEXT_GET" -> Scalar(mpack_reader_init_data(body))
      [] type # "TEXT_GET" /\ body = <<>> -> Result(mpack_reader_init_data(body), <<>>)
      [] OTHER -> Elements(body)

\* The body of a response is read back as its values, with nothing left over.
BodyRead(a) ==
    /\ BodyOf(a) \in Data /\ Len(BodyOf(a)) < Half + 100
    /\ ReadBody(a.type, BodyOf(a)) = Result(Ok(<<>>), Values(a))

\* The answer to a heartbeat has no body.
LEMMA HeartbeatBody == ASSUME NEW a, a.type = "HEARTBEAT" PROVE BodyRead(a)
<1> DEFINE w == mpack_writer_init_growable
<1>1. get_serializer(a.type, w, a.param) = w
  <2>1. a.type \notin CommonTypes /\ a.type # "KEYBOARD" /\ a.type \notin {"TEXT_INPUT", "TEXT_GET"}
        /\ a.type # "AUTHORIZE" /\ a.type # "DISCOVER"
    BY DEF CommonTypes
  <2> HIDE DEF w
  <2> QED BY <2>1, Zenon DEF get_serializer
<1>2. BodyOf(a) = <<>>
  BY <1>1, GrowingStart, GrowingEnds DEF BodyOf
<1>3. BodyOf(a) \in Data /\ Len(BodyOf(a)) < Half + 100
  BY <1>2 DEF Data, Half, MaxLength
<1>4. ReadBody(a.type, BodyOf(a)) = Result(Ok(<<>>), <<>>)
  <2>1. mpack_reader_init_data(<<>>) = Ok(<<>>)
    BY Zenon DEF mpack_reader_init_data, Ok
  <2>2. a.type # "TEXT_GET"
    OBVIOUS
  <2> QED BY <1>2, <2>1, <2>2, Zenon DEF ReadBody
<1>5. Values(a) = <<>>
  <2>1. a.type # "AUTHORIZE" /\ a.type # "DISCOVER" /\ a.type # "TEXT_GET"
    OBVIOUS
  <2> QED BY <2>1, Zenon DEF Values
<1> QED BY <1>3, <1>4, <1>5 DEF BodyRead

\* The answer to TEXT_GET is one text, not an array.
LEMMA TextBody ==
    ASSUME NEW a, a.type = "TEXT_GET", a.param \in YAInputGetEventResponse, Len(a.param.text) < Half
    PROVE  BodyRead(a)
<1> DEFINE w == mpack_writer_init_growable  s == a.param.text
<1>1. s \in Data /\ Len(s) \in Nat
  <2>1. s \in Data
    BY DEF YAInputGetEventResponse
  <2> HIDE DEF s
  <2> QED BY <2>1, Cut
<1>2. get_serializer(a.type, w, a.param) = mpack_write_str(w, s)
  <2>1. a.type \notin CommonTypes /\ a.type # "KEYBOARD" /\ a.type \in {"TEXT_INPUT", "TEXT_GET"}
    BY DEF CommonTypes
  <2> HIDE DEF w
  <2>2. get_serializer(a.type, w, a.param) = serialize_text(w, a.param)
    BY <2>1, Zenon DEF get_serializer
  <2> QED BY <2>2 DEF serialize_text
<1>3. Len(s) < Half /\ Len(s) < MaxLength
  <2> DEFINE n == Len(s)
  <2>1. n \in Nat /\ n < Half
    BY <1>1
  <2> HIDE DEF n
  <2>2. n < MaxLength
    BY <2>1 DEF Half, MaxLength
  <2> QED BY <2>1, <2>2 DEF n
<1> HIDE DEF s, w
<1>4. PICK e \in Data : e = <<>> /\ \A d \in Data : e \o d = d /\ d \o e = d
  <2>1. <<>> \in Data
    BY DEF Data
  <2> QED BY <2>1, JoinedEmpty
<1>5. TextBytes(s) \in Data /\ Len(TextBytes(s)) <= Len(s) + 5
  BY <1>1, <1>3, TextLength
<1>6. Growing(mpack_write_str(w, s), TextBytes(s))
  <2>1. Growing(w, e)
    BY <1>4, GrowingStart DEF w
  <2>2. Growing(mpack_write_str(w, s), e \o TextBytes(s))
    BY <1>1, <1>3, <2>1, AddsText DEF TextBytes
  <2> QED BY <1>4, <1>5, <2>2
<1>7. BodyOf(a) = TextBytes(s)
  BY <1>2, <1>6, GrowingEnds DEF BodyOf, w
<1>8. Scalar(Ok(TextBytes(s))) = Result(Ok(<<>>), s)
  <2>1. Scalar(Ok(TextBytes(s) \o e)) = Result(Ok(e), s)
    BY <1>1, <1>3, <1>4, ScalarText
  <2> QED BY <1>4, <1>5, <2>1
<1>9. ReadBody(a.type, BodyOf(a)) = Result(Ok(<<>>), s)
  <2>1. mpack_reader_init_data(TextBytes(s)) = Ok(TextBytes(s))
    BY Zenon DEF mpack_reader_init_data, Ok
  <2> QED BY <1>7, <1>8, <2>1, Zenon DEF ReadBody
<1>10. Values(a) = s
  <2>1. a.type # "AUTHORIZE" /\ a.type # "DISCOVER" /\ a.type = "TEXT_GET"
    OBVIOUS
  <2> QED BY <2>1, Zenon DEF Values, s
<1>11. Len(BodyOf(a)) < Half + 100
  <2> DEFINE n == Len(s)  m == Len(TextBytes(s))
  <2>1. n \in Nat /\ n < Half /\ m <= n + 5 /\ m \in Nat
    BY <1>1, <1>3, <1>5, Cut
  <2> HIDE DEF n, m
  <2>2. m < Half + 100
    BY <2>1 DEF Half, MaxLength
  <2> QED BY <1>7, <2>2 DEF m
<1> QED BY <1>5, <1>7, <1>9, <1>10, <1>11 DEF BodyRead

\* The answer to a search: the magic and the port.
LEMMA DiscoverBody ==
    ASSUME NEW a, a.type = "DISCOVER", a.param \in YADiscoverEventResponse
    PROVE  BodyRead(a)
<1> DEFINE w == mpack_writer_init_growable  p == a.param  d == DISCOVERY_MAGIC  q == p.port
           w0 == mpack_start_array(w, 2)  w1 == mpack_write_u32(w0, d)  w2 == mpack_write_u32(w1, q)
           v == <<d, q>>
<1>1. d \in Word32 /\ q \in Word32
  <2>1. q \in Word32
    BY DEF YADiscoverEventResponse
  <2>2. d \in Word32
    BY DEF DISCOVERY_MAGIC, Word32, Byte
  <2> QED BY <2>1, <2>2
<1>2. get_serializer(a.type, w, a.param) = w2
  <2>1. a.type \notin CommonTypes /\ a.type # "KEYBOARD" /\ a.type \notin {"TEXT_INPUT", "TEXT_GET"}
        /\ a.type # "AUTHORIZE" /\ a.type = "DISCOVER"
    BY DEF CommonTypes
  <2> HIDE DEF w
  <2>2. get_serializer(a.type, w, a.param) = serialize_discover_response(w, a.param)
    BY <2>1, Zenon DEF get_serializer
  <2> QED BY <2>2, Zenon DEF serialize_discover_response
<1>3. Values(a) = v
  <2>1. a.type # "AUTHORIZE" /\ a.type = "DISCOVER"
    OBVIOUS
  <2> QED BY <2>1, Zenon DEF Values
<1> HIDE DEF d, p, q
<1> DEFINE S == Word32
<1> HIDE DEF S
<1>4. v \in Seq(S) /\ Len(v) = 2 /\ v[0 + 1] = d /\ v[1 + 1] = q
  BY <1>1 DEF S
<1> DEFINE h == 146
<1>5. Writing(w0, h, First(v, 0), 0)
  <2> DEFINE n == 2
  <2>1. n \in 0..15 /\ h = 144 + n
    OBVIOUS
  <2> HIDE DEF n, h, v
  <2>2. Writing(mpack_start_array(mpack_writer_init_growable, n), 144 + n, <<>>, 0)
    BY <2>1, WritingStarts
  <2> QED BY <1>4, <2>1, <2>2, FirstEnds DEF n
<1>6. h \in Byte
  BY DEF Byte
<1> HIDE DEF w0, h, v
<1>7. Writing(w1, h, First(v, 0 + 1), 0 + 5)
  <2>1. 0 \in Nat /\ 0 < Len(v)
    BY <1>4
  <2> QED BY <1>1, <1>4, <1>5, <1>6, <2>1, WritesWord
<1> HIDE DEF w1
<1>8. Writing(w2, h, First(v, 1 + 1), 5 + 5)
  <2>1. 1 \in Nat /\ 1 < Len(v) /\ 5 \in Nat /\ 0 + 1 = 1 /\ 0 + 5 = 5
    BY <1>4
  <2>2. Writing(w1, h, First(v, 1), 5)
    BY <1>7, <2>1
  <2> QED BY <1>1, <1>4, <1>6, <2>1, <2>2, WritesWord
<1> HIDE DEF w2
<1> DEFINE b == mpack_writer_destroy(w2)
<1>9. b \in Data /\ b # <<>> /\ Len(b) <= 10 + 1 /\ Elements(b) = [r |-> Ok(<<>>), v |-> v]
  <2>1. 10 \in Nat /\ 1 + 1 = 2 /\ 5 + 5 = 10 /\ Len(v) <= 15 /\ h = 144 + Len(v)
    BY <1>4 DEF h
  <2>2. First(v, 2) = v
    BY <1>4, FirstEnds
  <2>3. Writing(w2, 144 + Len(v), v, 10)
    BY <1>8, <2>1, <2>2
  <2> QED BY <1>4, <2>1, <2>3, WritingEnds
<1>10. BodyOf(a) = b
  BY <1>2 DEF BodyOf
<1> HIDE DEF b
<1>11. ReadBody(a.type, b) = Elements(b)
  <2>1. a.type # "TEXT_GET"
    OBVIOUS
  <2> QED BY <1>9, <2>1, Zenon DEF ReadBody
<1>12. Len(b) < Half + 100
  <2> DEFINE n == Len(b)
  <2>1. n <= 10 + 1 /\ n \in Nat
    BY <1>9, Cut
  <2> HIDE DEF n
  <2>2. n < Half + 100
    BY <2>1 DEF Half, MaxLength
  <2> QED BY <2>2 DEF n
<1>13. Elements(b) = Result(Ok(<<>>), v)
  BY <1>9, Zenon DEF Result
<1> QED BY <1>3, <1>9, <1>10, <1>11, <1>12, <1>13 DEF BodyRead

---------------------------------------------------------------------------
(* The answer to AUTHORIZE. *)

\* The seven fields every phone is sent, in an array of n.
SevenWriter(n, p) ==
    LET head == mpack_write_u32(mpack_write_u32(
                    mpack_write_bool(mpack_start_array(mpack_writer_init_growable, n), p.success),
                    p.os_type), p.uid)
        ports == mpack_write_u32(mpack_write_u32(head, p.session_port), p.command_port)
    IN  mpack_write_float(mpack_write_str(ports, p.macs), p.display_scale)

\* The fields of the older protocols, in their order.
SevenFields(p) ==
    <<p.success, p.os_type, p.uid, p.session_port, p.command_port, p.macs, p.display_scale>>

\* What a field may be.
AnyField == BOOLEAN \cup Word32 \cup Data

\* A sequence that begins with the seven fields.
BeginsSeven(v, p) ==
    /\ v[1] = p.success /\ v[2] = p.os_type /\ v[3] = p.uid /\ v[4] = p.session_port
    /\ v[5] = p.command_port /\ v[6] = p.macs /\ v[7] = p.display_scale

\* The fields of an authorization's answer, one by one.
LEMMA FieldKinds ==
    ASSUME NEW p \in YAAuthorizeEventResponse
    PROVE  /\ p.success \in BOOLEAN /\ p.os_type \in Word32 /\ p.uid \in Word32
           /\ p.session_port \in Word32 /\ p.command_port \in Word32 /\ p.macs \in Data
           /\ p.display_scale \in Word32 /\ p.client_version \in Word32
BY Zenon DEF YAAuthorizeEventResponse

\* serialize_authorize_response writes the seven fields every phone gets.
LEMMA SevenWritten ==
    ASSUME NEW p \in YAAuthorizeEventResponse, Len(p.macs) < MaxLength,
           NEW S, NEW v \in Seq(S), Len(v) \in 7..15, BeginsSeven(v, p)
    PROVE  Writing(SevenWriter(Len(v), p), 144 + Len(v), First(v, 7), Len(p.macs) + 35)
<1> DEFINE n == Len(v)  h == 144 + n  m == Len(p.macs)
           w0 == mpack_start_array(mpack_writer_init_growable, n)
           w1 == mpack_write_bool(w0, p.success)
           w2 == mpack_write_u32(w1, p.os_type)
           w3 == mpack_write_u32(w2, p.uid)
           w4 == mpack_write_u32(w3, p.session_port)
           w5 == mpack_write_u32(w4, p.command_port)
           w6 == mpack_write_str(w5, p.macs)
           w7 == mpack_write_float(w6, p.display_scale)
<1>1. SevenWriter(n, p) = w7
  BY Zenon DEF SevenWriter
<1>2. /\ p.success \in BOOLEAN /\ p.os_type \in Word32 /\ p.uid \in Word32
      /\ p.session_port \in Word32 /\ p.command_port \in Word32 /\ p.macs \in Data
      /\ p.display_scale \in Word32
  BY FieldKinds
<1>3. /\ p.success = v[0 + 1] /\ p.os_type = v[1 + 1] /\ p.uid = v[2 + 1] /\ p.session_port = v[3 + 1]
      /\ p.command_port = v[4 + 1] /\ p.macs = v[5 + 1] /\ p.display_scale = v[6 + 1]
  <2>1. 0 + 1 = 1 /\ 1 + 1 = 2 /\ 2 + 1 = 3 /\ 3 + 1 = 4 /\ 4 + 1 = 5 /\ 5 + 1 = 6 /\ 6 + 1 = 7
    OBVIOUS
  <2> QED BY <2>1, Zenon DEF BeginsSeven
<1>4. n \in 7..15 /\ h = 144 + n
  OBVIOUS
<1>5. m \in Nat
  BY <1>2, Cut
<1>6. v \in Seq(S) /\ n = Len(v) /\ m < MaxLength
  OBVIOUS
<1> HIDE DEF w0, w1, w2, w3, w4, w5, w6, w7, h, n, m
<1>7. h \in Byte
  BY <1>4 DEF Byte
<1>8. 0 < n /\ 1 < n /\ 2 < n /\ 3 < n /\ 4 < n /\ 5 < n /\ 6 < n
  BY <1>4
<1>9. Writing(w0, h, First(v, 0), 0)
  <2>1. n \in 0..15
    BY <1>4
  <2>2. Writing(w0, 144 + n, <<>>, 0)
    BY <2>1, WritingStarts DEF w0
  <2> QED BY <1>4, <1>6, <2>2, FirstEnds
<1>10. Writing(w1, h, First(v, 1), 5)
  <2>1. 0 \in Nat /\ 0 + 1 = 1 /\ 0 + 5 = 5
    OBVIOUS
  <2>2. Writing(w1, h, First(v, 0 + 1), 0 + 5)
    BY <1>2, <1>3, <1>6, <1>7, <1>8, <1>9, <2>1, WritesBool DEF w1
  <2> QED BY <2>1, <2>2
<1>11. Writing(w2, h, First(v, 2), 10)
  <2>1. 1 \in Nat /\ 5 \in Nat /\ 1 + 1 = 2 /\ 5 + 5 = 10
    OBVIOUS
  <2>2. Writing(w2, h, First(v, 1 + 1), 5 + 5)
    BY <1>2, <1>3, <1>6, <1>7, <1>8, <1>10, <2>1, WritesWord DEF w2
  <2> QED BY <2>1, <2>2
<1>12. Writing(w3, h, First(v, 3), 15)
  <2>1. 2 \in Nat /\ 10 \in Nat /\ 2 + 1 = 3 /\ 10 + 5 = 15
    OBVIOUS
  <2>2. Writing(w3, h, First(v, 2 + 1), 10 + 5)
    BY <1>2, <1>3, <1>6, <1>7, <1>8, <1>11, <2>1, WritesWord DEF w3
  <2> QED BY <2>1, <2>2
<1>13. Writing(w4, h, First(v, 4), 20)
  <2>1. 3 \in Nat /\ 15 \in Nat /\ 3 + 1 = 4 /\ 15 + 5 = 20
    OBVIOUS
  <2>2. Writing(w4, h, First(v, 3 + 1), 15 + 5)
    BY <1>2, <1>3, <1>6, <1>7, <1>8, <1>12, <2>1, WritesWord DEF w4
  <2> QED BY <2>1, <2>2
<1>14. Writing(w5, h, First(v, 5), 25)
  <2>1. 4 \in Nat /\ 20 \in Nat /\ 4 + 1 = 5 /\ 20 + 5 = 25
    OBVIOUS
  <2>2. Writing(w5, h, First(v, 4 + 1), 20 + 5)
    BY <1>2, <1>3, <1>6, <1>7, <1>8, <1>13, <2>1, WritesWord DEF w5
  <2> QED BY <2>1, <2>2
<1>15. Writing(w6, h, First(v, 6), m + 30)
  <2>1. 5 \in Nat /\ 25 \in Nat /\ 5 + 1 = 6 /\ 25 + (m + 5) = m + 30
    BY <1>5
  <2> DEFINE x == p.macs
  <2>2. x \in Data /\ x = v[5 + 1] /\ Len(x) < MaxLength /\ Len(x) = m /\ w6 = mpack_write_str(w5, x)
    BY <1>2, <1>3, <1>6 DEF m, w6
  <2> HIDE DEF x
  <2>3. Writing(mpack_write_str(w5, x), h, First(v, 5 + 1), 25 + (Len(x) + 5))
    BY <1>6, <1>7, <1>8, <1>14, <2>1, <2>2, WritesText
  <2> QED BY <2>1, <2>2, <2>3
<1>16. Writing(w7, h, First(v, 7), m + 35)
  <2>1. 6 \in Nat /\ m + 30 \in Nat /\ 6 + 1 = 7 /\ (m + 30) + 5 = m + 35
    BY <1>5
  <2>2. Writing(w7, h, First(v, 6 + 1), (m + 30) + 5)
    BY <1>2, <1>3, <1>6, <1>7, <1>8, <1>15, <2>1, WritesFloat DEF w7
  <2> QED BY <2>1, <2>2
<1> QED BY <1>1, <1>16 DEF n, h, m

\* The seven fields in their order.
LEMMA SevenSeq ==
    ASSUME NEW p \in YAAuthorizeEventResponse
    PROVE  LET v == SevenFields(p) IN v \in Seq(AnyField) /\ Len(v) = 7 /\ BeginsSeven(v, p)
<1> DEFINE S == AnyField
<1>1. \A x \in BOOLEAN : x \in S
  BY Zenon DEF AnyField
<1>2. \A x \in Word32 : x \in S
  BY Zenon DEF AnyField
<1>3. \A x \in Data : x \in S
  BY Zenon DEF AnyField
<1> HIDE DEF S
<1>4. PICK a \in S : a = p.success
  BY <1>1, FieldKinds
<1>5. PICK b \in S : b = p.os_type
  BY <1>2, FieldKinds
<1>6. PICK c \in S : c = p.uid
  BY <1>2, FieldKinds
<1>7. PICK d \in S : d = p.session_port
  BY <1>2, FieldKinds
<1>8. PICK e \in S : e = p.command_port
  BY <1>2, FieldKinds
<1>9. PICK f \in S : f = p.macs
  BY <1>3, FieldKinds
<1>10. PICK g \in S : g = p.display_scale
  BY <1>2, FieldKinds
<1> DEFINE v == <<a, b, c, d, e, f, g>>
<1>11. SevenFields(p) = v
  BY <1>4, <1>5, <1>6, <1>7, <1>8, <1>9, <1>10, Zenon DEF SevenFields
<1>12. v \in Seq(S)
  OBVIOUS
<1>13. Len(v) = 7 /\ v[1] = a /\ v[2] = b /\ v[3] = c /\ v[4] = d /\ v[5] = e /\ v[6] = f /\ v[7] = g
  OBVIOUS
<1> HIDE DEF v
<1>14. BeginsSeven(v, p)
  BY <1>4, <1>5, <1>6, <1>7, <1>8, <1>9, <1>10, <1>13, Zenon DEF BeginsSeven
<1> QED BY <1>11, <1>12, <1>13, <1>14 DEF S

\* A body that is an array's tag and its values.
LEMMA ArrayBody ==
    ASSUME NEW a, NEW S, NEW v \in Seq(S), Len(v) <= 15, NEW k \in Nat, k < Half + 90, NEW w,
           Writing(w, 144 + Len(v), v, k), a.type # "TEXT_GET", Values(a) = v,
           get_serializer(a.type, mpack_writer_init_growable, a.param) = w
    PROVE  BodyRead(a)
<1> DEFINE b == mpack_writer_destroy(w)
<1>1. b \in Data /\ b # <<>> /\ Len(b) <= k + 1 /\ Elements(b) = [r |-> Ok(<<>>), v |-> v]
  BY WritingEnds
<1>2. BodyOf(a) = b
  BY DEF BodyOf
<1> HIDE DEF b
<1>3. ReadBody(a.type, b) = Elements(b)
  BY <1>1, Zenon DEF ReadBody
<1>4. Len(b) < Half + 100
  <2> DEFINE n == Len(b)
  <2>1. n <= k + 1 /\ n \in Nat
    BY <1>1, Cut
  <2> HIDE DEF n
  <2>2. n < Half + 100
    BY <2>1 DEF Half, MaxLength
  <2> QED BY <2>2 DEF n
<1>5. Elements(b) = Result(Ok(<<>>), v)
  BY <1>1, Zenon DEF Result
<1> QED BY <1>1, <1>2, <1>3, <1>4, <1>5 DEF BodyRead

\* The answer to AUTHORIZE is read back, of seven fields or, for the newer protocol, of
\* eight.
LEMMA AuthorizeBody ==
    ASSUME NEW a, a.type = "AUTHORIZE", a.param \in YAAuthorizeEventResponse, Len(a.param.macs) < Half
    PROVE  BodyRead(a)
<1> DEFINE w == mpack_writer_init_growable  p == a.param  x == Word(3, 4)
           newer == Length(p.client_version) >= 2  v7 == SevenFields(p)  v8 == v7 \o <<x>>
           m == Len(p.macs)
<1>1. get_serializer(a.type, w, a.param) = serialize_authorize_response(w, p)
  <2>1. a.type \notin CommonTypes /\ a.type # "KEYBOARD" /\ a.type \notin {"TEXT_INPUT", "TEXT_GET"}
        /\ a.type = "AUTHORIZE"
    BY DEF CommonTypes
  <2> HIDE DEF w
  <2> QED BY <2>1, Zenon DEF get_serializer
<1>2. serialize_authorize_response(w, p)
          = IF newer THEN mpack_write_u32(SevenWriter(8, p), x) ELSE SevenWriter(7, p)
  <2>1. YA_PROTOCOL_VERSION = 3
    BY DEF YA_PROTOCOL_VERSION
  <2>2. CASE newer
    BY <2>1, <2>2, Zenon DEF serialize_authorize_response, SevenWriter
  <2>3. CASE ~ newer
    BY <2>1, <2>3, Zenon DEF serialize_authorize_response, SevenWriter
  <2> QED BY <2>2, <2>3
<1>3. Values(a) = v7 \o (IF newer THEN <<x>> ELSE <<>>)
  BY Zenon DEF Values, SevenFields
<1>4. x \in Word32
  <2>1. 3 \in Byte
    BY DEF Byte
  <2> QED BY <2>1, WordOfCode
<1>5. p \in YAAuthorizeEventResponse /\ m \in Nat /\ m < Half
  <2>1. p.macs \in Data
    BY FieldKinds
  <2> QED BY <2>1, Cut
<1>6. m < MaxLength /\ m + 35 \in Nat /\ m + 35 < Half + 90 /\ m + 40 \in Nat /\ m + 40 < Half + 90
  <2> HIDE DEF m
  <2> QED BY <1>5 DEF Half, MaxLength
<1>7. v7 \in Seq(AnyField) /\ Len(v7) = 7 /\ BeginsSeven(v7, p)
  BY <1>5, SevenSeq
<1>8. a.type # "TEXT_GET"
  OBVIOUS
<1>9. m = Len(p.macs)
  OBVIOUS
<1> DEFINE S == AnyField
<1>10. x \in S
  BY <1>4, Zenon DEF AnyField
<1> HIDE DEF w, p, x, v7, m, S
<1>11. CASE ~ newer
  <2>1. Values(a) = v7
    <3>1. v7 \o <<>> = v7
      BY <1>7
    <3>2. Values(a) = v7 \o <<>>
      BY <1>3, <1>11, Zenon
    <3> QED BY <3>1, <3>2
  <2>2. Writing(SevenWriter(7, p), 144 + 7, First(v7, 7), m + 35)
    <3>1. Len(v7) \in 7..15
      BY <1>7
    <3>2. Writing(SevenWriter(Len(v7), p), 144 + Len(v7), First(v7, 7), Len(p.macs) + 35)
      BY <1>5, <1>6, <1>7, <1>9, <3>1, SevenWritten
    <3> QED BY <1>7, <1>9, <3>2
  <2>3. First(v7, 7) = v7
    BY <1>7, FirstEnds
  <2>4. get_serializer(a.type, mpack_writer_init_growable, a.param) = SevenWriter(7, p)
    BY <1>1, <1>2, <1>11, Zenon DEF w
  <2>5. Len(v7) <= 15 /\ v7 \in Seq(S) /\ Writing(SevenWriter(7, p), 144 + Len(v7), v7, m + 35)
    BY <1>7, <2>2, <2>3 DEF S
  <2> HIDE DEF newer
  <2> QED BY <1>6, <1>8, <2>1, <2>4, <2>5, ArrayBody
<1>12. CASE newer
  <2>1. Values(a) = v8
    BY <1>3, <1>12, Zenon
  <2>2. v8 \in Seq(S) /\ Len(v8) = 8 /\ v8[7 + 1] = x /\ \A i \in 1..7 : v8[i] = v7[i]
    <3>1. v7 \in Seq(S) /\ Len(v7) = 7
      BY <1>7 DEF S
    <3>2. <<x>> \in Seq(S) /\ Len(<<x>>) = 1 /\ <<x>>[1] = x
      BY <1>10
    <3> DEFINE u == v7 \o <<x>>  y == <<x>>
    <3>3. u = v7 \o y /\ y \in Seq(S) /\ Len(y) = 1 /\ y[1] = x
      BY <3>2
    <3> HIDE DEF u, y
    <3>4. u \in Seq(S) /\ Len(u) = Len(v7) + Len(y)
          /\ \A i \in 1..Len(v7) + Len(y) : u[i] = IF i <= Len(v7) THEN v7[i] ELSE y[i - Len(v7)]
      BY <3>1, <3>3, ConcatProperties
    <3>5. Len(u) = 8 /\ \A i \in 1..8 : u[i] = IF i <= 7 THEN v7[i] ELSE y[i - 7]
      BY <3>1, <3>3, <3>4, SMTT(30)
    <3>6. u[8] = y[1] /\ \A i \in 1..7 : u[i] = v7[i]
      BY <3>5
    <3>7. 7 + 1 = 8
      OBVIOUS
    <3> QED BY <3>3, <3>4, <3>5, <3>6, <3>7 DEF u
  <2>3. BeginsSeven(v8, p)
    <3>1. v8[1] = v7[1] /\ v8[2] = v7[2] /\ v8[3] = v7[3] /\ v8[4] = v7[4] /\ v8[5] = v7[5]
          /\ v8[6] = v7[6] /\ v8[7] = v7[7]
      <4> HIDE DEF v8
      <4> QED BY <2>2
    <3> HIDE DEF v8
    <3> QED BY <1>7, <3>1, Zenon DEF BeginsSeven
  <2> HIDE DEF v8
  <2>4. Writing(SevenWriter(8, p), 144 + 8, First(v8, 7), m + 35)
    <3>1. Len(v8) \in 7..15
      BY <2>2
    <3>2. Writing(SevenWriter(Len(v8), p), 144 + Len(v8), First(v8, 7), Len(p.macs) + 35)
      BY <1>5, <1>6, <1>9, <2>2, <2>3, <3>1, SevenWritten
    <3> QED BY <1>9, <2>2, <3>2
  <2> DEFINE h == 144 + 8  w8 == mpack_write_u32(SevenWriter(8, p), x)
  <2>5. h \in Byte
    BY DEF Byte
  <2>6. Writing(SevenWriter(8, p), h, First(v8, 7), m + 35)
    BY <2>4
  <2> HIDE DEF h
  <2>7. Writing(w8, h, First(v8, 7 + 1), (m + 35) + 5)
    <3>1. 7 \in Nat /\ 7 < Len(v8) /\ x = v8[7 + 1]
      BY <2>2
    <3> QED BY <1>4, <1>6, <2>2, <2>5, <2>6, <3>1, WritesWord
  <2>8. First(v8, 8) = v8 /\ 7 + 1 = 8 /\ (m + 35) + 5 = m + 40
    <3>1. First(v8, Len(v8)) = v8
      BY <2>2, FirstEnds
    <3>2. (m + 35) + 5 = m + 40
      BY <1>5
    <3> QED BY <2>2, <3>1, <3>2
  <2>9. Len(v8) <= 15 /\ Writing(w8, 144 + Len(v8), v8, m + 40)
    <3>1. h = 144 + Len(v8) /\ Len(v8) <= 15
      BY <2>2 DEF h
    <3> HIDE DEF w8
    <3> QED BY <2>7, <2>8, <3>1
  <2>10. get_serializer(a.type, mpack_writer_init_growable, a.param) = w8
    BY <1>1, <1>2, <1>12, Zenon DEF w
  <2> HIDE DEF newer, w8
  <2> QED BY <1>6, <1>8, <2>1, <2>2, <2>9, <2>10, ArrayBody
<1> QED BY <1>11, <1>12

\* The body of every response the server makes is read back.
LEMMA BodyIsRead == ASSUME NEW a, Fits(a.type, a.param) PROVE BodyRead(a)
BY HeartbeatBody, TextBody, DiscoverBody, AuthorizeBody DEF Fits

---------------------------------------------------------------------------
(* A response is read back. *)

\* Types of packages that are answered.
AnswerTypes == {"AUTHORIZE", "DISCOVER", "TEXT_GET", "HEARTBEAT"}

\* A response the server makes.
IsAnswer(a) ==
    /\ a.direction = "RESPONSE" /\ Fits(a.type, a.param)
    /\ a.uid \in Word32 /\ a.index \in Word32 /\ ~ Negative(a.uid) /\ ~ Negative(a.index)

\* The types that are answered.
LEMMA AnswerType == ASSUME NEW a, IsAnswer(a) PROVE a.type \in AnswerTypes
BY DEF IsAnswer, Fits, AnswerTypes

\* The code of a type that is answered is read back as the type.
LEMMA NamesOfCodes ==
    ASSUME NEW t \in AnswerTypes
    PROVE  TypeCode[t] \in Byte /\ TypeName(TypeCode[t]) = t
<1> DEFINE T == DOMAIN TypeCode
<1>1. T = {"MOUSE_MOVE", "MOUSE_CLICK", "MOUSE_WHEEL", "KEYBOARD", "TEXT_INPUT", "TEXT_GET",
           "DISCOVER", "MOUSE_STOP", "CONTROL", "AUTHORIZE", "HEARTBEAT", "SESSION_OPTION"}
  BY DEF TypeCode
<1>2. t \in T /\ TypeCode[t] \in Byte
  BY DEF TypeCode, AnswerTypes, Byte
<1>3. \A s \in T : TypeCode[s] = TypeCode[t] => s = t
  <2>1. /\ TypeCode["MOUSE_MOVE"] = 1 /\ TypeCode["MOUSE_CLICK"] = 2 /\ TypeCode["MOUSE_WHEEL"] = 3
        /\ TypeCode["KEYBOARD"] = 4 /\ TypeCode["TEXT_INPUT"] = 5 /\ TypeCode["TEXT_GET"] = 6
        /\ TypeCode["DISCOVER"] = 7 /\ TypeCode["MOUSE_STOP"] = 8 /\ TypeCode["CONTROL"] = 9
        /\ TypeCode["AUTHORIZE"] = 10 /\ TypeCode["HEARTBEAT"] = 11 /\ TypeCode["SESSION_OPTION"] = 12
    BY DEF TypeCode
  <2> HIDE DEF T
  <2> QED BY <1>1, <2>1 DEF AnswerTypes
<1> HIDE DEF T
<1>4. (CHOOSE s \in T : TypeCode[s] = TypeCode[t]) = t
  BY <1>2, <1>3
<1>5. TypeName(TypeCode[t]) = CHOOSE s \in T : TypeCode[s] = TypeCode[t]
  BY <1>2, Zenon DEF TypeName, T
<1> QED BY <1>2, <1>4, <1>5

\* The header of a response is four words, which a phone reads back.
LEMMA AnswerHeader ==
    ASSUME NEW a, IsAnswer(a)
    PROVE  /\ SerializedHeader(a) = FourWriter(a.uid, Word(TypeCode[a.type], 4), Word(2, 4), a.index)
           /\ SerializedHeader(a) \in Data /\ Len(SerializedHeader(a)) \in 5..21
           /\ 2 \in Byte /\ TypeCode[a.type] \in Byte /\ TypeName(TypeCode[a.type]) = a.type
<1>1. TypeCode[a.type] \in Byte /\ TypeName(TypeCode[a.type]) = a.type
  BY AnswerType, NamesOfCodes
<1>2. Direction[a.direction] = 2
  <2>1. Direction["RESPONSE"] = 2
    BY DEF Direction
  <2> QED BY <2>1 DEF IsAnswer
<1> DEFINE c == TypeCode[a.type]  u == a.uid  y == a.index
<1>3. SerializedHeader(a) = FourWriter(u, Word(c, 4), Word(2, 4), y)
  BY <1>2, Zenon DEF SerializedHeader, FourWriter
<1>4. c \in Byte /\ u \in Word32 /\ y \in Word32 /\ 2 \in Byte
  BY <1>1 DEF IsAnswer, Byte
<1> HIDE DEF c, u, y
<1> DEFINE v == Word(c, 4)  x == Word(2, 4)
<1>5. v \in Word32 /\ x \in Word32
  BY <1>4, WordOfCode
<1> HIDE DEF v, x
<1>6. HeaderBytes(FourWriter(u, v, x, y), FourForms(u, v, x, y))
  BY <1>4, <1>5, FourWords
<1> QED BY <1>1, <1>3, <1>4, <1>6, Zenon DEF HeaderBytes, c, u, y, v, x

\* The bytes between others.
LEMMA Middle ==
    ASSUME NEW x \in Data, NEW b \in Data, NEW rest \in Data
    PROVE  SubSeq(x \o (b \o rest), Len(x) + 1, Len(x) + Len(b)) = b
<1> DEFINE n == Len(x)  m == Len(b)  d == b \o rest  s == x \o d
<1>1. d \in Data /\ s \in Data /\ n \in Nat /\ m \in Nat /\ Len(rest) \in Nat /\ Len(d) = m + Len(rest)
      /\ Len(s) = n + Len(d)
  BY Cut
<1>2. \A i \in 1..m : s[n + i] = b[i]
  <2>1. x \in Seq(Byte) /\ d \in Seq(Byte) /\ b \in Seq(Byte) /\ rest \in Seq(Byte)
    BY <1>1 DEF Data
  <2>2. \A i \in 1..Len(b) + Len(rest) : d[i] = IF i <= Len(b) THEN b[i] ELSE rest[i - Len(b)]
    BY <2>1, ConcatProperties
  <2>3. \A i \in 1..Len(x) + Len(d) : s[i] = IF i <= Len(x) THEN x[i] ELSE d[i - Len(x)]
    <3> HIDE DEF d
    <3> QED BY <2>1, ConcatProperties
  <2> DEFINE l == Len(rest)
  <2>4. l \in Nat
    BY <1>1
  <2>5. \A i \in 1..m + l : d[i] = IF i <= m THEN b[i] ELSE rest[i - m]
    BY <2>2
  <2>6. \A i \in 1..n + (m + l) : s[i] = IF i <= n THEN x[i] ELSE d[i - n]
    BY <1>1, <2>3
  <2> HIDE DEF n, m, l, d, s
  <2>7. ASSUME NEW i \in 1..m PROVE s[n + i] = b[i]
    <3>1. n + i \in 1..n + (m + l) /\ ~ (n + i <= n) /\ (n + i) - n = i /\ i \in 1..m + l /\ i <= m
      BY <1>1, <2>4
    <3>2. s[n + i] = d[(n + i) - n]
      BY <2>6, <3>1
    <3> QED BY <2>5, <3>1, <3>2
  <2> QED BY <2>7
<1> DEFINE l == Len(rest)
<1>3. l \in Nat /\ Len(s) = n + (m + l)
  BY <1>1
<1> HIDE DEF n, m, l, d, s
<1>4. n + 1 \in Nat \ {0} /\ n + m \in Nat /\ n + 1 <= (n + m) + 1 /\ n + m <= Len(s) /\ (n + m) - (n + 1) + 1 = m
      /\ \A i \in 1..m : (n + 1) + i - 1 = n + i
  BY <1>1, <1>3
<1> DEFINE r == SubSeq(s, n + 1, n + m)
<1>5. r \in Data /\ Len(r) = m /\ \A i \in 1..m : r[i] = s[n + i]
  <2>1. /\ r \in Data /\ Len(r) = (n + m) - (n + 1) + 1
        /\ \A i \in 1..(n + m) - (n + 1) + 1 : r[i] = s[(n + 1) + i - 1]
    BY <1>1, <1>4, PartOfData
  <2> HIDE DEF r
  <2> QED BY <1>4, <2>1
<1> HIDE DEF r
<1>6. r \in Seq(Byte) /\ b \in Seq(Byte) /\ Len(r) = Len(b) /\ \A i \in 1..Len(r) : r[i] = b[i]
  BY <1>2, <1>5 DEF Data, m
<1>7. r = b
  BY <1>6, SeqEqual
<1> QED BY <1>7 DEF r, s, d, n, m

\* A body's place in its package.
LEMMA BodyPlace ==
    ASSUME NEW h \in Data, NEW b \in Data, NEW rest \in Data, Len(h) + Len(b) + 4 < MaxLength
    PROVE  SubSeq(Combined(h, b) \o rest, 9 + Len(h), (Len(h) + Len(b) + 4) + 4) = b
<1> DEFINE n == Len(h)  m == Len(b)  w == Word(n + m + 4, 4)  v == Word(n, 4)  s == Combined(h, b) \o rest
<1>1. w \in Word32 /\ v \in Word32 /\ Pieces5(s, w, v, h, b, rest)
  BY FrameForm
<1>2. s = w \o (v \o (h \o (b \o rest)))
  BY <1>1, Zenon DEF Pieces5
<1>3. n \in Nat /\ m \in Nat
  BY Cut
<1> HIDE DEF s, w, v
<1>4. w \in Data /\ v \in Data /\ Len(w) = 4 /\ Len(v) = 4
  BY <1>1, Word4
<1> DEFINE d == b \o rest  x == w \o (v \o h)
<1>5. d \in Data
  BY JoinedData
<1>6. v \o h \in Data /\ Len(v \o h) = 4 + n
  BY <1>4, Cut, ZenonT(40)
<1>7. x \in Data /\ Len(x) = 4 + (4 + n)
  <2> DEFINE y == v \o h
  <2>1. y \in Data /\ x = w \o y
    BY <1>6
  <2> HIDE DEF y, x
  <2>2. x \in Data /\ Len(x) = Len(w) + Len(y)
    BY <1>4, <2>1, Cut
  <2>3. Len(y) = 4 + n
    BY <1>6 DEF y
  <2>4. Len(w) = 4
    BY <1>4
  <2> QED BY <2>2, <2>3, <2>4
<1>8. s = x \o d
  <2> HIDE DEF d
  <2>1. (v \o h) \o d = v \o (h \o d)
    BY <1>4, <1>5, Assoc, SMTT(30)
  <2>2. (w \o (v \o h)) \o d = w \o ((v \o h) \o d)
    <3> DEFINE y == v \o h
    <3>1. y \in Data /\ w \in Data /\ d \in Data
      BY <1>4, <1>5, <1>6
    <3> HIDE DEF y
    <3>2. (w \o y) \o d = w \o (y \o d)
      BY <3>1, Assoc, SMTT(30)
    <3> QED BY <3>2 DEF y
  <2>3. s = w \o (v \o (h \o d))
    BY <1>2, Zenon DEF d
  <2> HIDE DEF x
  <2>4. x = w \o (v \o h)
    BY DEF x
  <2> QED BY <2>1, <2>2, <2>3, <2>4
<1> HIDE DEF x
<1>9. SubSeq(x \o (b \o rest), Len(x) + 1, Len(x) + Len(b)) = b
  BY <1>7, Middle
<1>10. Len(x) + 1 = 9 + n /\ Len(x) + m = (n + m + 4) + 4
  <2> HIDE DEF n, m
  <2> QED BY <1>3, <1>7
<1>11. SubSeq(s, 9 + n, (n + m + 4) + 4) = b
  BY <1>8, <1>9, <1>10
<1> QED BY <1>11 DEF s

\* The size a response announces.
BodySize(a) == Len(SerializedHeader(a)) + Len(BodyOf(a)) + 4

\* What ya_serialize_event makes of a response: a header and a body, below MaxLength
\* together.
LEMMA AnswerParts ==
    ASSUME NEW a, IsAnswer(a)
    PROVE  /\ BodyRead(a) /\ BodyOf(a) \in Data /\ SerializedHeader(a) \in Data
           /\ BodySize(a) \in Nat /\ BodySize(a) < MaxLength
           /\ ya_serialize_event(a) = Combined(SerializedHeader(a), BodyOf(a))
<1>1. BodyRead(a)
  BY BodyIsRead DEF IsAnswer
<1>2. BodyOf(a) \in Data /\ Len(BodyOf(a)) < Half + 100
  BY <1>1 DEF BodyRead
<1>3. SerializedHeader(a) \in Data /\ Len(SerializedHeader(a)) \in 5..21
  BY AnswerHeader
<1> DEFINE n == Len(SerializedHeader(a))  m == Len(BodyOf(a))
<1>4. n \in 5..21 /\ m \in Nat /\ m < Half + 100
  BY <1>2, <1>3, Cut
<1>5. n + m + 4 \in Nat /\ n + m + 4 < MaxLength
  <2> HIDE DEF n, m
  <2> QED BY <1>4 DEF Half, MaxLength
<1>6. ya_serialize_event(a) = Combined(SerializedHeader(a), BodyOf(a))
  BY Zenon DEF ya_serialize_event, BodyOf
<1> QED BY <1>1, <1>2, <1>3, <1>5, <1>6 DEF BodySize

\* The package of a response, whatever comes after it: what ya_get_package_size and the
\* phone make of it.
LEMMA AnswerDecodes ==
    ASSUME NEW a, IsAnswer(a), NEW rest \in Data
    PROVE  LET s == ya_serialize_event(a)
           IN  /\ s \in Data /\ Len(s) = BodySize(a) + 4 /\ BodySize(a) \in Nat
               /\ ya_get_package_size(s \o rest).total = BodySize(a)
               /\ Decoded(s \o rest) = Announced(a)
<1> DEFINE s == ya_serialize_event(a)  h == SerializedHeader(a)  b == BodyOf(a)
           n == Len(h)  m == Len(b)  bytes == s \o rest  c == TypeCode[a.type]
<1>1. BodyRead(a) /\ b \in Data /\ h \in Data /\ BodySize(a) \in Nat /\ BodySize(a) < MaxLength /\ s = Combined(h, b)
  BY AnswerParts
<1>2. BodySize(a) = n + m + 4 /\ n + m + 4 < MaxLength /\ n \in Nat /\ m \in Nat
  BY <1>1, Cut DEF BodySize
<1>3. h = FourWriter(a.uid, Word(c, 4), Word(2, 4), a.index) /\ c \in Byte /\ 2 \in Byte /\ TypeName(c) = a.type
  BY AnswerHeader
<1>4. a.uid \in Word32 /\ a.index \in Word32 /\ ~ Negative(a.uid) /\ ~ Negative(a.index)
  BY DEF IsAnswer
<1> HIDE DEF s, h, b, c
<1>5. s \in Data /\ Len(s) = n + m + 8
  BY <1>1, <1>2, FrameForm
<1>6. /\ ya_get_package_size(bytes) = [total |-> n + m + 4, header |-> n, body |-> m]
      /\ Drop(bytes, 8) = h \o (b \o rest)
  BY <1>1, <1>2, PackageSize
<1>7. SubSeq(bytes, 9 + n, (n + m + 4) + 4) = b
  BY <1>1, <1>2, BodyPlace
<1>8. b \o rest \in Data
  BY <1>1, JoinedData
<1> DEFINE u == a.uid  y == a.index  o == 2
<1>9. ya_parse_event_header(h \o (b \o rest), n) = HeaderFields(u, c, o, y)
  <2>1. u \in Word32 /\ y \in Word32 /\ o \in Byte /\ h = FourWriter(u, Word(c, 4), Word(o, 4), y) /\ c \in Byte
        /\ ~ Negative(u) /\ ~ Negative(y)
    BY <1>3, <1>4
  <2> HIDE DEF u, y, o
  <2> QED BY <1>8, <2>1, HeaderBack
<1> DEFINE size == ya_get_package_size(bytes)  hd == HeaderFields(u, c, o, y)  k == n + m + 4
<1>10. size.total = k /\ size.header = n
  BY <1>6
<1>11. hd.type = c /\ hd.uid = u /\ hd.index = y
  BY DEF HeaderFields
<1> HIDE DEF bytes, size, hd, u, y, o, n, m, k
<1>12. ya_parse_event_header(Drop(bytes, 8), size.header) = hd
  BY <1>6, <1>9, <1>10 DEF hd
<1>13. SubSeq(bytes, 9 + size.header, size.total + 4) = b
  BY <1>7, <1>10 DEF k
<1>14. ReadBody(a.type, b) = Result(Ok(<<>>), Values(a))
  BY <1>1 DEF BodyRead, b
<1> DEFINE rd == ReadBody(a.type, b)  z == mpack_reader_init_data(<<>>)
<1>15. rd.r = z /\ rd.v = Values(a)
  <2>1. \A q, x : Result(q, x).r = q /\ Result(q, x).v = x
    BY DEF Result
  <2>2. z = Ok(<<>>)
    BY Zenon DEF Ok, mpack_reader_init_data
  <2> HIDE DEF z
  <2> QED BY <1>14, <2>1, <2>2
<1>16. Decoded(bytes) = [type |-> TypeName(hd.type), uid |-> hd.uid, index |-> hd.index,
                         values |-> ReadBody(TypeName(hd.type), b).v,
                         whole |-> ReadBody(TypeName(hd.type), b).r = z]
  BY <1>12, <1>13, Zenon DEF Decoded, ReadBody, size
<1>17. TypeName(hd.type) = a.type
  BY <1>3, <1>11
<1> HIDE DEF rd, z
<1>18. Decoded(bytes) = [type |-> a.type, uid |-> u, index |-> y, values |-> rd.v, whole |-> rd.r = z]
  BY <1>11, <1>16, <1>17, Zenon DEF rd
<1>19. (rd.r = z) = TRUE
  BY <1>15
<1>20. Decoded(bytes) = Announced(a)
  BY <1>15, <1>18, <1>19, Zenon DEF Announced, u, y
<1>21. Len(s) = BodySize(a) + 4
  BY <1>1, <1>2, <1>5
<1>22. size.total = BodySize(a)
  BY <1>2, <1>10 DEF k
<1> QED BY <1>1, <1>5, <1>20, <1>21, <1>22 DEF bytes, size, s

---------------------------------------------------------------------------
(* Responses, one after another. *)

\* Dropping from the front does not touch what is appended.
LEMMA DropMore ==
    ASSUME NEW d \in Data, NEW e \in Data, NEW k \in Nat, k <= Len(d)
    PROVE  Drop(d \o e, k) = Drop(d, k) \o e
<1>1. PICK p \in Data, q \in Data : p = SubSeq(d, 1, k) /\ q = Drop(d, k) /\ p \o q = d
  BY PieceArrives
<1>2. Len(p) = k
  <2>1. 1 <= k + 1 /\ 1 \in Nat \ {0} /\ k - 1 + 1 = k
    OBVIOUS
  <2>2. Len(SubSeq(d, 1, k)) = k - 1 + 1
    BY <2>1, PartOfData
  <2> QED BY <1>1, <2>1, <2>2
<1>3. PICK f \in Data : f = q \o e
  BY JoinedData
<1>4. (p \o q) \o e = p \o f
  BY <1>3, Assoc, SMTT(30)
<1>5. Drop(p \o f, Len(p)) = f
  BY Cut
<1> QED BY <1>1, <1>2, <1>3, <1>4, <1>5

\* Dropping everything, and nothing.
LEMMA DropAll ==
    ASSUME NEW d \in Data
    PROVE  Drop(d, Len(d)) = <<>> /\ Drop(d, 0) = d /\ Len(d) \in Nat
BY DEF Drop, Data

\* Where the packages of the responses s begin in the bytes, and where the last one ends.
Segments(bytes, s, g) ==
    /\ g[0] = 0 /\ g[Len(s)] = Len(bytes)
    /\ \A i \in 0..Len(s) : g[i] \in 0..Len(bytes)
    /\ \A i \in 1..Len(s) :
          /\ g[i] = g[i - 1] + Len(ya_serialize_event(s[i]))
          /\ \E rest \in Data : Drop(bytes, g[i - 1]) = ya_serialize_event(s[i]) \o rest

\* The bytes are the packages of the responses s.
AnsweredBy(bytes, s) ==
    /\ bytes \in Data /\ Len(s) \in Nat /\ \A i \in 1..Len(s) : IsAnswer(s[i])
    /\ \E g : Segments(bytes, s, g)

\* No response, no byte.
LEMMA NoneAnswered == AnsweredBy(<<>>, <<>>)
<1> DEFINE g == [i \in 0..0 |-> 0]
<1>1. <<>> \in Data /\ Len(<<>>) = 0
  BY DEF Data
<1>2. g[0] = 0 /\ \A i \in 0..0 : g[i] \in 0..0
  OBVIOUS
<1>3. \A i \in 1..0 : FALSE
  OBVIOUS
<1> HIDE DEF g
<1>4. Segments(<<>>, <<>>, g)
  BY <1>1, <1>2, <1>3 DEF Segments
<1> QED BY <1>1, <1>3, <1>4 DEF AnsweredBy

\* One more response, behind the others.
LEMMA OneMoreAnswered ==
    ASSUME NEW bytes, NEW s, AnsweredBy(bytes, s), NEW a, IsAnswer(a),
           NEW t, Len(t) = Len(s) + 1, t[Len(s) + 1] = a, \A i \in 1..Len(s) : t[i] = s[i]
    PROVE  AnsweredBy(bytes \o ya_serialize_event(a), t)
<1> DEFINE e == ya_serialize_event(a)  n == Len(s)  l == Len(bytes)  m == Len(e)  b == bytes \o e
<1>1. PICK g : Segments(bytes, s, g)
  BY DEF AnsweredBy
<1>2. bytes \in Data /\ n \in Nat /\ \A i \in 1..n : IsAnswer(s[i])
  BY DEF AnsweredBy
<1>3. <<>> \in Data /\ e \in Data
  <2>1. <<>> \in Data
    BY DEF Data
  <2> QED BY <2>1, AnswerDecodes
<1> HIDE DEF e
<1>4. b \in Data /\ Len(b) = l + m /\ l \in Nat /\ m \in Nat
  BY <1>2, <1>3, Cut
<1>5. /\ g[0] = 0 /\ g[n] = l
      /\ \A i \in 0..n : g[i] \in 0..l
      /\ \A i \in 1..n : g[i] = g[i - 1] + Len(ya_serialize_event(s[i]))
                         /\ \E rest \in Data : Drop(bytes, g[i - 1]) = ya_serialize_event(s[i]) \o rest
  BY <1>1 DEF Segments
<1>6. Len(t) = n + 1 /\ t[n + 1] = a /\ \A i \in 1..n : t[i] = s[i]
  OBVIOUS
<1>7. \A k \in 0..l : Drop(b, k) = Drop(bytes, k) \o e
  <2>1. TAKE k \in 0..l
  <2>2. k \in Nat /\ k <= Len(bytes)
    BY <1>4
  <2> QED BY <1>2, <1>3, <2>2, DropMore
<1>8. Drop(bytes, l) = <<>> /\ e \o <<>> = e /\ <<>> \o e = e
  BY <1>2, <1>3, DropAll, JoinedEmpty
<1> DEFINE h == [i \in 0..n + 1 |-> IF i = n + 1 THEN l + m ELSE g[i]]
<1> HIDE DEF b, n, l, m
<1>9. h[n + 1] = l + m /\ \A i \in 0..n : h[i] = g[i]
  BY <1>2
<1> HIDE DEF h
<1>10. \A i \in 0..n + 1 : h[i] \in 0..l + m
  <2>1. TAKE i \in 0..n + 1
  <2>2. l \in Nat /\ m \in Nat
    BY <1>4 DEF l, m
  <2>3. i = n + 1 \/ i \in 0..n
    BY <1>2
  <2>4. CASE i = n + 1
    <3>1. h[i] = l + m
      BY <1>9, <2>4
    <3> QED BY <2>2, <3>1
  <2>5. CASE i \in 0..n
    <3>1. h[i] \in 0..l
      BY <1>5, <1>9, <2>5
    <3> QED BY <2>2, <3>1
  <2> QED BY <2>3, <2>4, <2>5
<1>11. ASSUME NEW i \in 1..n + 1
       PROVE  h[i] = h[i - 1] + Len(ya_serialize_event(t[i]))
              /\ \E rest \in Data : Drop(b, h[i - 1]) = ya_serialize_event(t[i]) \o rest
  <2>1. CASE i \in 1..n
    <3>1. h[i] = g[i] /\ h[i - 1] = g[i - 1] /\ t[i] = s[i] /\ g[i - 1] \in 0..l
      BY <1>2, <1>5, <1>6, <1>9, <2>1, SMTT(30)
    <3>2. PICK rest \in Data : Drop(bytes, g[i - 1]) = ya_serialize_event(s[i]) \o rest
      BY <1>5, <2>1
    <3> DEFINE f == ya_serialize_event(s[i])
    <3>3. f \in Data
      <4>1. IsAnswer(s[i])
        BY <1>2, <2>1
      <4> QED BY <4>1, AnswerDecodes
    <3>4. Drop(b, h[i - 1]) = (f \o rest) \o e
      BY <1>7, <3>1, <3>2
    <3>5. h[i] = h[i - 1] + Len(ya_serialize_event(t[i])) /\ f = ya_serialize_event(t[i])
      BY <1>5, <2>1, <3>1
    <3> HIDE DEF f
    <3>6. (f \o rest) \o e = f \o (rest \o e)
      BY <1>3, <3>3, Assoc, SMTT(30)
    <3>7. rest \o e \in Data
      BY <1>3, JoinedData
    <3> QED BY <3>4, <3>5, <3>6, <3>7
  <2>2. CASE i = n + 1
    <3>1. h[i] = l + m /\ h[i - 1] = l /\ t[i] = a
      <4>1. i - 1 = n /\ n \in 0..n
        BY <1>2, <2>2
      <4> QED BY <1>5, <1>6, <1>9, <2>2, <4>1
    <3>2. Drop(b, l) = e \o <<>>
      <4>1. l \in 0..l
        BY <1>4
      <4> QED BY <1>7, <1>8, <4>1
    <3>3. ya_serialize_event(t[i]) = e
      BY <3>1 DEF e
    <3> QED BY <1>3, <3>1, <3>2, <3>3 DEF m
  <2>3. i \in 1..n \/ i = n + 1
    BY <1>2
  <2> QED BY <2>1, <2>2, <2>3
<1>12. h[0] = 0 /\ Len(t) \in Nat
  BY <1>2, <1>5, <1>6, <1>9
<1>13. Segments(b, t, h)
  BY <1>4, <1>6, <1>9, <1>10, <1>11, <1>12 DEF Segments
<1>14. ASSUME NEW i \in 1..Len(t) PROVE IsAnswer(t[i])
  <2>1. i \in 1..n \/ i = n + 1
    BY <1>2, <1>6
  <2> QED BY <1>2, <1>6, <2>1
<1> QED BY <1>4, <1>12, <1>13, <1>14 DEF AnsweredBy, b, e

\* The recursion of Decodes: where packages begin.
StartsFrom(bytes, n, f) ==
    f = [i \in 0..n |-> IF i = 0 THEN 0
                        ELSE f[i - 1] + ya_get_package_size(Drop(bytes, f[i - 1])).total + 4]

\* The packages of responses decode into the responses, one after another.
LEMMA AnsweredDecodes ==
    ASSUME NEW bytes, NEW s, AnsweredBy(bytes, s)
    PROVE  Decodes(bytes, s)
<1> DEFINE n == Len(s)  f == CHOOSE f : StartsFrom(bytes, n, f)
<1>1. PICK g0 : Segments(bytes, s, g0)
  BY DEF AnsweredBy
<1>2. bytes \in Data /\ n \in Nat /\ \A i \in 1..n : IsAnswer(s[i])
  BY DEF AnsweredBy
<1> DEFINE g == [i \in 0..n |-> g0[i]]  l == Len(bytes)
<1>3. l \in Nat
  BY <1>2, DropAll
<1>4. /\ g[0] = 0 /\ g[n] = l
      /\ \A i \in 0..n : g[i] \in 0..l
      /\ \A i \in 1..n : g[i] = g[i - 1] + Len(ya_serialize_event(s[i]))
                         /\ \E rest \in Data : Drop(bytes, g[i - 1]) = ya_serialize_event(s[i]) \o rest
  <2>1. /\ g0[0] = 0 /\ g0[n] = l
        /\ \A i \in 0..n : g0[i] \in 0..l
        /\ \A i \in 1..n : g0[i] = g0[i - 1] + Len(ya_serialize_event(s[i]))
                           /\ \E rest \in Data : Drop(bytes, g0[i - 1]) = ya_serialize_event(s[i]) \o rest
    BY <1>1 DEF Segments
  <2>2. \A i \in 0..n : g[i] = g0[i]
    OBVIOUS
  <2>3. 0 \in 0..n /\ n \in 0..n /\ \A i \in 1..n : i \in 0..n /\ i - 1 \in 0..n
    BY <1>2
  <2> HIDE DEF g, l, n
  <2> QED BY <2>1, <2>2, <2>3
<1>5. g = [i \in 0..n |-> g[i]]
  OBVIOUS
<1> HIDE DEF g, l
<1>6. ASSUME NEW i \in 1..n
      PROVE  /\ ya_get_package_size(Drop(bytes, g[i - 1])).total + 4 = Len(ya_serialize_event(s[i]))
             /\ g[i] = g[i - 1] + ya_get_package_size(Drop(bytes, g[i - 1])).total + 4
             /\ Decoded(Drop(bytes, g[i - 1])) = Announced(s[i])
  <2>1. PICK rest \in Data : Drop(bytes, g[i - 1]) = ya_serialize_event(s[i]) \o rest
    BY <1>4
  <2> DEFINE e == ya_serialize_event(s[i])  z == BodySize(s[i])  k == Len(e)
  <2>2. /\ z \in Nat /\ k = z + 4
        /\ ya_get_package_size(e \o rest).total = z /\ Decoded(e \o rest) = Announced(s[i])
    <3>1. IsAnswer(s[i])
      BY <1>2
    <3> QED BY <3>1, AnswerDecodes
  <2>3. g[i] = g[i - 1] + k
    BY <1>4
  <2>4. g[i - 1] \in Nat
    <3>1. i - 1 \in 0..n
      BY <1>2
    <3> QED BY <1>3, <1>4, <3>1
  <2>5. ya_get_package_size(Drop(bytes, g[i - 1])).total = z /\ Decoded(Drop(bytes, g[i - 1])) = Announced(s[i])
    BY <2>1, <2>2
  <2> HIDE DEF z, k, e
  <2>6. g[i - 1] + k = g[i - 1] + z + 4 /\ z + 4 = k
    BY <2>2, <2>4, SMT
  <2> QED BY <2>3, <2>5, <2>6 DEF k, e
<1> HIDE DEF n
<1>7. StartsFrom(bytes, n, g)
  <2>1. \A i \in 0..n : g[i] = IF i = 0 THEN 0 ELSE g[i - 1] + ya_get_package_size(Drop(bytes, g[i - 1])).total + 4
    <3>1. TAKE i \in 0..n
    <3>2. CASE i = 0
      BY <1>4, <3>2
    <3>3. CASE i # 0
      <4>1. i \in 1..n
        BY <1>2, <3>3
      <4> QED BY <1>6, <3>3, <4>1
    <3> QED BY <3>2, <3>3
  <2>2. g = [i \in 0..n |-> IF i = 0 THEN 0 ELSE g[i - 1] + ya_get_package_size(Drop(bytes, g[i - 1])).total + 4]
    BY <1>5, <2>1
  <2> QED BY <2>2, Zenon DEF StartsFrom
<1>8. StartsFrom(bytes, n, f)
  BY <1>7
<1> HIDE DEF f
<1>9. \A i \in 0..n : f[i] = g[i]
  <2> DEFINE T == {i \in 0..n : f[i] # g[i]}
  <2>1. SUFFICES ASSUME T # {} PROVE FALSE
    OBVIOUS
  <2>2. PICK m \in T : \A k \in T : m <= k
    <3>1. T \in SUBSET Nat
      OBVIOUS
    <3> HIDE DEF T
    <3> QED BY <2>1, <3>1, LeastElement
  <2>3. CASE m = 0
    BY <1>7, <1>8, <2>3 DEF StartsFrom
  <2>4. CASE m # 0
    <3>1. m \in 0..n /\ m - 1 \in 0..n /\ ~ (m <= m - 1)
      <4>1. m \in 0..n
        OBVIOUS
      <4> HIDE DEF T
      <4> QED BY <1>2, <2>4, <4>1
    <3>2. f[m - 1] = g[m - 1]
      BY <2>2, <3>1
    <3> DEFINE P(x) == ya_get_package_size(Drop(bytes, x)).total
    <3>3. f[m] = f[m - 1] + P(f[m - 1]) + 4
      BY <1>8, <2>4, <3>1 DEF StartsFrom
    <3>4. g[m] = g[m - 1] + P(g[m - 1]) + 4
      BY <1>7, <2>4, <3>1 DEF StartsFrom
    <3> HIDE DEF P
    <3> QED BY <2>2, <3>2, <3>3, <3>4
  <2> QED BY <2>3, <2>4
<1>10. f[n] = Len(bytes)
  <2>1. n \in 0..n
    BY <1>2
  <2> QED BY <1>4, <1>9, <2>1 DEF l
<1>11. ASSUME NEW i \in 1..n PROVE Decoded(Drop(bytes, f[i - 1])) = Announced(s[i])
  <2>1. i - 1 \in 0..n
    BY <1>2
  <2> QED BY <1>6, <1>9, <2>1
<1>12. n = Len(s)
  BY DEF n
<1> QED BY <1>10, <1>11, Zenon DEF Decodes, f, n, StartsFrom

---------------------------------------------------------------------------
(* The addresses of the machine's adapters. *)

\* Counting up to n.
LEMMA UpTo ==
    ASSUME NEW n \in Nat, NEW P, 0 \in P, \A k \in 1..n : k - 1 \in P => k \in P
    PROVE  \A k \in 0..n : k \in P
<1> SUFFICES ASSUME NEW k \in 0..n, k \notin P PROVE FALSE
  OBVIOUS
<1> DEFINE Q == {j \in 0..n : j \notin P}
<1>1. Q \in SUBSET Nat /\ Q # {}
  OBVIOUS
<1>2. PICK m \in Q : \A j \in Q : m <= j
  <2> HIDE DEF Q
  <2> QED BY <1>1, LeastElement
<1>3. m \in 0..n /\ m \notin P
  BY <1>2
<1>4. m # 0
  BY <1>3
<1>5. m \in 1..n /\ m - 1 \in 0..n /\ ~ m <= m - 1
  BY <1>3, <1>4
<1>6. m - 1 \in P
  BY <1>2, <1>5
<1> QED BY <1>3, <1>5, <1>6

\* What getifaddrs or GetAdaptersAddresses may say of an adapter.
AdapterKinds == [addressed : BOOLEAN, loopback : BOOLEAN, tunnel : BOOLEAN, link : BOOLEAN, bytes : Data]

\* Adapters of which six bytes are told.
SixBytes == {a \in AdapterKinds : Len(a.bytes) = 6}

\* ya_get_macs_csv passes over every adapter that has not six bytes, on every platform,
\* and tells of no more adapters than there are.
LEMMA EligibleAre ==
    ASSUME NEW windows \in BOOLEAN, NEW adapters \in Seq(AdapterKinds)
    PROVE  LET told == Eligible(windows, adapters)
           IN  told \in Seq(SixBytes) /\ Len(told) \in 0..Len(adapters) /\ Len(adapters) \in Nat
<1> DEFINE n == Len(adapters)
           Passes(a) == IF windows THEN OnWindows(a) ELSE OnUnix(a)
           With(before, a) == IF Passes(a) THEN Append(before, a) ELSE before
           Is(C) == C = [i \in 0..n |-> IF i = 0 THEN <<>> ELSE With(C[i - 1], adapters[i])]
           T == Seq(SixBytes)
           f == [x \in T \X (1..n) |-> With(x[1], adapters[x[2]])]
<1>1. n \in Nat /\ \A i \in 1..n : adapters[i] \in AdapterKinds
  OBVIOUS
<1>2. \A a \in AdapterKinds : Passes(a) => a \in SixBytes
  BY DEF OnWindows, OnUnix, Physical, SixBytes
<1> HIDE DEF Passes
<1>3. \A t \in T : \A i \in 1..n : With(t, adapters[i]) \in T /\ Len(t) \in Nat /\ Len(With(t, adapters[i])) <= Len(t) + 1
  <2>1. TAKE t \in T
  <2>2. TAKE i \in 1..n
  <2> DEFINE a == adapters[i]
  <2>3. a \in AdapterKinds
    BY <1>1
  <2> HIDE DEF a, n
  <2>4. Len(t) \in Nat
    OBVIOUS
  <2>5. CASE Passes(a)
    <3>1. Append(t, a) \in T /\ Len(Append(t, a)) = Len(t) + 1
      BY <1>2, <2>3, <2>5
    <3> QED BY <2>4, <2>5, <3>1 DEF a
  <2>6. CASE ~ Passes(a)
    BY <2>4, <2>6 DEF a
  <2> QED BY <2>5, <2>6
<1>4. \A t \in T : \A i \in 1..n : f[<<t, i>>] = With(t, adapters[i])
  OBVIOUS
<1>5. <<>> \in T /\ Len(<<>>) = 0
  OBVIOUS
<1> HIDE DEF With, n, T
<1>6. \E C : Is(C) /\ C \in [0..n -> T]
  <2>1. \A t \in T : \A i \in 1..n : f[<<t, i>>] \in T
    BY <1>3, <1>4, Zenon
  <2> HIDE DEF f
  <2>2. PICK g : Loops(T, n, <<>>, f, g)
    BY <1>1, <1>5, <2>1, LoopExists
  <2>3. g \in [0..n -> T] /\ g[0] = <<>> /\ \A i \in 1..n : g[i] = f[<<g[i - 1], i>>]
    BY <2>2 DEF Loops
  <2>4. ASSUME NEW i \in 0..n PROVE g[i] = IF i = 0 THEN <<>> ELSE With(g[i - 1], adapters[i])
    <3>1. CASE i = 0
      BY <2>3, <3>1
    <3>2. CASE i # 0
      <4>1. i \in 1..n /\ i - 1 \in 0..n
        BY <1>1, <3>2
      <4>2. g[i - 1] \in T
        BY <2>3, <4>1
      <4> QED BY <1>4, <2>3, <3>2, <4>1, <4>2
    <3> QED BY <3>1, <3>2
  <2>5. g = [i \in 0..n |-> IF i = 0 THEN <<>> ELSE With(g[i - 1], adapters[i])]
    BY <2>3, <2>4
  <2> QED BY <2>3, <2>5
<1> DEFINE C == CHOOSE C : Is(C)
<1>7. Is(C)
  <2> HIDE DEF Is
  <2> QED BY <1>6, Zenon
<1>8. Eligible(windows, adapters) = C[n]
  BY Zenon DEF Eligible, With, Passes, n
<1>9. C[0] = <<>> /\ \A i \in 1..n : C[i] = With(C[i - 1], adapters[i])
  <2> HIDE DEF C
  <2> QED BY <1>1, <1>7
<1> HIDE DEF C
<1> DEFINE P == {i \in 0..n : C[i] \in T /\ Len(C[i]) \in 0..i}
<1>10. 0 \in P
  BY <1>1, <1>5, <1>9
<1>11. ASSUME NEW i \in 1..n, i - 1 \in P PROVE i \in P
  <2>1. i \in 0..n /\ i - 1 \in Nat /\ C[i - 1] \in T /\ Len(C[i - 1]) \in 0..i - 1
    BY <1>1, <1>11
  <2> DEFINE t == C[i - 1]  u == With(t, adapters[i])
  <2>2. u \in T /\ Len(t) \in Nat /\ Len(u) <= Len(t) + 1 /\ C[i] = u
    BY <1>3, <1>9, <2>1
  <2>3. Len(u) \in Nat
    BY <2>2 DEF T
  <2> HIDE DEF t, u
  <2>4. Len(u) \in 0..i
    BY <2>1, <2>2, <2>3 DEF t
  <2> QED BY <2>1, <2>2, <2>4
<1>12. n \in P
  <2>1. n \in 0..n
    BY <1>1
  <2> HIDE DEF P
  <2> QED BY <1>1, <1>10, <1>11, <2>1, UpTo
<1> QED BY <1>1, <1>8, <1>12 DEF n, T

\* No digit is a comma.
LEMMA DigitByte == ASSUME NEW d \in 0..15 PROVE Digit(d) \in Byte /\ Digit(d) # Comma
BY DEF Digit, Byte, Comma

\* format_mac_lower_colon: 17 bytes, none of them a comma.
LEMMA MacText ==
    ASSUME NEW bytes \in Data, Len(bytes) = 6
    PROVE  LET mac == format_mac_lower_colon(bytes)
           IN  mac \in Data /\ Len(mac) = 17 /\ \A i \in 1..17 : mac[i] # Comma
<1> DEFINE D(i) == CASE i % 3 = 0 -> Colon
                     [] i % 3 = 1 -> Digit(bytes[i \div 3 + 1] \div 16)
                     [] i % 3 = 2 -> Digit(bytes[i \div 3 + 1] % 16)
           mac == [i \in 1..17 |-> D(i)]
<1>0. \A k \in 1..6 : bytes[k] \in 0..255
  <2>1. \A k \in 1..6 : bytes[k] \in Byte
    BY SMTT(30) DEF Data
  <2> QED BY <2>1 DEF Byte
<1>1. format_mac_lower_colon(bytes) = mac
  BY Zenon DEF format_mac_lower_colon
<1>2. ASSUME NEW i \in 1..17 PROVE D(i) \in Byte /\ D(i) # Comma
  <2>1. CASE i % 3 = 0
    <3>1. D(i) = Colon
      BY <2>1
    <3>2. Colon \in Byte /\ Colon # Comma
      BY DEF Colon, Comma, Byte
    <3> HIDE DEF D
    <3> QED BY <3>1, <3>2
  <2>2. CASE i % 3 # 0
    <3>1. i \div 3 + 1 \in 1..6 /\ i % 3 \in {1, 2}
      BY <2>2
    <3> DEFINE k == i \div 3 + 1
               b == bytes[k]
    <3>2. b \in 0..255
      <4>1. k \in 1..6
        BY <3>1
      <4> HIDE DEF k
      <4> QED BY <1>0, <4>1
    <3> HIDE DEF b
    <3>3. b \div 16 \in 0..15 /\ b % 16 \in 0..15
      BY <3>2
    <3>4. D(i) = Digit(b \div 16) \/ D(i) = Digit(b % 16)
      <4>1. CASE i % 3 = 1
        BY <4>1 DEF b, k
      <4>2. CASE i % 3 = 2
        BY <4>2 DEF b, k
      <4> QED BY <3>1, <4>1, <4>2
    <3> HIDE DEF D
    <3> QED BY <3>3, <3>4, DigitByte
  <2> QED BY <2>1, <2>2
<1> HIDE DEF D
<1>3. \A i \in 1..17 : mac[i] = D(i)
  OBVIOUS
<1>4. mac \in Seq(Byte) /\ Len(mac) = 17
  BY <1>2
<1> QED BY <1>1, <1>2, <1>3, <1>4 DEF Data

\* The doubled buffer has room for what was asked for and one byte more.
LEMMA GrownPast ==
    ASSUME NEW capacity \in Nat \ {0}, NEW n \in Nat
    PROVE  Grown(capacity, n) \in Nat /\ Grown(capacity, n) > n
<1> DEFINE Enough(c) == IF n < c THEN c ELSE 2 * c
           Is(D) == D = [k \in 0..n |-> IF k = 0 THEN capacity ELSE Enough(D[k - 1])]
           f == [x \in Nat \X (1..n) |-> Enough(x[1])]
<1>1. \E D : Is(D)
  <2>1. \A t \in Nat : \A k \in 1..n : f[<<t, k>>] = Enough(t) /\ Enough(t) \in Nat
    OBVIOUS
  <2> HIDE DEF f, Enough
  <2>2. PICK g : Loops(Nat, n, capacity, f, g)
    BY <2>1, LoopExists
  <2>3. g \in [0..n -> Nat] /\ g[0] = capacity /\ \A k \in 1..n : g[k] = f[<<g[k - 1], k>>]
    BY <2>2 DEF Loops
  <2>4. ASSUME NEW k \in 0..n PROVE g[k] = IF k = 0 THEN capacity ELSE Enough(g[k - 1])
    <3>1. CASE k = 0
      BY <2>3, <3>1
    <3>2. CASE k # 0
      <4>1. k \in 1..n /\ k - 1 \in 0..n
        BY <3>2
      <4>2. g[k - 1] \in Nat
        BY <2>3, <4>1
      <4> QED BY <2>1, <2>3, <3>2, <4>1, <4>2
    <3> QED BY <3>1, <3>2
  <2>5. g = [k \in 0..n |-> IF k = 0 THEN capacity ELSE Enough(g[k - 1])]
    BY <2>3, <2>4
  <2> QED BY <2>5
<1> DEFINE D == CHOOSE D : Is(D)
<1>2. Is(D)
  <2> HIDE DEF Is
  <2> QED BY <1>1, Zenon
<1>3. Grown(capacity, n) = D[n]
  BY Zenon DEF Grown, Enough
<1>4. D[0] = capacity /\ \A k \in 1..n : D[k] = Enough(D[k - 1])
  <2> HIDE DEF D, Enough
  <2> QED BY <1>2
<1> HIDE DEF D
<1> DEFINE P == {k \in 0..n : D[k] \in Nat /\ D[k] > k}
<1>5. 0 \in P
  BY <1>4
<1>6. ASSUME NEW k \in 1..n, k - 1 \in P PROVE k \in P
  <2> DEFINE c == D[k - 1]
  <2>1. c \in Nat /\ c > k - 1 /\ D[k] = Enough(c)
    BY <1>4, <1>6
  <2> HIDE DEF c
  <2>2. Enough(c) \in Nat /\ Enough(c) > k
    BY <2>1
  <2> QED BY <2>1, <2>2
<1>7. n \in P
  <2> HIDE DEF P
  <2> QED BY <1>5, <1>6, UpTo
<1> QED BY <1>3, <1>7

\* The text of an adapter's address.
MacOf(a) == format_mac_lower_colon(a.bytes)

\* MacText, for an adapter.
LEMMA MacIs ==
    ASSUME NEW a \in SixBytes
    PROVE  MacOf(a) \in Data /\ Len(MacOf(a)) = 17 /\ \A k \in 1..17 : MacOf(a)[k] # Comma
<1>1. a.bytes \in Data /\ Len(a.bytes) = 6
  BY DEF SixBytes, AdapterKinds
<1> DEFINE b == a.bytes
<1> HIDE DEF b
<1>2. LET mac == format_mac_lower_colon(b)
      IN  mac \in Data /\ Len(mac) = 17 /\ \A i \in 1..17 : mac[i] # Comma
  BY <1>1, MacText DEF b
<1> QED BY <1>2, Zenon DEF MacOf, b

\* The length of i addresses with commas between them.
CsvSize(i) == IF i = 0 THEN 0 ELSE 18 * i - 1

\* The buffer holds the addresses of the first i adapters told of, commas between them.
CsvOf(buffer, told, i) ==
    /\ buffer.text \in Data /\ buffer.capacity \in Nat \ {0}
    /\ Len(buffer.text) = CsvSize(i)
    /\ Len(buffer.text) + 1 <= buffer.capacity
    /\ \A j \in 1..i : \A k \in 1..17 : buffer.text[18 * (j - 1) + k] = MacOf(told[j])[k]
    /\ \A j \in 1..i - 1 : buffer.text[18 * j] = Comma

\* The buffer of ya_get_macs_csv.
Buffers == [capacity : Nat \ {0}, text : Data]

\* The bytes of one part and of the other.
LEMMA BytesOfJoined ==
    ASSUME NEW d \in Data, NEW e \in Data
    PROVE  /\ d \o e \in Data /\ Len(d \o e) = Len(d) + Len(e)
           /\ \A k \in 1..Len(d) : (d \o e)[k] = d[k]
           /\ \A k \in 1..Len(e) : (d \o e)[Len(d) + k] = e[k]
<1>1. d \in Seq(Byte) /\ e \in Seq(Byte)
  BY DEF Data
<1>2. d \o e \in Data /\ Len(d \o e) = Len(d) + Len(e) /\ Len(d) \in Nat /\ Len(e) \in Nat
  BY Cut
<1>3. \A i \in 1..Len(d) + Len(e) : (d \o e)[i] = IF i <= Len(d) THEN d[i] ELSE e[i - Len(d)]
  BY <1>1
<1> DEFINE m == Len(d)  n == Len(e)  f == d \o e
<1> HIDE DEF m, n, f
<1>4. m \in Nat /\ n \in Nat /\ \A i \in 1..m + n : f[i] = IF i <= m THEN d[i] ELSE e[i - m]
  BY <1>2, <1>3 DEF m, n, f
<1>5. \A k \in 1..m : f[k] = d[k]
  BY <1>4
<1>6. ASSUME NEW k \in 1..n PROVE f[m + k] = e[k]
  <2>1. m + k \in 1..m + n /\ ~ m + k <= m /\ m + k - m = k
    BY <1>4
  <2> QED BY <1>4, <2>1
<1> QED BY <1>2, <1>5, <1>6 DEF m, n, f

\* One more address is appended, behind a comma if it is not the first, and fits with
\* its terminator.
LEMMA JoinedIs ==
    ASSUME NEW b \in Buffers, NEW a \in SixBytes
    PROVE  LET s == IF b.text = <<>> THEN <<>> ELSE <<Comma>>
               c == Joined(b, a)
           IN  /\ c \in Buffers /\ c.text = b.text \o s \o MacOf(a)
               /\ Len(b.text \o s \o MacOf(a)) + 1 <= c.capacity
<1> DEFINE mac == MacOf(a)
           v == b.text
           s == IF v = <<>> THEN <<>> ELSE <<Comma>>
           n == Len(v) + Needed(v, mac)
           t == v \o s \o mac
           c == Joined(b, a)
<1>1. mac \in Data /\ Len(mac) = 17
  BY MacIs
<1>2. c = [capacity |-> Grown(b.capacity, n), text |-> t]
  BY Zenon DEF Joined, MacOf
<1>3. v \in Data /\ b.capacity \in Nat \ {0}
  BY DEF Buffers
<1> HIDE DEF mac, v, c
<1>4. s \in Data /\ Len(s) \in Nat /\ Needed(v, mac) = 18 + Len(s)
  <2>1. <<>> \in Data /\ <<Comma>> \in Data /\ Len(<<>>) = 0 /\ Len(<<Comma>>) = 1
    BY DEF Data, Byte, Comma
  <2>2. CASE v = <<>>
    <3>1. s = <<>>
      BY <2>2
    <3>2. Needed(v, mac) = 18
      BY <1>1, <2>2 DEF Needed
    <3> HIDE DEF s
    <3> QED BY <2>1, <3>1, <3>2
  <2>3. CASE v # <<>>
    <3>1. s = <<Comma>>
      BY <2>3
    <3>2. Needed(v, mac) = 19
      BY <1>1, <2>3 DEF Needed
    <3> HIDE DEF s
    <3> QED BY <2>1, <3>1, <3>2
  <2> QED BY <2>2, <2>3
<1> HIDE DEF s
<1>5. t \in Data /\ Len(t) = Len(v) + Len(s) + 17 /\ Len(v) \in Nat
  <2>1. v \o s \in Data /\ Len(v \o s) = Len(v) + Len(s) /\ Len(v) \in Nat
    BY <1>3, <1>4 DEF Data
  <2> DEFINE u == v \o s
  <2>2. u \in Data /\ Len(u) = Len(v) + Len(s)
    BY <2>1
  <2> HIDE DEF u
  <2>3. u \o mac \in Data /\ Len(u \o mac) = Len(u) + 17
    BY <1>1, <2>2, Cut
  <2> QED BY <2>1, <2>2, <2>3 DEF u
<1>6. n \in Nat /\ n = Len(t) + 1
  BY <1>4, <1>5
<1> HIDE DEF n, t
<1>7. Grown(b.capacity, n) \in Nat /\ Grown(b.capacity, n) > n
  BY <1>3, <1>6, GrownPast
<1> DEFINE g == Grown(b.capacity, n)
<1> HIDE DEF g
<1>8. g \in Nat \ {0} /\ g > n
  BY <1>6, <1>7 DEF g
<1>9. c \in Buffers /\ c.text = t /\ c.capacity = g
  BY <1>2, <1>5, <1>8 DEF Buffers, g
<1>10. Len(t) + 1 <= c.capacity
  BY <1>5, <1>6, <1>8, <1>9
<1> QED BY <1>9, <1>10 DEF t, mac, c, s, v

\* One more address: where each byte of the text is.
LEMMA CsvMore ==
    ASSUME NEW told \in Seq(SixBytes), NEW i \in 1..Len(told), NEW b \in Buffers, CsvOf(b, told, i - 1)
    PROVE  CsvOf(Joined(b, told[i]), told, i)
<1> DEFINE a == told[i]
           mac == MacOf(a)
           s == IF b.text = <<>> THEN <<>> ELSE <<Comma>>
           v == b.text
           t == b.text \o s \o mac
           c == Joined(b, a)
<1>1. a \in SixBytes /\ Len(told) \in Nat
  OBVIOUS
<1>2. mac \in Data /\ Len(mac) = 17
  BY <1>1, MacIs
<1> HIDE DEF a
<1>3. c \in Buffers /\ c.text = t /\ Len(t) + 1 <= c.capacity
  BY <1>1, JoinedIs
<1> HIDE DEF c, mac
<1>4. v \in Data /\ Len(v) \in Nat /\ Len(v) = CsvSize(i - 1)
  BY DEF CsvOf, Data
<1>5. /\ \A j \in 1..i - 1 : \A k \in 1..17 : v[18 * (j - 1) + k] = MacOf(told[j])[k]
      /\ \A j \in 1..i - 2 : v[18 * j] = Comma
  <2>1. /\ \A j \in 1..i - 1 : \A k \in 1..17 : v[18 * (j - 1) + k] = MacOf(told[j])[k]
        /\ \A j \in 1..i - 1 - 1 : v[18 * j] = Comma
    BY Zenon DEF CsvOf
  <2>2. i - 1 - 1 = i - 2
    OBVIOUS
  <2> QED BY <2>1, <2>2, Zenon
<1>6. i \in Nat \ {0}
  BY <1>1
<1> HIDE DEF v
<1>7. CASE i = 1
  <2>1. v = <<>>
    BY <1>4, <1>7 DEF CsvSize, Data
  <2>2. t = mac
    <3>1. t = (<<>> \o <<>>) \o mac
      BY <2>1 DEF v
    <3>2. <<>> \in Data
      BY DEF Data
    <3>3. <<>> \o <<>> = <<>>
      BY <3>2, JoinedEmpty
    <3>4. t = <<>> \o mac
      BY <3>1, <3>3, Zenon
    <3> HIDE DEF t
    <3> QED BY <1>2, <3>4, JoinedEmpty
  <2> HIDE DEF t
  <2>3. Len(t) = CsvSize(i)
    BY <1>2, <1>7, <2>2 DEF CsvSize
  <2>4. ASSUME NEW j \in 1..i, NEW k \in 1..17 PROVE t[18 * (j - 1) + k] = MacOf(told[j])[k]
    <3>1. j = i /\ 18 * (j - 1) + k = k
      BY <1>7
    <3> QED BY <2>2, <3>1 DEF mac, a
  <2>5. 1..i - 1 = {}
    BY <1>7
  <2>6. t \in Data /\ c.capacity \in Nat \ {0}
    BY <1>2, <1>3, <2>2 DEF Buffers
  <2> QED BY <1>3, <2>3, <2>4, <2>5, <2>6 DEF CsvOf, c, a
<1>8. CASE i # 1
  <2>1. i - 1 \in Nat \ {0} /\ Len(v) = 18 * (i - 1) - 1
    BY <1>4, <1>6, <1>8 DEF CsvSize
  <2>2. v # <<>>
    BY <2>1
  <2>3. s = <<Comma>>
    BY <2>2 DEF v
  <2>4. t = (v \o <<Comma>>) \o mac
    BY <2>3 DEF v
  <2> HIDE DEF t
  <2>5. <<Comma>> \in Data /\ Len(<<Comma>>) = 1
    BY DEF Data, Byte, Comma
  <2> DEFINE u == v \o <<Comma>>
  <2>6. u \in Data /\ Len(u) = 18 * (i - 1) /\ u[18 * (i - 1)] = Comma /\ \A k \in 1..Len(v) : u[k] = v[k]
    BY <1>4, <2>1, <2>5 DEF Data
  <2> HIDE DEF u
  <2>7. t = u \o mac
    BY <2>4 DEF u
  <2>8. /\ t \in Data /\ Len(t) = 18 * (i - 1) + 17
        /\ \A k \in 1..Len(u) : t[k] = u[k]
        /\ \A k \in 1..17 : t[18 * (i - 1) + k] = mac[k]
    <3>1. 18 * (i - 1) \in Nat
      BY <2>1
    <3> DEFINE n == 18 * (i - 1)
    <3> HIDE DEF n
    <3>2. n \in Nat /\ Len(u) = n /\ u \in Data /\ mac \in Data /\ Len(mac) = 17
      BY <1>2, <2>6, <3>1 DEF n
    <3>3. /\ u \o mac \in Data /\ Len(u \o mac) = n + 17
          /\ \A k \in 1..n : (u \o mac)[k] = u[k]
          /\ \A k \in 1..17 : (u \o mac)[n + k] = mac[k]
      <4>1. /\ u \o mac \in Data /\ Len(u \o mac) = Len(u) + Len(mac)
            /\ \A k \in 1..Len(u) : (u \o mac)[k] = u[k]
            /\ \A k \in 1..Len(mac) : (u \o mac)[Len(u) + k] = mac[k]
        BY <3>2, BytesOfJoined
      <4> DEFINE f == u \o mac
      <4>2. f \in Data /\ Len(f) = Len(u) + Len(mac)
        BY <4>1
      <4>3. \A k \in 1..Len(mac) : f[Len(u) + k] = mac[k]
        BY <4>1
      <4>4. \A k \in 1..Len(u) : f[k] = u[k]
        BY <4>1
      <4> HIDE DEF f
      <4> QED BY <3>2, <4>2, <4>3, <4>4 DEF f
    <3> QED BY <2>7, <3>2, <3>3 DEF n
  <2>9. Len(t) = CsvSize(i)
    BY <1>6, <2>1, <2>8 DEF CsvSize
  <2>10. ASSUME NEW j \in 1..i, NEW k \in 1..17 PROVE t[18 * (j - 1) + k] = MacOf(told[j])[k]
    <3>1. CASE j = i
      BY <2>8, <3>1 DEF mac, a
    <3>2. CASE j # i
      <4>1. j \in 1..i - 1 /\ i - 1 \in Nat
        BY <2>1, <3>2
      <4> DEFINE m == 18 * (j - 1) + k
      <4>2. m \in 1..Len(v)
        BY <2>1, <4>1
      <4>3. m \in 1..Len(u)
        BY <2>1, <2>6, <4>2
      <4>4. v[m] = MacOf(told[j])[k]
        BY <1>5, <4>1
      <4> HIDE DEF m
      <4>5. t[m] = v[m]
        BY <2>6, <2>8, <4>2, <4>3
      <4> QED BY <4>4, <4>5 DEF m
    <3> QED BY <3>1, <3>2
  <2>11. ASSUME NEW j \in 1..i - 1 PROVE t[18 * j] = Comma
    <3> DEFINE m == 18 * j
    <3>1. m \in 1..Len(u) /\ t[m] = u[m]
      <4>1. m \in 1..Len(u)
        BY <2>1, <2>6
      <4> QED BY <2>8, <4>1
    <3>2. CASE j = i - 1
      BY <2>6, <3>1, <3>2
    <3>3. CASE j # i - 1
      <4>1. j \in 1..i - 2 /\ m \in 1..Len(v)
        BY <2>1, <3>3
      <4>2. v[m] = Comma
        BY <1>5, <4>1
      <4> HIDE DEF m
      <4>3. t[m] = Comma
        BY <2>6, <3>1, <4>1, <4>2
      <4> QED BY <4>3 DEF m
    <3> QED BY <3>2, <3>3
  <2>12. c.capacity \in Nat \ {0}
    BY <1>3 DEF Buffers
  <2> QED BY <1>3, <2>8, <2>9, <2>10, <2>11, <2>12 DEF CsvOf, c, a
<1> QED BY <1>7, <1>8

\* The text ya_get_macs_csv builds, byte by byte.
LEMMA CsvIs ==
    ASSUME NEW windows \in BOOLEAN, NEW adapters \in Seq(AdapterKinds)
    PROVE  LET told == Eligible(windows, adapters)
           IN  CsvOf(ya_get_macs_csv(windows, adapters), told, Len(told))
<1> DEFINE told == Eligible(windows, adapters)
           n == Len(told)
           first == [capacity |-> FirstCapacity, text |-> <<>>]
           Is(B) == B = [i \in 0..n |-> IF i = 0 THEN first ELSE Joined(B[i - 1], told[i])]
           f == [x \in Buffers \X (1..n) |-> Joined(x[1], told[x[2]])]
<1>1. told \in Seq(SixBytes) /\ n \in Nat
  <2>1. told \in Seq(SixBytes)
    BY EligibleAre
  <2> HIDE DEF told
  <2> QED BY <2>1
<1>2. ya_get_macs_csv(windows, adapters) = LET B == CHOOSE B : Is(B) IN B[n]
  BY Zenon DEF ya_get_macs_csv, told, n, first
<1> HIDE DEF told
<1>3. \A i \in 1..n : told[i] \in SixBytes
  BY <1>1
<1>4. first \in Buffers /\ first.text = <<>> /\ first.capacity = FirstCapacity
  BY HostInfoAssumption DEF Buffers, Data
<1>5. ASSUME NEW b \in Buffers, NEW i \in 1..n PROVE Joined(b, told[i]) \in Buffers
  BY <1>3, JoinedIs
<1> HIDE DEF n, first
<1>6. \E B : Is(B) /\ B \in [0..n -> Buffers]
  <2>1. \A b \in Buffers : \A i \in 1..n : f[<<b, i>>] = Joined(b, told[i]) /\ f[<<b, i>>] \in Buffers
    BY <1>5
  <2> HIDE DEF f
  <2>2. PICK g : Loops(Buffers, n, first, f, g)
    BY <1>1, <1>4, <2>1, LoopExists
  <2>3. g \in [0..n -> Buffers] /\ g[0] = first /\ \A i \in 1..n : g[i] = f[<<g[i - 1], i>>]
    BY <2>2 DEF Loops
  <2>4. ASSUME NEW i \in 0..n PROVE g[i] = IF i = 0 THEN first ELSE Joined(g[i - 1], told[i])
    <3>1. CASE i = 0
      BY <2>3, <3>1
    <3>2. CASE i # 0
      <4>1. i \in 1..n /\ i - 1 \in 0..n
        BY <1>1, <3>2
      <4>2. g[i - 1] \in Buffers
        BY <2>3, <4>1
      <4> QED BY <2>1, <2>3, <3>2, <4>1, <4>2
    <3> QED BY <3>1, <3>2
  <2>5. g = [i \in 0..n |-> IF i = 0 THEN first ELSE Joined(g[i - 1], told[i])]
    BY <2>3, <2>4
  <2> QED BY <2>3, <2>5
<1> DEFINE B == CHOOSE B : Is(B)
<1>7. Is(B)
  <2> HIDE DEF Is
  <2> QED BY <1>6, Zenon
<1>8. B[0] = first /\ \A i \in 1..n : B[i] = Joined(B[i - 1], told[i])
  <2> HIDE DEF B
  <2> QED BY <1>1, <1>7
<1> HIDE DEF B
<1> DEFINE P == {i \in 0..n : B[i] \in Buffers /\ CsvOf(B[i], told, i)}
<1>9. 0 \in P
  <2>1. first.text \in Data /\ Len(first.text) = 0 /\ first.capacity \in Nat \ {0}
    BY <1>4, HostInfoAssumption DEF Buffers
  <2>2. CsvOf(first, told, 0)
    BY <2>1 DEF CsvOf, CsvSize
  <2> QED BY <1>1, <1>4, <1>8, <2>2
<1>10. ASSUME NEW i \in 1..n, i - 1 \in P PROVE i \in P
  <2> DEFINE b == B[i - 1]
  <2>1. i \in 0..n /\ b \in Buffers /\ CsvOf(b, told, i - 1) /\ B[i] = Joined(b, told[i])
    BY <1>1, <1>8, <1>10
  <2> HIDE DEF b
  <2>2. Joined(b, told[i]) \in Buffers
    BY <1>5, <2>1
  <2>3. CsvOf(Joined(b, told[i]), told, i)
    BY <1>1, <2>1, CsvMore DEF n
  <2> QED BY <2>1, <2>2, <2>3
<1>11. n \in P
  <2>1. n \in 0..n
    BY <1>1
  <2> HIDE DEF P
  <2> QED BY <1>1, <1>9, <1>10, <2>1, UpTo
<1>12. CsvOf(B[n], told, n)
  BY <1>11
<1> QED BY <1>2, <1>12, Zenon DEF B, n, told, first

---------------------------------------------------------------------------
(* The text, cut at its commas. *)

\* The j-th part of the first i bytes of a text whose commas are every eighteenth byte.
Part(t, i, j) == SubSeq(t, 18 * (j - 1) + 1, IF 18 * j - 1 < i THEN 18 * j - 1 ELSE i)

\* The parts of the first i bytes.
CutTo(t, i) == [j \in 1..(i \div 18 + 1) |-> Part(t, i, j)]

\* A sequence with one element more.
LEMMA AppendOne ==
    ASSUME NEW S, NEW s \in Seq(S), NEW t \in Seq(S), NEW e \in S, Len(t) = Len(s) + 1,
           \A j \in 1..Len(s) : t[j] = s[j], t[Len(s) + 1] = e
    PROVE  Append(s, e) = t
OBVIOUS

\* A sequence whose last element is another.
LEMMA LastChanges ==
    ASSUME NEW S, NEW s \in Seq(S), NEW t \in Seq(S), NEW n, n = Len(s), NEW x, Len(t) = n,
           \A j \in 1..n - 1 : t[j] = s[j], t[n] = x
    PROVE  [s EXCEPT ![n] = x] = t
<1>1. n \in Nat /\ DOMAIN s = 1..n /\ DOMAIN t = 1..n /\ s = [j \in 1..n |-> s[j]] /\ t = [j \in 1..n |-> t[j]]
  OBVIOUS
<1>2. \A j \in 1..n : j = n \/ j \in 1..n - 1
  BY <1>1
<1> QED BY <1>1, <1>2

\* A part is bytes.
LEMMA PartIs ==
    ASSUME NEW t \in Data, NEW i \in 0..Len(t), NEW j \in 1..(i \div 18 + 1)
    PROVE  Part(t, i, j) \in Data
<1> DEFINE a == 18 * (j - 1) + 1
           b == IF 18 * j - 1 < i THEN 18 * j - 1 ELSE i
<1>1. Len(t) \in Nat
  BY DEF Data
<1>2. i \div 18 \in Nat /\ 18 * (i \div 18) <= i
  BY <1>1
<1>3. a \in Nat \ {0} /\ b \in Nat /\ b <= i /\ b <= Len(t)
  BY <1>1, <1>2
<1>4. Part(t, i, j) = SubSeq(t, a, b)
  BY DEF Part
<1> HIDE DEF a, b
<1>5. \A x \in a..b : t[x] \in Byte
  BY <1>1, <1>3 DEF Data
<1>6. SubSeq(t, a, b) \in Seq(Byte)
  BY <1>1, <1>3 DEF Data
<1> QED BY <1>4, <1>6 DEF Data

\* The parts of the first i bytes.
LEMMA CutsAre ==
    ASSUME NEW t \in Data, NEW i \in 0..Len(t)
    PROVE  /\ CutTo(t, i) \in Seq(Data) /\ Len(CutTo(t, i)) = i \div 18 + 1
           /\ \A j \in 1..(i \div 18 + 1) : CutTo(t, i)[j] = Part(t, i, j)
<1> DEFINE q == i \div 18 + 1
<1>1. q \in Nat
  BY DEF Data
<1>2. \A j \in 1..q : Part(t, i, j) \in Data
  BY PartIs
<1>3. CutTo(t, i) = [j \in 1..q |-> Part(t, i, j)]
  BY DEF CutTo
<1> HIDE DEF q
<1>4. CutTo(t, i) \in Seq(Data) /\ Len(CutTo(t, i)) = q /\ \A j \in 1..q : CutTo(t, i)[j] = Part(t, i, j)
  BY <1>1, <1>2, <1>3
<1> QED BY <1>4 DEF q

\* A comma begins a new part.
LEMMA CutAtComma ==
    ASSUME NEW t \in Data, NEW q \in Nat \ {0}, 18 * q <= Len(t)
    PROVE  CutTo(t, 18 * q) = Append(CutTo(t, 18 * q - 1), <<>>)
<1> DEFINE i == 18 * q  s == CutTo(t, i - 1)  u == CutTo(t, i)
<1>1. Len(t) \in Nat /\ i \in 0..Len(t) /\ i - 1 \in 0..Len(t) /\ i \div 18 + 1 = q + 1 /\ (i - 1) \div 18 + 1 = q
  BY DEF Data
<1>2. /\ s \in Seq(Data) /\ Len(s) = q /\ \A j \in 1..q : s[j] = Part(t, i - 1, j)
      /\ u \in Seq(Data) /\ Len(u) = q + 1 /\ \A j \in 1..q + 1 : u[j] = Part(t, i, j)
  <2> HIDE DEF i
  <2>1. /\ u \in Seq(Data) /\ Len(u) = q + 1 /\ \A j \in 1..q + 1 : u[j] = Part(t, i, j)
    BY <1>1, CutsAre
  <2> DEFINE k == i - 1
  <2>2. k \in 0..Len(t) /\ k \div 18 + 1 = q
    BY <1>1
  <2> HIDE DEF k
  <2>3. /\ CutTo(t, k) \in Seq(Data) /\ Len(CutTo(t, k)) = q /\ \A j \in 1..q : CutTo(t, k)[j] = Part(t, k, j)
    BY <2>2, CutsAre
  <2> QED BY <2>1, <2>3 DEF k
<1> HIDE DEF s, u
<1>3. ASSUME NEW j \in 1..q PROVE u[j] = s[j]
  <2>1. u[j] = Part(t, i, j) /\ s[j] = Part(t, i - 1, j)
    BY <1>2
  <2>2. (IF 18 * j - 1 < i THEN 18 * j - 1 ELSE i) = (IF 18 * j - 1 < i - 1 THEN 18 * j - 1 ELSE i - 1)
    OBVIOUS
  <2> QED BY <2>1, <2>2 DEF Part
<1>4. u[q + 1] = <<>>
  <2>1. u[q + 1] = Part(t, i, q + 1)
    BY <1>2
  <2>2. Part(t, i, q + 1) = SubSeq(t, i + 1, i)
    BY DEF Part
  <2> QED BY <1>1, <2>1, <2>2 DEF Data
<1>5. <<>> \in Data
  BY DEF Data
<1>6. Append(s, <<>>) = u
  <2> DEFINE e == <<>>
  <2>1. e \in Data /\ u[q + 1] = e
    BY <1>4, <1>5
  <2> HIDE DEF e
  <2>2. Append(s, e) = u
    BY <1>2, <1>3, <2>1, AppendOne
  <2> QED BY <2>2 DEF e
<1> QED BY <1>6 DEF s, u

\* A sequence of parts, the last of them with one byte more.
LastExtended(s, x) == [s EXCEPT ![Len(s)] = Append(@, x)]

\* Any other byte goes to the last part.
LEMMA CutInside ==
    ASSUME NEW t \in Data, NEW q \in Nat, NEW k \in 1..17, NEW i, i = 18 * q + k, i <= Len(t)
    PROVE  LastExtended(CutTo(t, i - 1), t[i]) = CutTo(t, i)
<1> DEFINE s == CutTo(t, i - 1)  u == CutTo(t, i)  n == q + 1
<1>1. Len(t) \in Nat /\ i \in 0..Len(t) /\ i - 1 \in 0..Len(t) /\ i \div 18 + 1 = n /\ (i - 1) \div 18 + 1 = n
  BY DEF Data
<1>2. /\ s \in Seq(Data) /\ Len(s) = n /\ \A j \in 1..n : s[j] = Part(t, i - 1, j)
      /\ u \in Seq(Data) /\ Len(u) = n /\ \A j \in 1..n : u[j] = Part(t, i, j)
  <2>1. /\ u \in Seq(Data) /\ Len(u) = n /\ \A j \in 1..n : u[j] = Part(t, i, j)
    BY <1>1, CutsAre
  <2> DEFINE m == i - 1
  <2>2. m \in 0..Len(t) /\ m \div 18 + 1 = n
    BY <1>1
  <2> HIDE DEF m
  <2>3. /\ CutTo(t, m) \in Seq(Data) /\ Len(CutTo(t, m)) = n /\ \A j \in 1..n : CutTo(t, m)[j] = Part(t, m, j)
    BY <2>2, CutsAre
  <2> QED BY <2>1, <2>3 DEF m
<1> HIDE DEF s, u
<1>3. ASSUME NEW j \in 1..n - 1 PROVE u[j] = s[j]
  <2>1. u[j] = Part(t, i, j) /\ s[j] = Part(t, i - 1, j)
    BY <1>2
  <2>2. (IF 18 * j - 1 < i THEN 18 * j - 1 ELSE i) = (IF 18 * j - 1 < i - 1 THEN 18 * j - 1 ELSE i - 1)
    OBVIOUS
  <2> QED BY <2>1, <2>2 DEF Part
<1>4. u[n] = Append(s[n], t[i])
  <2>1. u[n] = SubSeq(t, 18 * q + 1, i)
    <3>1. u[n] = Part(t, i, n)
      BY <1>2
    <3> QED BY <3>1 DEF Part
  <2>2. s[n] = SubSeq(t, 18 * q + 1, i - 1)
    <3>1. s[n] = Part(t, i - 1, n)
      BY <1>2
    <3> QED BY <3>1 DEF Part
  <2> DEFINE a == 18 * q + 1
  <2>3. a \in Nat \ {0} /\ i \in Nat /\ a <= i /\ i <= Len(t)
    BY <1>1
  <2> HIDE DEF a
  <2>4. SubSeq(t, a, i) = Append(SubSeq(t, a, i - 1), t[i])
    <3>1. t \in Seq(Byte) /\ Len(t) \in Nat
      BY <1>1 DEF Data
    <3>2. i - 1 \in Nat /\ a..i \subseteq 1..Len(t) /\ a..i - 1 \subseteq 1..Len(t) /\ i \in 1..Len(t)
      BY <1>1, <2>3
    <3>3. t[i] \in Byte /\ \A x \in 1..Len(t) : t[x] \in Byte
      BY <3>1, <3>2
    <3> DEFINE v == SubSeq(t, a, i - 1)  w == SubSeq(t, a, i)
    <3>4. v \in Seq(Byte) /\ Len(v) = i - a /\ \A x \in 1..i - a : v[x] = t[a + x - 1]
      BY <2>3, <3>1, <3>2, <3>3
    <3>5. w \in Seq(Byte) /\ Len(w) = i - a + 1 /\ \A x \in 1..i - a + 1 : w[x] = t[a + x - 1]
      BY <2>3, <3>1, <3>2, <3>3
    <3> HIDE DEF v, w
    <3>6. Len(w) = Len(v) + 1 /\ \A x \in 1..Len(v) : w[x] = v[x]
      BY <2>3, <3>4, <3>5
    <3>7. w[Len(v) + 1] = t[i]
      <4>1. Len(v) + 1 \in 1..i - a + 1 /\ a + (Len(v) + 1) - 1 = i
        BY <2>3, <3>4
      <4> QED BY <3>5, <4>1
    <3>8. Append(v, t[i]) = w
      BY <3>3, <3>4, <3>5, <3>6, <3>7, AppendOne
    <3> QED BY <3>8 DEF v, w
  <2> QED BY <2>1, <2>2, <2>4 DEF a
<1> DEFINE x == Append(s[n], t[i])
<1>5. [s EXCEPT ![Len(s)] = Append(@, t[i])] = [s EXCEPT ![n] = x]
  <2>1. n \in DOMAIN s
    BY <1>2
  <2> QED BY <1>2, <2>1
<1> HIDE DEF x, n
<1>6. [s EXCEPT ![n] = x] = u
  BY <1>2, <1>3, <1>4, LastChanges DEF x
<1> QED BY <1>5, <1>6 DEF s, u, LastExtended

\* Every byte of the text is a comma at an eighteenth place or a byte of an address.
LEMMA CsvBytes ==
    ASSUME NEW told \in Seq(SixBytes), NEW b, CsvOf(b, told, Len(told)), told # <<>>
    PROVE  /\ Len(told) \in Nat \ {0} /\ b.text \in Data /\ Len(b.text) = 18 * Len(told) - 1
           /\ \A i \in 1..Len(b.text) :
                 \/ \E q \in 1..Len(told) - 1 : i = 18 * q /\ b.text[i] = Comma
                 \/ \E q \in 0..Len(told) - 1, k \in 1..17 :
                       i = 18 * q + k /\ b.text[i] # Comma /\ b.text[i] = MacOf(told[q + 1])[k]
<1> DEFINE n == Len(told)  t == b.text
<1>1. n \in Nat /\ n # 0 /\ \A j \in 1..n : told[j] \in SixBytes
  OBVIOUS
<1>2. t \in Data /\ Len(t) = 18 * n - 1
  BY <1>1 DEF CsvOf, CsvSize
<1>3. ASSUME NEW j \in 1..n, NEW k \in 1..17 PROVE t[18 * (j - 1) + k] = MacOf(told[j])[k] /\ MacOf(told[j])[k] # Comma
  <2>1. t[18 * (j - 1) + k] = MacOf(told[j])[k]
    BY <1>1 DEF CsvOf
  <2> DEFINE a == told[j]
  <2>2. a \in SixBytes
    BY <1>1
  <2> HIDE DEF a
  <2>3. \A x \in 1..17 : MacOf(a)[x] # Comma
    BY <2>2, MacIs
  <2> QED BY <2>1, <2>3 DEF a
<1>4. \A q \in 1..n - 1 : t[18 * q] = Comma
  BY <1>1 DEF CsvOf
<1> HIDE DEF n, t
<1>5. ASSUME NEW i \in 1..Len(t)
      PROVE  \/ \E q \in 1..n - 1 : i = 18 * q /\ t[i] = Comma
             \/ \E q \in 0..n - 1, k \in 1..17 : i = 18 * q + k /\ t[i] # Comma /\ t[i] = MacOf(told[q + 1])[k]
  <2> DEFINE q == i \div 18  k == i % 18
  <2>1. i = 18 * q + k /\ q \in 0..n - 1 /\ k \in 0..17
    BY <1>1, <1>2
  <2> HIDE DEF q, k
  <2>2. CASE k = 0
    <3>1. q \in 1..n - 1 /\ i = 18 * q
      BY <1>1, <2>1, <2>2
    <3> QED BY <1>4, <3>1
  <2>3. CASE k # 0
    <3>1. k \in 1..17 /\ q + 1 \in 1..n /\ i = 18 * (q + 1 - 1) + k
      BY <1>1, <2>1, <2>3
    <3> DEFINE j == q + 1
    <3>2. j \in 1..n /\ i = 18 * (j - 1) + k
      BY <1>1, <2>1, <3>1
    <3> HIDE DEF j
    <3>3. t[i] = MacOf(told[j])[k] /\ MacOf(told[j])[k] # Comma
      BY <1>3, <3>1, <3>2
    <3>4. t[i] # Comma /\ t[i] = MacOf(told[q + 1])[k]
      BY <3>3 DEF j
    <3> QED BY <2>1, <3>1, <3>4
  <2> QED BY <2>1, <2>2, <2>3
<1> QED BY <1>1, <1>2, <1>5 DEF n, t

\* The rule of the parts: what byte i makes of the parts before it.
PartsAfter(t, i, before) ==
    IF t[i] = Comma THEN Append(before, <<>>)
    ELSE [before EXCEPT ![Len(before)] = Append(@, t[i])]

\* The parts satisfy the recursion of CutAt.
LEMMA PartsGrow ==
    ASSUME NEW told \in Seq(SixBytes), NEW b, CsvOf(b, told, Len(told)), told # <<>>,
           NEW i \in 1..Len(b.text)
    PROVE  CutTo(b.text, i) = PartsAfter(b.text, i, CutTo(b.text, i - 1))
<1> DEFINE t == b.text  n == Len(told)
<1>1. /\ n \in Nat \ {0} /\ t \in Data /\ Len(t) = 18 * n - 1
      /\ \/ \E q \in 1..n - 1 : i = 18 * q /\ t[i] = Comma
         \/ \E q \in 0..n - 1, k \in 1..17 : i = 18 * q + k /\ t[i] # Comma
  BY CsvBytes
<1> HIDE DEF t, n
<1>2. i \in 1..Len(t) /\ i <= Len(t) /\ Len(t) \in Nat
  BY <1>1 DEF t
<1>3. CASE \E q \in 1..n - 1 : i = 18 * q /\ t[i] = Comma
  <2>1. PICK q \in 1..n - 1 : i = 18 * q /\ t[i] = Comma
    BY <1>3
  <2>2. q \in Nat \ {0} /\ 18 * q <= Len(t)
    BY <1>1, <1>2, <2>1
  <2>3. CutTo(t, 18 * q) = Append(CutTo(t, 18 * q - 1), <<>>)
    BY <1>1, <2>2, CutAtComma
  <2> QED BY <2>1, <2>3 DEF PartsAfter, t
<1>4. CASE \E q \in 0..n - 1, k \in 1..17 : i = 18 * q + k /\ t[i] # Comma
  <2>1. PICK q \in 0..n - 1, k \in 1..17 : i = 18 * q + k /\ t[i] # Comma
    BY <1>4
  <2>2. q \in Nat
    BY <1>1
  <2>3. LastExtended(CutTo(t, i - 1), t[i]) = CutTo(t, i)
    BY <1>1, <1>2, <2>1, <2>2, CutInside
  <2> QED BY <2>1, <2>3, Zenon DEF PartsAfter, LastExtended, t
<1> QED BY <1>1, <1>3, <1>4

\* The text, cut at its commas, is the addresses.
LEMMA CutAtMacs ==
    ASSUME NEW told \in Seq(SixBytes), NEW b, CsvOf(b, told, Len(told)), told # <<>>
    PROVE  CutAt(b.text, Comma) = [j \in 1..Len(told) |-> MacOf(told[j])]
<1> DEFINE t == b.text  n == Len(told)  m == Len(t)
           Is(C) == C = [i \in 0..m |-> IF i = 0 THEN <<<<>>>>
                                        ELSE LET before == C[i - 1]
                                             IN  IF t[i] = Comma THEN Append(before, <<>>)
                                                 ELSE [before EXCEPT ![Len(before)] = Append(@, t[i])]]
           E(C) == [i \in 0..m |-> IF i = 0 THEN <<<<>>>> ELSE PartsAfter(t, i, C[i - 1])]
<1>1. n \in Nat \ {0} /\ t \in Data /\ m = 18 * n - 1 /\ m \in Nat
  BY CsvBytes DEF Data
<1>2. \A i \in 1..m : CutTo(t, i) = PartsAfter(t, i, CutTo(t, i - 1))
  BY PartsGrow
<1>3. CutAt(t, Comma) = LET C == CHOOSE C : Is(C) IN C[m]
  BY Zenon DEF CutAt
<1>4. \A C : Is(C) <=> C = E(C)
  BY Zenon DEF PartsAfter
<1>5. \A i \in 1..m :
         \/ \E q \in 1..n - 1 : i = 18 * q /\ t[i] = Comma
         \/ \E q \in 0..n - 1, k \in 1..17 : i = 18 * q + k /\ t[i] # Comma /\ t[i] = MacOf(told[q + 1])[k]
  BY CsvBytes, SMTT(30)
<1> HIDE DEF t, m
<1>6. CutTo(t, 0) = <<<<>>>>
  <2>1. CutTo(t, 0) \in Seq(Data) /\ Len(CutTo(t, 0)) = 1 /\ CutTo(t, 0)[1] = Part(t, 0, 1)
    <3> DEFINE z == 0
    <3>1. z \in 0..Len(t) /\ z \div 18 + 1 = 1
      BY <1>1 DEF m
    <3> HIDE DEF z
    <3>2. CutTo(t, z) \in Seq(Data) /\ Len(CutTo(t, z)) = 1 /\ \A j \in 1..1 : CutTo(t, z)[j] = Part(t, z, j)
      BY <1>1, <3>1, CutsAre
    <3> QED BY <3>2 DEF z
  <2>2. Part(t, 0, 1) = <<>>
    BY <1>1 DEF Part, Data
  <2> QED BY <2>1, <2>2
<1>7. \E C : Is(C)
  <2> DEFINE whole == [i \in 0..m |-> CutTo(t, i)]
  <2>1. ASSUME NEW i \in 0..m PROVE CutTo(t, i) = IF i = 0 THEN <<<<>>>> ELSE PartsAfter(t, i, whole[i - 1])
    <3>1. CASE i = 0
      BY <1>6, <3>1
    <3>2. CASE i # 0
      <4>1. i \in 1..m /\ i - 1 \in 0..m
        BY <1>1, <3>2
      <4>2. whole[i - 1] = CutTo(t, i - 1)
        BY <4>1
      <4> QED BY <1>2, <3>2, <4>1, <4>2
    <3> QED BY <3>1, <3>2
  <2>2. whole = E(whole)
    BY <2>1
  <2> HIDE DEF whole, Is, E
  <2> QED BY <1>4, <2>2
<1> DEFINE C == CHOOSE C : Is(C)
<1>8. C = E(C)
  <2> HIDE DEF Is, E
  <2> QED BY <1>4, <1>7, Zenon
<1>9. C[0] = <<<<>>>> /\ \A i \in 1..m : C[i] = PartsAfter(t, i, C[i - 1])
  <2> HIDE DEF C
  <2>1. C[0] = <<<<>>>>
    <3>1. 0 \in 0..m
      BY <1>1
    <3>2. E(C)[0] = <<<<>>>>
      BY <3>1, Zenon
    <3> QED BY <1>8, <3>2, Zenon
  <2>2. ASSUME NEW i \in 1..m PROVE C[i] = PartsAfter(t, i, C[i - 1])
    <3>1. i \in 0..m /\ i # 0
      BY <1>1
    <3>2. E(C)[i] = PartsAfter(t, i, C[i - 1])
      BY <3>1, Zenon
    <3> QED BY <1>8, <3>2, Zenon
  <2> QED BY <2>1, <2>2
<1> HIDE DEF C
<1> DEFINE P == {i \in 0..m : C[i] = CutTo(t, i)}
<1>10. 0 \in P
  BY <1>1, <1>6, <1>9
<1>11. ASSUME NEW i \in 1..m, i - 1 \in P PROVE i \in P
  <2>1. i \in 0..m /\ C[i - 1] = CutTo(t, i - 1)
    BY <1>1, <1>11
  <2> QED BY <1>2, <1>9, <2>1
<1>12. m \in P
  <2>1. m \in 0..m
    BY <1>1
  <2> HIDE DEF P
  <2> QED BY <1>1, <1>10, <1>11, <2>1, UpTo
<1>13. C[m] = CutTo(t, m)
  BY <1>12
<1>14. CutTo(t, m) = [j \in 1..n |-> MacOf(told[j])]
  <2>1. m \in 0..Len(t) /\ m \div 18 + 1 = n
    BY <1>1 DEF m
  <2>2. /\ CutTo(t, m) \in Seq(Data) /\ Len(CutTo(t, m)) = n
        /\ \A j \in 1..n : CutTo(t, m)[j] = Part(t, m, j)
    BY <1>1, <2>1, CutsAre
  <2>3. ASSUME NEW j \in 1..n PROVE Part(t, m, j) = MacOf(told[j])
    <3> DEFINE a == 18 * (j - 1) + 1  e == 18 * j - 1  mac == MacOf(told[j])
    <3>1. Part(t, m, j) = SubSeq(t, a, e)
      <4>1. (IF e < m THEN e ELSE m) = e
        BY <1>1
      <4> QED BY <4>1 DEF Part
    <3>2. a \in Nat \ {0} /\ e \in Nat /\ e = a + 16 /\ e <= m /\ a - 1 = 18 * (j - 1) /\ j \in Nat \ {0}
      BY <1>1
    <3>3. told[j] \in SixBytes
      BY <1>1
    <3>4. mac \in Data /\ Len(mac) = 17
      BY <3>3, MacIs
    <3>5. \A k \in 1..17 : t[18 * (j - 1) + k] = mac[k]
      BY DEF CsvOf, t
    <3> HIDE DEF a, e, mac
    <3>6. \A k \in 1..17 : t[a + k - 1] = mac[k]
      <4>1. \A k \in 1..17 : 18 * (j - 1) + k = a + k - 1
        BY <3>2
      <4> QED BY <3>5, <4>1
    <3>7. t \in Seq(Byte) /\ Len(t) = m /\ mac \in Seq(Byte)
      BY <1>1, <3>4 DEF Data, m
    <3>8. SubSeq(t, a, e) \in Seq(Byte) /\ Len(SubSeq(t, a, e)) = 17 /\ \A k \in 1..17 : SubSeq(t, a, e)[k] = t[a + k - 1]
      <4>1. t \in Data /\ a <= e + 1 /\ e <= Len(t) /\ e - a + 1 = 17
        BY <1>1, <3>2, <3>7
      <4> DEFINE l == e - a + 1
      <4>2. SubSeq(t, a, e) \in Data /\ Len(SubSeq(t, a, e)) = l /\ \A k \in 1..l : SubSeq(t, a, e)[k] = t[a + k - 1]
        BY <3>2, <4>1, PartOfData
      <4> QED BY <4>1, <4>2, Zenon DEF Data
    <3> DEFINE v == SubSeq(t, a, e)
    <3> HIDE DEF v
    <3>9. v = mac
      <4>1. v \in Seq(Byte) /\ Len(v) = 17 /\ \A k \in 1..17 : v[k] = mac[k]
        BY <3>6, <3>8 DEF v
      <4>2. v = [k \in 1..17 |-> v[k]]
        BY <4>1
      <4>3. mac = [k \in 1..17 |-> mac[k]]
        BY <3>4, <3>7
      <4> QED BY <4>1, <4>2, <4>3
    <3> QED BY <3>1, <3>9 DEF v, mac
  <2> DEFINE w == CutTo(t, m)
  <2>4. w = [j \in 1..n |-> w[j]]
    BY <1>1, <2>2
  <2>5. \A j \in 1..n : w[j] = MacOf(told[j])
    BY <2>2, <2>3
  <2> HIDE DEF w
  <2> QED BY <2>4, <2>5 DEF w
<1>15. CutAt(t, Comma) = C[m]
  BY <1>3, Zenon DEF C
<1> QED BY <1>13, <1>14, <1>15 DEF t

---------------------------------------------------------------------------
(* What the handlers make. *)

\* ya_get_macs_csv on any machine: the text fits into its buffer and, cut at its
\* commas, is the addresses of the eligible adapters in order.
LEMMA MacsTold ==
    ASSUME NEW windows \in BOOLEAN
    PROVE  LET csv  == ya_get_macs_csv(windows, Adapters)
               told == Eligible(windows, Adapters)
           IN  /\ csv.text \in Data /\ Len(csv.text) < Half
               /\ Len(csv.text) + 1 <= csv.capacity
               /\ IF told = <<>> THEN csv.text = <<>>
                  ELSE CutAt(csv.text, Comma)
                           = [j \in 1..Len(told) |-> format_mac_lower_colon(told[j].bytes)]
<1> DEFINE csv  == ya_get_macs_csv(windows, Adapters)
           told == Eligible(windows, Adapters)
           n == Len(told)
<1>1. Adapters \in Seq(AdapterKinds) /\ 18 * Len(Adapters) < Half
  BY AnswersAssumption DEF AdapterKinds, Half
<1>2. told \in Seq(SixBytes) /\ n \in 0..Len(Adapters) /\ Len(Adapters) \in Nat
  BY <1>1, EligibleAre
<1>3. CsvOf(csv, told, n)
  BY <1>1, CsvIs
<1> HIDE DEF csv, told
<1>4. csv.text \in Data /\ Len(csv.text) = CsvSize(n) /\ Len(csv.text) + 1 <= csv.capacity
  BY <1>3 DEF CsvOf
<1>5. CsvSize(n) <= 18 * Len(Adapters) /\ CsvSize(n) \in Nat
  BY <1>2 DEF CsvSize
<1>6. Half \in Nat
  BY DEF Half, MaxLength
<1>7. Len(csv.text) < Half
  BY <1>1, <1>2, <1>4, <1>5, <1>6
<1>8. CASE told = <<>>
  <2>1. n = 0
    BY <1>8
  <2>2. csv.text = <<>>
    BY <1>4, <2>1 DEF CsvSize, Data
  <2> QED BY <1>4, <1>7, <1>8, <2>2 DEF csv, told
<1>9. CASE told # <<>>
  <2>1. CutAt(csv.text, Comma) = [j \in 1..n |-> MacOf(told[j])]
    BY <1>2, <1>3, <1>9, CutAtMacs
  <2>2. CutAt(csv.text, Comma) = [j \in 1..n |-> format_mac_lower_colon(told[j].bytes)]
    BY <2>1, Zenon DEF MacOf
  <2> QED BY <1>4, <1>7, <1>9, <2>2, Zenon DEF csv, told
<1> QED BY <1>8, <1>9

\* A port, as the word it is sent in.
LEMMA PortWord == ASSUME NEW port \in [1..2 -> Byte] PROVE <<0, 0>> \o port \in Word32
<1>1. port = <<port[1], port[2]>> /\ port[1] \in Byte /\ port[2] \in Byte
  OBVIOUS
<1> DEFINE a == port[1]  b == port[2]  x == <<0, 0>>  y == <<a, b>>  w == x \o y
<1>2. x \in Data /\ Len(x) = 2
  BY DEF Data, Byte
<1>3. y \in Data /\ Len(y) = 2
  BY <1>1 DEF Data
<1> HIDE DEF x, y, w
<1>4. w \in Data /\ Len(w) = 4
  <2>1. x \o y \in Data /\ Len(x \o y) = Len(x) + Len(y)
    BY <1>2, <1>3, Cut
  <2> QED BY <1>2, <1>3, <2>1 DEF w
<1>5. \A i \in 1..4 : w[i] \in Byte
  <2>1. \A i \in 1..Len(w) : w[i] \in Byte
    <3>1. w \in Seq(Byte)
      BY <1>4 DEF Data
    <3> QED BY <3>1, ElementOfSeq
  <2> QED BY <1>4, <2>1
<1>6. w = [i \in 1..4 |-> w[i]]
  <2>1. w = [i \in 1..Len(w) |-> w[i]]
    BY <1>4 DEF Data
  <2> QED BY <1>4, <2>1
<1>7. w \in Word32
  BY <1>5, <1>6 DEF Word32
<1> QED BY <1>1, <1>7 DEF w, x, y

\* handle_authorize fills in every field of its response; the addresses are the cached
\* ones, where it lets the phone in.
LEMMA AuthorizeIs ==
    ASSUME NEW request \in YAAuthorizeEventRequest
    PROVE  LET r == AuthorizeResponse(request)
           IN  /\ r \in YAAuthorizeEventResponse /\ Len(r.macs) < Half
               /\ r.macs = macs_csv.text \/ r.success = FALSE
<1> DEFINE r == AuthorizeResponse(request)
           u == IF Accepted(request) THEN ClientUid ELSE Word(0, 4)
           s == IF Accepted(request) THEN <<0, 0>> \o SessionPort ELSE Word(0, 4)
           c == IF Accepted(request) THEN <<0, 0>> \o CommandPort ELSE Word(0, 4)
           m == IF Accepted(request) THEN macs_csv.text ELSE <<>>
           scale == IF Accepted(request) THEN ya_primary_scale(Environment) ELSE 1
           ok == Accepted(request)
<1>1. Word(0, 4) \in Word32
  <2>1. 0 \in Byte
    BY DEF Byte
  <2> QED BY <2>1, WordOfCode
<1>2. u \in Word32
  BY <1>1, AnswersAssumption
<1>3. s \in Word32
  <2>1. <<0, 0>> \o SessionPort \in Word32
    BY PortWord, AnswersAssumption
  <2> QED BY <1>1, <2>1
<1>4. c \in Word32
  <2>1. <<0, 0>> \o CommandPort \in Word32
    BY PortWord, AnswersAssumption
  <2> QED BY <1>1, <2>1
<1>5. macs_csv.text \in Data /\ Len(macs_csv.text) < Half
  <2> DEFINE w == FALSE
  <2>1. w \in BOOLEAN
    OBVIOUS
  <2> HIDE DEF w
  <2>2. ya_get_macs_csv(w, Adapters).text \in Data /\ Len(ya_get_macs_csv(w, Adapters).text) < Half
    BY <2>1, MacsTold
  <2> QED BY <2>2 DEF macs_csv, w
<1>6. <<>> \in Data /\ Len(<<>>) < Half
  BY DEF Data, Half, MaxLength
<1>7. m \in Data /\ Len(m) < Half
  BY <1>5, <1>6
<1>8. Float[scale] \in Word32
  BY AnswersAssumption
<1>9. ok \in BOOLEAN
  BY Zenon DEF Accepted
<1>10. request.version \in Word32
  BY DEF YAAuthorizeEventRequest
<1>11. Word(YAServerOSType.OS_LINUX, 4) \in Word32
  <2>1. YAServerOSType.OS_LINUX \in Byte
    BY DEF YAServerOSType, Byte
  <2> QED BY <2>1, WordOfCode
<1> DEFINE os == Word(YAServerOSType.OS_LINUX, 4)  v == request.version  f == Float[scale]
<1>12. r = [success |-> ok, os_type |-> os, uid |-> u, session_port |-> s, command_port |-> c,
            macs |-> m, display_scale |-> f, client_version |-> v]
  BY Zenon DEF AuthorizeResponse
<1>13. m = macs_csv.text \/ ok = FALSE
  BY <1>9
<1> HIDE DEF ok, os, u, s, c, m, f, v, r, scale
<1>14. r.macs = m /\ r.success = ok
  BY <1>12, Zenon
<1>15. r \in YAAuthorizeEventResponse
  BY <1>2, <1>3, <1>4, <1>7, <1>8, <1>9, <1>10, <1>11, <1>12 DEF YAAuthorizeEventResponse, os, f, v
<1> QED BY <1>7, <1>13, <1>14, <1>15 DEF r

\* Parameters of responses.
AnswerParams ==
    YAAuthorizeEventResponse \cup YADiscoverEventResponse \cup YAInputGetEventResponse \cup {NoParam}

\* The responses the server makes.
Answers ==
    {a \in [type : AnswerTypes, direction : {"RESPONSE"}, uid : Word32, index : Word32,
            param : AnswerParams] :
        /\ IsAnswer(a)
        /\ a.type = "AUTHORIZE" => a.param.macs = macs_csv.text \/ a.param.success = FALSE}

\* What the set of answers says of each.
LEMMA AnswersAre == ASSUME NEW a \in Answers PROVE IsAnswer(a)
BY Zenon DEF Answers

\* A response made for an event, with a parameter of the event's type.
LEMMA MadeAnswer ==
    ASSUME NEW e, e.uid \in Word32, e.index \in Word32, ~ Negative(e.uid), ~ Negative(e.index),
           NEW p, Fits(e.type, p),
           e.type = "AUTHORIZE" => p.macs = macs_csv.text \/ p.success = FALSE
    PROVE  Response(e, p) \in Answers
<1> DEFINE a == Response(e, p)
<1>1. a = [type |-> e.type, direction |-> "RESPONSE", uid |-> e.uid, index |-> e.index, param |-> p]
  BY Zenon DEF Response
<1> HIDE DEF a
<1>2. a.type = e.type /\ a.direction = "RESPONSE" /\ a.uid = e.uid /\ a.index = e.index /\ a.param = p
  BY <1>1
<1>3. p \in AnswerParams
  <2>1. \/ p \in YAAuthorizeEventResponse \/ p \in YADiscoverEventResponse
        \/ p \in YAInputGetEventResponse \/ p = NoParam
    BY Zenon DEF Fits
  <2> QED BY <2>1, Zenon DEF AnswerParams
<1>4. IsAnswer(a)
  BY <1>2, Zenon DEF IsAnswer
<1>5. a.type \in AnswerTypes
  BY <1>4, AnswerType
<1>6. a \in [type : AnswerTypes, direction : {"RESPONSE"}, uid : Word32, index : Word32, param : AnswerParams]
  BY <1>1, <1>2, <1>3, <1>5
<1> QED BY <1>2, <1>4, <1>6, Zenon DEF Answers, a

\* What the body of an AUTHORIZE package means.
LEMMA AuthorizeMeans ==
    ASSUME NEW p, Writes(p), TypeName(p.code) = "AUTHORIZE", p.means # NoParam
    PROVE  p.means \in YAAuthorizeEventRequest
<1> DEFINE type == TypeName(p.code)
           Array(fields) == \E head \in \h90..\h9F : Begins(p.body, <<head>> \o fields)
<1>1. type = "AUTHORIZE" /\ type \notin CommonTypes
  BY DEF CommonTypes
<1>2. p.body # <<>>
  BY Zenon DEF Writes
<1> QED BY <1>1, <1>2, Zenon DEF Writes

\* Whatever a handler makes of an event the phone meant, and the serializer can read,
\* is such a response: no parameter of another type and no text too long for its
\* length.
LEMMA HandlersAnswer ==
    ASSUME NEW p \in Packages \cup Datagrams \cup Searches, Readable(p),
           NEW client \in BOOLEAN, NEW connected, NEW r \in process_server_event(Meant(p), client, connected),
           r # Nothing, ~ NullRead(r)
    PROVE  r \in Answers
<1> DEFINE e == Meant(p)
<1>1. /\ e.type = TypeName(p.code) /\ e.uid = p.uid /\ e.index = p.index /\ e.param = p.means
      /\ e.uid \in Word32 /\ e.index \in Word32 /\ ~ Negative(e.uid) /\ ~ Negative(e.index) /\ Writes(p)
  BY PackagesAssumption DEF Meant, Readable
<1> HIDE DEF e
<1>2. r \in Handlers(e)
  BY DEF process_server_event, e
<1>3. CASE e.type = "AUTHORIZE" /\ e.param # NoParam
  <2>1. r = Response(e, AuthorizeResponse(e.param))
    BY <1>2, <1>3 DEF Handlers
  <2>2. e.param \in YAAuthorizeEventRequest
    BY <1>1, <1>3, AuthorizeMeans
  <2>3. PICK w : w = AuthorizeResponse(e.param)
    OBVIOUS
  <2>4. w \in YAAuthorizeEventResponse /\ Len(w.macs) < Half /\ (w.macs = macs_csv.text \/ w.success = FALSE)
    BY <2>2, <2>3, AuthorizeIs
  <2>5. Fits(e.type, w)
    BY <1>3, <2>4 DEF Fits
  <2> QED BY <1>1, <2>1, <2>3, <2>4, <2>5, MadeAnswer
<1>4. CASE e.type = "DISCOVER" /\ e.param # NoParam
  <2> DEFINE w == [port |-> <<0, 0>> \o SessionPort]
  <2>1. r = Response(e, w)
    BY <1>2, <1>4 DEF Handlers, handle_discover
  <2>2. w \in YADiscoverEventResponse
    BY PortWord, AnswersAssumption DEF YADiscoverEventResponse
  <2> HIDE DEF w
  <2>3. Fits(e.type, w)
    BY <1>4, <2>2 DEF Fits
  <2>4. e.type # "AUTHORIZE"
    BY <1>4
  <2> QED BY <1>1, <2>1, <2>3, <2>4, MadeAnswer
<1>5. CASE e.type = "HEARTBEAT"
  <2>1. r = Response(e, NoParam)
    BY <1>2, <1>5 DEF Handlers
  <2>2. Fits(e.type, NoParam)
    BY <1>5 DEF Fits
  <2>3. e.type # "AUTHORIZE"
    BY <1>5
  <2> QED BY <1>1, <2>1, <2>2, <2>3, MadeAnswer
<1>6. CASE e.type = "TEXT_GET"
  <2>1. PICK t \in Clipboard : r = Response(e, [text |-> t])
    BY <1>2, <1>6 DEF Handlers
  <2> DEFINE w == [text |-> t]
  <2>2. w \in YAInputGetEventResponse /\ w.text = t /\ Len(t) < Half
    BY AnswersAssumption DEF YAInputGetEventResponse, Half
  <2> HIDE DEF w
  <2>3. Fits(e.type, w)
    BY <1>6, <2>2 DEF Fits
  <2>4. e.type # "AUTHORIZE" /\ r = Response(e, w)
    BY <1>6, <2>1 DEF w
  <2> QED BY <1>1, <2>3, <2>4, MadeAnswer
<1>7. CASE e.type = "CONTROL"
  <2>1. r = Response(e, NoParam)
    BY <1>2, <1>7 DEF Handlers
  <2>2. NullRead(r)
    BY <1>7, <2>1 DEF NullRead, Response, SerializedTypes, CommonTypes
  <2> QED BY <2>2
<1>8. CASE e.type \in {"AUTHORIZE", "DISCOVER"} /\ e.param = NoParam
  BY <1>2, <1>8 DEF Handlers
<1>9. CASE e.type \notin {"AUTHORIZE", "DISCOVER", "HEARTBEAT", "CONTROL", "TEXT_GET"}
  BY <1>2, <1>9 DEF Handlers
<1> QED BY <1>3, <1>4, <1>5, <1>6, <1>7, <1>8, <1>9

---------------------------------------------------------------------------
(* The answers on the session. *)

\* The responses made are the server's and output is their packages.
AnswersInv == answered \in Seq(Answers) /\ AnsweredBy(output, answered)

\* One more response is sent.
LEMMA AnswersAppended ==
    ASSUME AnswersInv, NEW r \in Answers, answered' = Append(answered, r),
           output' = output \o ya_serialize_event(r)
    PROVE  AnswersInv'
<1>1. answered \in Seq(Answers) /\ AnsweredBy(output, answered)
  BY Zenon DEF AnswersInv
<1>2. /\ Append(answered, r) \in Seq(Answers) /\ Len(Append(answered, r)) = Len(answered) + 1
      /\ Append(answered, r)[Len(answered) + 1] = r
      /\ \A i \in 1..Len(answered) : Append(answered, r)[i] = answered[i]
  BY <1>1, AppendProperties
<1>3. IsAnswer(r)
  BY AnswersAre
<1> DEFINE t == Append(answered, r)
<1> HIDE DEF t
<1>4. AnsweredBy(output \o ya_serialize_event(r), t)
  BY <1>1, <1>2, <1>3, OneMoreAnswered DEF t
<1>5. answered' = t
  BY DEF t
<1> QED BY <1>2, <1>4, <1>5 DEF AnswersInv, t

\* A response that leaves the process running has what its serializer reads.
LEMMA FateReads ==
    ASSUME NEW e, NEW client, NEW connected, NEW r, Fate(e, client, connected, r) = "no", r # Nothing
    PROVE  ~ NullRead(r)
<1> DEFINE fault == Fault(e, connected)  handled == ~ Ignored(e, client)  null == NullRead(r)
<1> HIDE DEF fault, handled, null
<1>1. (CASE handled /\ fault # "no" -> fault
         [] r # Nothing /\ null -> "response"
         [] OTHER -> "no") = "no"
  BY Zenon DEF Fate, fault, handled, null
<1>2. ~ (handled /\ fault # "no")
  BY <1>1
<1>3. ~ null
  BY <1>1, <1>2
<1> QED BY <1>3 DEF null

\* conn_readcb sends nothing, or one response that process_server_event made for the
\* package it has parsed.
LEMMA ReadAnswers ==
    ASSUME NEW n \in Pieces, conn_readcb(n)
    PROVE  \/ UNCHANGED <<answered, output>>
           \/ \E event, r : /\ parsed' = Append(parsed, event)
                            /\ r \in process_server_event(event, TRUE, TRUE) /\ r # Nothing /\ ~ NullRead(r)
                            /\ answered' = Append(answered, r) /\ output' = output \o ya_serialize_event(r)
<1> DEFINE Sent(event, r) ==
              /\ died' = Fate(event, TRUE, TRUE, r)
              /\ IF r = Nothing \/ died' # "no" THEN UNCHANGED <<answered, output>>
                 ELSE /\ answered' = Append(answered, r)
                      /\ output' = output \o ya_serialize_event(r)
<1>1. PICK in, got :
          \/ UNCHANGED <<answered, output>>
          \/ /\ parsed' = Append(parsed, got.event)
             /\ \E r \in process_server_event(got.event, TRUE, TRUE) : Sent(got.event, r)
  BY Zenon DEF conn_readcb
<1>2. CASE UNCHANGED <<answered, output>>
  BY <1>2
<1>3. CASE /\ parsed' = Append(parsed, got.event)
           /\ \E r \in process_server_event(got.event, TRUE, TRUE) : Sent(got.event, r)
  <2>1. PICK r \in process_server_event(got.event, TRUE, TRUE) : Sent(got.event, r)
    BY <1>3, Zenon
  <2>2. CASE r = Nothing \/ died' # "no"
    BY <2>1, <2>2
  <2>3. CASE r # Nothing /\ died' = "no"
    <3>1. ~ NullRead(r)
      BY <2>1, <2>3, FateReads
    <3>2. answered' = Append(answered, r) /\ output' = output \o ya_serialize_event(r)
      BY <2>1, <2>3, Zenon
    <3> QED BY <1>3, <2>3, <3>1, <3>2, Zenon
  <2> QED BY <2>2, <2>3, Zenon
<1> QED BY <1>1, <1>2, <1>3, Zenon

\* conn_readcb answers what the phone meant, since the package it parsed is the
\* phone's.
LEMMA AnswersStep ==
    ASSUME StreamInv, StreamInv', AnswersInv, NEW n \in Pieces, conn_readcb(n)
    PROVE  AnswersInv'
<1>1. CASE UNCHANGED <<answered, output>>
  BY <1>1 DEF AnswersInv
<1>2. CASE \E event, r : /\ parsed' = Append(parsed, event)
                         /\ r \in process_server_event(event, TRUE, TRUE) /\ r # Nothing /\ ~ NullRead(r)
                         /\ answered' = Append(answered, r) /\ output' = output \o ya_serialize_event(r)
  <2>1. PICK event, r : /\ parsed' = Append(parsed, event)
                        /\ r \in process_server_event(event, TRUE, TRUE) /\ r # Nothing /\ ~ NullRead(r)
                        /\ answered' = Append(answered, r) /\ output' = output \o ya_serialize_event(r)
    BY <1>2
  <2>2. PICK p \in Packages : Readable(p) /\ event = Meant(p)
    BY <2>1, LastParsed
  <2>3. r \in Answers
    BY <2>1, <2>2, HandlersAnswer
  <2> QED BY <2>1, <2>3, AnswersAppended
<1> QED BY <1>1, <1>2, ReadAnswers, Zenon

\* The inductive invariant of the answers: output is the packages of the responses
\* made, and nothing else.
THEOREM AnswersCorrect == Spec => []AnswersInv
<1>1. Init => AnswersInv
  <2>1. ASSUME Init PROVE AnswersInv
    <3>1. <<>> \in Seq(Answers)
      OBVIOUS
    <3>2. answered = <<>> /\ output = <<>>
      BY <2>1 DEF Init
    <3> QED BY <3>1, <3>2, NoneAnswered, Zenon DEF AnswersInv
  <2> QED BY <2>1
<1>2. StreamInv /\ StreamInv' /\ AnswersInv /\ [Next]_vars => AnswersInv'
  <2> SUFFICES ASSUME StreamInv, StreamInv', AnswersInv, [Next]_vars PROVE AnswersInv'
    OBVIOUS
  <2>1. CASE \E n \in Pieces : conn_readcb(n)
    BY <2>1, AnswersStep
  <2>2. CASE UNCHANGED <<answered, output>>
    BY <2>2 DEF AnswersInv
  <2>3. CASE \E p \in Packages : PhoneWrites(p)
    <3>1. UNCHANGED <<answered, output>>
      BY <2>3 DEF PhoneWrites
    <3> QED BY <2>2, <3>1
  <2>4. CASE \E p, bytes : Sends(p, bytes) /\ (udp_readcb(p, bytes) \/ run_loop(p, bytes))
    <3>1. UNCHANGED <<answered, output>>
      BY <2>4 DEF udp_readcb, run_loop
    <3> QED BY <2>2, <3>1
  <2>5. CASE UNCHANGED vars
    <3>1. UNCHANGED <<answered, output>>
      BY <2>5 DEF vars
    <3> QED BY <2>2, <3>1
  <2> QED BY <2>1, <2>3, <2>4, <2>5, NextSteps, Zenon
<1>3. FramingInv => StreamInv
  BY DEF FramingInv
<1> QED BY <1>1, <1>2, <1>3, FramingCorrect, PTL DEF Spec

---------------------------------------------------------------------------
(* What the answers promise. *)

\* Every answer has the fields of a response and its parameter, and gives back what it
\* holds but for the parameter of TEXT_GET.
LEMMA AnswerSound ==
    ASSUME NEW a \in Answers
    PROVE  /\ IsYAEvent(a, "RESPONSE", ResponseParam(a.type))
           /\ ya_free_event(a) \subseteq Blocks(a)
           /\ Blocks(a) \ ya_free_event(a) = IF a.type = "TEXT_GET" THEN {"param"} ELSE {}
<1>1. /\ a = [type |-> a.type, direction |-> a.direction, uid |-> a.uid, index |-> a.index, param |-> a.param]
      /\ a.direction = "RESPONSE" /\ a.uid \in Word32 /\ a.index \in Word32 /\ IsAnswer(a)
  BY DEF Answers
<1>2. Fits(a.type, a.param)
  BY <1>1, Zenon DEF IsAnswer
<1> DEFINE t == a.type  p == a.param  h == [f \in DOMAIN a \ {"param"} |-> a[f]]
<1>3. DOMAIN a = {"type", "direction", "uid", "index", "param"}
  BY <1>1
<1>4. h \in YAEventHeader(t, "RESPONSE")
  <2>1. DOMAIN a \ {"param"} = {"type", "direction", "uid", "index"}
    BY <1>3
  <2>2. h = [type |-> t, direction |-> "RESPONSE", uid |-> a.uid, index |-> a.index]
    BY <1>1, <2>1
  <2> HIDE DEF h, t
  <2> QED BY <1>1, <2>2 DEF YAEventHeader
<1>5. p = NoParam \/ p \in ResponseParam(t)
  <2>1. CASE t = "AUTHORIZE"
    BY <1>2, <2>1 DEF Fits, ResponseParam
  <2>2. CASE t = "DISCOVER"
    BY <1>2, <2>2 DEF Fits, ResponseParam
  <2>3. CASE t = "TEXT_GET"
    BY <1>2, <2>3 DEF Fits, ResponseParam
  <2>4. CASE t = "HEARTBEAT"
    BY <1>2, <2>4 DEF Fits
  <2> QED BY <1>2, <2>1, <2>2, <2>3, <2>4 DEF Fits
<1>6. IsYAEvent(a, "RESPONSE", ResponseParam(t))
  BY <1>3, <1>4, <1>5, Zenon DEF IsYAEvent
<1>7. t = "HEARTBEAT" => p = NoParam
  BY <1>2 DEF Fits
<1>8. t \in {"AUTHORIZE", "DISCOVER", "TEXT_GET"} => p # NoParam
  BY <1>2 DEF Fits, NoParam, YAAuthorizeEventResponse, YADiscoverEventResponse, YAInputGetEventResponse
<1>9. t \in {"AUTHORIZE", "DISCOVER", "TEXT_GET", "HEARTBEAT"}
  BY <1>2 DEF Fits
<1>10. /\ ya_free_event(a) \subseteq Blocks(a)
       /\ Blocks(a) \ ya_free_event(a) = IF t = "TEXT_GET" THEN {"param"} ELSE {}
  <2>1. CASE t = "AUTHORIZE"
    <3>1. Blocks(a) = {"event", "param", "macs"} /\ ya_free_event(a) = {"event", "macs", "param"}
      BY <1>1, <1>8, <2>1 DEF Blocks, ya_free_event, ya_free_event_param
    <3> QED BY <2>1, <3>1
  <2>2. CASE t = "DISCOVER"
    <3>1. Blocks(a) = {"event", "param"} /\ ya_free_event(a) = {"event", "param"}
      BY <1>1, <1>8, <2>2 DEF Blocks, ya_free_event, ya_free_event_param
    <3> QED BY <2>2, <3>1
  <2>3. CASE t = "TEXT_GET"
    <3>1. Blocks(a) = {"event", "param", "text"} /\ ya_free_event(a) = {"event", "text"}
      BY <1>1, <1>8, <2>3 DEF Blocks, ya_free_event, ya_free_event_param
    <3> QED BY <2>3, <3>1
  <2>4. CASE t = "HEARTBEAT"
    <3>1. Blocks(a) = {"event"} /\ ya_free_event(a) = {"event"}
      BY <1>1, <1>7, <2>4 DEF Blocks, ya_free_event, ya_free_event_param
    <3> QED BY <2>4, <3>1
  <2> QED BY <1>9, <2>1, <2>2, <2>3, <2>4
<1> QED BY <1>6, <1>10

\* What conn_readcb sends decodes, package by package, into the responses the handlers
\* made (ya_server_handler.c, ya_event.c:178-283), and ya_free_event frees what each of
\* them holds but for the parameter of TEXT_GET (ya_event.c:433-492).
THEOREM AnswersAreInStep == Spec => []AnswersInStep
<1>1. AnswersInv => AnswersInStep
  <2> SUFFICES ASSUME AnswersInv PROVE AnswersInStep
    OBVIOUS
  <2>1. answered \in Seq(Answers) /\ AnsweredBy(output, answered)
    BY Zenon DEF AnswersInv
  <2>2. Decodes(output, answered)
    BY <2>1, AnsweredDecodes
  <2>3. \A i \in 1..Len(answered) : answered[i] \in Answers
    BY <2>1, ElementOfSeq
  <2>4. ASSUME NEW i \in 1..Len(answered)
        PROVE  /\ IsYAEvent(answered[i], "RESPONSE", ResponseParam(answered[i].type))
               /\ ya_free_event(answered[i]) \subseteq Blocks(answered[i])
               /\ Blocks(answered[i]) \ ya_free_event(answered[i])
                      = IF answered[i].type = "TEXT_GET" THEN {"param"} ELSE {}
    BY <2>3, AnswerSound
  <2> QED BY <2>2, <2>4, Zenon DEF AnswersInStep
<1> QED BY <1>1, AnswersCorrect, PTL

\* A phone that was let in can tell every eligible adapter's address from the text it
\* got, and the server wrote the text within its buffer (ya_utils.c).
THEOREM AdaptersAreTold == Spec => []AdaptersTold
<1>1. AnswersInv => AdaptersTold
  <2> SUFFICES ASSUME AnswersInv, NEW i \in 1..Len(answered), answered[i].type = "AUTHORIZE",
                      answered[i].param.success
               PROVE  /\ answered[i].param.macs = ya_get_macs_csv(FALSE, Adapters).text
                      /\ \A windows \in BOOLEAN :
                            LET csv  == ya_get_macs_csv(windows, Adapters)
                                told == Eligible(windows, Adapters)
                            IN  /\ Len(csv.text) + 1 <= csv.capacity
                                /\ IF told = <<>> THEN csv.text = <<>>
                                   ELSE CutAt(csv.text, Comma)
                                            = [j \in 1..Len(told) |-> format_mac_lower_colon(told[j].bytes)]
    BY Zenon DEF AdaptersTold
  <2>1. answered \in Seq(Answers)
    BY Zenon DEF AnswersInv
  <2>2. PICK a \in Answers : a = answered[i]
    BY <2>1, ElementOfSeq
  <2>3. a.type = "AUTHORIZE" /\ a.param.success
    BY <2>2
  <2>4. a.param.macs = macs_csv.text \/ a.param.success = FALSE
    BY <2>3, Zenon DEF Answers
  <2>5. a.param.macs = macs_csv.text
    BY <2>3, <2>4
  <2>6. answered[i].param.macs = ya_get_macs_csv(FALSE, Adapters).text
    BY <2>2, <2>5, Zenon DEF macs_csv
  <2> QED BY <2>6, MacsTold, Zenon
<1> QED BY <1>1, AnswersCorrect, PTL

\* What was made of the last datagram, in memory and in bytes.
HeardAnswered ==
    heard # Nothing =>
        \/ heard.answered = Nothing /\ heard.answer = <<>>
        \/ heard.answered # Nothing /\ heard.answered \in Answers
           /\ heard.answer = ya_serialize_event(heard.answered)

\* A datagram and what was made of it.
LEMMA HeardWithAnswer ==
    ASSUME NEW p, NEW port, NEW event, NEW r, Heard(p, port, event, r), r = Nothing \/ r \in Answers
    PROVE  HeardAnswered'
<1> DEFINE b == IF r = Nothing THEN <<>> ELSE ya_serialize_event(r)
<1>1. heard' = [of |-> p, port |-> port, event |-> event, answered |-> r, answer |-> b]
  BY Zenon DEF Heard
<1>2. \/ r = Nothing /\ b = <<>>
      \/ r # Nothing /\ r \in Answers /\ b = ya_serialize_event(r)
  OBVIOUS
<1> HIDE DEF b
<1>3. heard'.answered = r /\ heard'.answer = b
  BY <1>1
<1> QED BY <1>2, <1>3, Zenon DEF HeardAnswered

\* The answer of run_loop, with the port's bytes the other way round.
LEMMA SearchAnswered == SearchAnswer \in Answers
<1> DEFINE w == <<0, 0, SessionPort[2], SessionPort[1]>>
           p == [port |-> w]
           e == [type |-> "DISCOVER", uid |-> Word(0, 4), index |-> Word(0, 4)]
<1>1. SessionPort[1] \in Byte /\ SessionPort[2] \in Byte
  BY AnswersAssumption
<1>2. w \in Word32
  BY <1>1 DEF Word32, Byte
<1>3. p \in YADiscoverEventResponse
  BY <1>2 DEF YADiscoverEventResponse
<1>4. Word(0, 4) \in Word32 /\ ~ Negative(Word(0, 4))
  <2>1. 0 \in Byte
    BY DEF Byte
  <2> QED BY <2>1, WordOfCode
<1> DEFINE z == Word(0, 4)
<1>5. SearchAnswer = [type |-> "DISCOVER", direction |-> "RESPONSE", uid |-> z, index |-> z, param |-> p]
  BY Zenon DEF SearchAnswer
<1> HIDE DEF z, p
<1>6. e.type = "DISCOVER" /\ e.uid \in Word32 /\ e.index \in Word32 /\ ~ Negative(e.uid) /\ ~ Negative(e.index)
  BY <1>4
<1>7. Response(e, p) = [type |-> "DISCOVER", direction |-> "RESPONSE", uid |-> z, index |-> z, param |-> p]
  BY DEF Response, z
<1> HIDE DEF e
<1>8. Fits(e.type, p) /\ e.type # "AUTHORIZE"
  BY <1>3, <1>6 DEF Fits
<1>9. Response(e, p) \in Answers
  BY <1>6, <1>8, MadeAnswer
<1> QED BY <1>5, <1>7, <1>9

\* Both UDP ports answer with one package or not at all.
THEOREM DatagramsAnswered == Spec => []HeardAnswered
<1>1. Init => HeardAnswered
  BY DEF Init, HeardAnswered
<1>2. HeardAnswered /\ [Next]_vars => HeardAnswered'
  <2> SUFFICES ASSUME HeardAnswered, [Next]_vars PROVE HeardAnswered'
    OBVIOUS
  <2>1. CASE \E p \in Packages : PhoneWrites(p)
    <3>1. heard' = Nothing
      BY <2>1 DEF PhoneWrites
    <3> QED BY <3>1 DEF HeardAnswered
  <2>2. CASE \E n \in Pieces : conn_readcb(n)
    <3>1. heard' = heard
      BY <2>2 DEF conn_readcb
    <3> QED BY <3>1 DEF HeardAnswered
  <2>3. CASE \E p, bytes : Sends(p, bytes) /\ (udp_readcb(p, bytes) \/ run_loop(p, bytes))
    <3>1. PICK p, bytes : Sends(p, bytes) /\ (udp_readcb(p, bytes) \/ run_loop(p, bytes))
      BY <2>3
    <3>2. \/ \E port, event : \E a \in {Nothing, SearchAnswer} : Heard(p, port, event, a)
          \/ /\ p \in Datagrams \cup Searches /\ Readable(p)
             /\ \E client \in BOOLEAN : \E r \in process_server_event(Meant(p), client, FALSE) :
                   /\ died' = Fate(Meant(p), client, FALSE, r)
                   /\ Heard(p, "command", Meant(p), IF up' THEN r ELSE Nothing)
      BY <3>1, CommandHears, SearchHears, Zenon
    <3>3. CASE \E port, event : \E a \in {Nothing, SearchAnswer} : Heard(p, port, event, a)
      <4>1. PICK port, event, a : a \in {Nothing, SearchAnswer} /\ Heard(p, port, event, a)
        BY <3>3, Zenon
      <4>2. a = Nothing \/ a \in Answers
        BY <4>1, SearchAnswered, Zenon
      <4> QED BY <4>1, <4>2, HeardWithAnswer
    <3>4. CASE /\ p \in Datagrams \cup Searches /\ Readable(p)
               /\ \E client \in BOOLEAN : \E r \in process_server_event(Meant(p), client, FALSE) :
                     /\ died' = Fate(Meant(p), client, FALSE, r)
                     /\ Heard(p, "command", Meant(p), IF up' THEN r ELSE Nothing)
      <4>1. PICK client \in BOOLEAN : \E r \in process_server_event(Meant(p), client, FALSE) :
                     /\ died' = Fate(Meant(p), client, FALSE, r)
                     /\ Heard(p, "command", Meant(p), IF up' THEN r ELSE Nothing)
        BY <3>4, Zenon
      <4>2. PICK r \in process_server_event(Meant(p), client, FALSE) :
                     /\ died' = Fate(Meant(p), client, FALSE, r)
                     /\ Heard(p, "command", Meant(p), IF up' THEN r ELSE Nothing)
        BY <4>1, Zenon
      <4>3. CASE ~ up'
        <5>1. Heard(p, "command", Meant(p), Nothing)
          BY <4>2, <4>3
        <5> QED BY <5>1, HeardWithAnswer
      <4>4. CASE up'
        <5>1. Fate(Meant(p), client, FALSE, r) = "no"
          BY <4>2, <4>4 DEF up
        <5>2. r # Nothing => ~ NullRead(r)
          BY <5>1, FateReads, Zenon
        <5>3. r = Nothing \/ r \in Answers
          BY <3>4, <5>2, HandlersAnswer
        <5>4. Heard(p, "command", Meant(p), r)
          BY <4>2, <4>4
        <5> QED BY <5>3, <5>4, HeardWithAnswer
      <4> QED BY <4>3, <4>4
    <3> QED BY <3>2, <3>3, <3>4, Zenon
  <2>4. CASE UNCHANGED vars
    <3>1. heard' = heard
      BY <2>4 DEF vars
    <3> QED BY <3>1 DEF HeardAnswered
  <2> QED BY <2>1, <2>2, <2>3, <2>4, NextSteps, Zenon
<1> QED BY <1>1, <1>2, PTL DEF Spec

\* A datagram that ended the process, before the session was used.
HeardEnds ==
    /\ sent = <<>> => wire = <<>>
    /\ heard # Nothing => wire = <<>>
    /\ heard # Nothing /\ ~ up =>
          heard.answered = Nothing /\ (heard.of = Stray \/ ~ Harmless(heard.of, heard.port))

\* A datagram that ends the process is not answered, and the phone had no reason to
\* expect one.
LEMMA HeardWithEnd ==
    ASSUME NEW p, NEW port, NEW event, NEW r, Heard(p, port, event, r), sent' = <<>>, wire' = <<>>,
           up' \/ (r = Nothing /\ (p = Stray \/ ~ Harmless(p, port)))
    PROVE  HeardEnds'
<1>1. heard'.of = p /\ heard'.port = port /\ heard'.answered = r
  BY DEF Heard
<1> QED BY <1>1, Zenon DEF HeardEnds

\* On both UDP ports the process ends by nothing but a datagram without its sizes, or by
\* a package whose handler, or run_loop, reads a parameter or a connection that is NULL
\* (ya_utils.c:128, ya_server_handler.c:149, 656, 867, ya_server_discover.c:142,
\* ya_event.c:289).
THEOREM DatagramsEnd == Spec => []HeardEnds
<1>1. Init => HeardEnds
  BY DEF Init, HeardEnds
<1>2. StreamInv /\ HeardEnds /\ [Next]_vars => HeardEnds'
  <2> SUFFICES ASSUME StreamInv, HeardEnds, [Next]_vars PROVE HeardEnds'
    OBVIOUS
  <2>1. CASE \E p \in Packages : PhoneWrites(p)
    <3>1. PICK p \in Packages : heard' = Nothing /\ sent' = Append(sent, p)
      BY <2>1 DEF PhoneWrites
    <3>2. sent' # <<>>
      <4>1. sent \in Seq(Packages)
        BY Zenon DEF StreamInv, SessionOK
      <4> QED BY <3>1, <4>1
    <3> QED BY <3>1, <3>2, Zenon DEF HeardEnds
  <2>2. CASE \E n \in Pieces : conn_readcb(n)
    <3>1. wire # <<>> /\ heard' = heard /\ sent' = sent
      BY <2>2 DEF conn_readcb
    <3> QED BY <3>1 DEF HeardEnds
  <2>3. CASE \E p, bytes : Sends(p, bytes) /\ (udp_readcb(p, bytes) \/ run_loop(p, bytes))
    <3>1. PICK p, bytes : Sends(p, bytes) /\ (udp_readcb(p, bytes) \/ run_loop(p, bytes))
      BY <2>3
    <3>2. sent' = <<>> /\ wire' = <<>>
      <4>1. sent = <<>> /\ sent' = sent /\ wire' = wire
        BY <3>1 DEF udp_readcb, run_loop
      <4> QED BY <4>1 DEF HeardEnds
    <3>3. CASE udp_readcb(p, bytes)
      <4>1. CASE Heard(p, "command", Nothing, Nothing) /\ (up' \/ p = Stray)
        BY <3>2, <4>1, HeardWithEnd
      <4>2. CASE \E client \in BOOLEAN : \E r \in process_server_event(Meant(p), client, FALSE) :
                    /\ died' = Fate(Meant(p), client, FALSE, r)
                    /\ Heard(p, "command", Meant(p), IF up' THEN r ELSE Nothing)
        <5>1. PICK client \in BOOLEAN : \E r \in process_server_event(Meant(p), client, FALSE) :
                    /\ died' = Fate(Meant(p), client, FALSE, r)
                    /\ Heard(p, "command", Meant(p), IF up' THEN r ELSE Nothing)
          BY <4>2, Zenon
        <5>2. PICK r \in process_server_event(Meant(p), client, FALSE) :
                    /\ died' = Fate(Meant(p), client, FALSE, r)
                    /\ Heard(p, "command", Meant(p), IF up' THEN r ELSE Nothing)
          BY <5>1, Zenon
        <5>3. Harmless(p, "command") => died' = "no"
          <6> DEFINE port == "command"
          <6>1. (port = "session") = FALSE /\ port \in {"session", "command"}
            OBVIOUS
          <6> HIDE DEF port
          <6>2. Harmless(p, port) => Fate(Meant(p), client, port = "session", r) = "no"
            BY <6>1, FateHarmless
          <6> QED BY <5>2, <6>1, <6>2 DEF port
        <5>4. PICK a : a = IF up' THEN r ELSE Nothing
          OBVIOUS
        <5>5. Heard(p, "command", Meant(p), a) /\ (up' \/ (a = Nothing /\ ~ Harmless(p, "command")))
          BY <5>2, <5>3, <5>4, Zenon DEF up
        <5> QED BY <3>2, <5>5, HeardWithEnd
      <4> QED BY <3>1, <3>3, <4>1, <4>2, CommandHears, Zenon
    <3>4. CASE run_loop(p, bytes)
      <4>1. p.means = NoParam => ~ Harmless(p, "discovery")
        BY DEF Harmless
      <4>2. \E event, a : /\ Heard(p, "discovery", event, a)
                          /\ up' \/ (a = Nothing /\ (p = Stray \/ p.means = NoParam))
        BY <3>1, <3>4, SearchHears, Zenon
      <4> QED BY <3>2, <4>1, <4>2, HeardWithEnd
    <3> QED BY <3>1, <3>3, <3>4
  <2>4. CASE UNCHANGED vars
    <3>1. UNCHANGED <<sent, wire, heard, died>>
      BY <2>4 DEF vars
    <3> QED BY <3>1 DEF HeardEnds, up
  <2> QED BY <2>1, <2>2, <2>3, <2>4, NextSteps, Zenon
<1>3. FramingInv => StreamInv
  BY DEF FramingInv
<1> QED BY <1>1, <1>2, <1>3, FramingCorrect, PTL DEF Spec

\* Both UDP ports: a datagram is the package the phone meant or nothing, its answer
\* decodes into the response (ya_server_command.c, ya_server_discover.c), and the process
\* ends without an answer, by nothing but a datagram that is not harmless.
THEOREM DatagramsAreWhole == Spec => []DatagramWhole
<1>1. HeardMeant /\ HeardAnswered /\ HeardEnds => DatagramWhole
  <2>1. ASSUME HeardMeant, HeardEnds, heard # Nothing,
               Decodes(heard.answer, IF heard.answered = Nothing THEN <<>> ELSE <<heard.answered>>)
        PROVE  DatagramWhole
    BY <2>1, Zenon DEF HeardMeant, HeardEnds, DatagramWhole
  <2> SUFFICES ASSUME HeardMeant, HeardAnswered, HeardEnds, heard # Nothing
               PROVE  Decodes(heard.answer, IF heard.answered = Nothing THEN <<>> ELSE <<heard.answered>>)
    BY <2>1, Zenon DEF DatagramWhole
  <2>2. CASE heard.answered = Nothing /\ heard.answer = <<>>
    <3>1. Decodes(<<>>, <<>>)
      BY NoneAnswered, AnsweredDecodes
    <3> QED BY <2>2, <3>1
  <2>3. CASE heard.answered # Nothing /\ heard.answered \in Answers /\ heard.answer = ya_serialize_event(heard.answered)
    <3>1. PICK a \in Answers : a = heard.answered
      BY <2>3
    <3>2. IsAnswer(a)
      BY AnswersAre
    <3>3. Len(<<a>>) = Len(<<>>) + 1 /\ <<a>>[Len(<<>>) + 1] = a /\ \A i \in 1..Len(<<>>) : <<a>>[i] = <<>>[i]
      OBVIOUS
    <3> DEFINE t == <<a>>  n == <<>>
    <3> HIDE DEF t, n
    <3>4. AnsweredBy(n, n)
      BY NoneAnswered DEF n
    <3>5. Len(t) = Len(n) + 1 /\ t[Len(n) + 1] = a /\ \A i \in 1..Len(n) : t[i] = n[i]
      BY <3>3 DEF t, n
    <3>6. AnsweredBy(n \o ya_serialize_event(a), t)
      BY <3>2, <3>4, <3>5, OneMoreAnswered
    <3>7. n \o ya_serialize_event(a) = ya_serialize_event(a)
      <4>1. <<>> \in Data
        BY DEF Data
      <4>2. ya_serialize_event(a) \in Data
        BY <3>2, <4>1, AnswerDecodes
      <4> QED BY <4>2, JoinedEmpty DEF n
    <3>8. Decodes(ya_serialize_event(a), t)
      BY <3>6, <3>7, AnsweredDecodes
    <3> QED BY <2>3, <3>1, <3>8, Zenon DEF t
  <2> QED BY <2>2, <2>3, Zenon DEF HeardAnswered
<1> QED BY <1>1, HeardAsMeant, DatagramsAnswered, DatagramsEnd, PTL

=============================================================================
