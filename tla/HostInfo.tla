------------------------------ MODULE HostInfo ------------------------------
(***************************************************************************)
(* What the server tells a phone about its machine (ya_utils.c): the       *)
(* network adapters' addresses, which a phone needs to wake the machine,   *)
(* and the scale of the display.                                           *)
(*                                                                         *)
(* An adapter is a record of what getifaddrs or GetAdaptersAddresses says: *)
(* whether it has an address, is a loopback or a tunnel, and has a         *)
(* link-layer address of some bytes.                                       *)
(* The environment gives each variable's text by what strtod and strtol    *)
(* make of it, 0 for a text that is no number or no variable at all;       *)
(* scales are whole numbers, and floats have the range of doubles.  A      *)
(* failing malloc is left out.                                             *)
(***************************************************************************)
EXTENDS Integers, Sequences

CONSTANTS
    FirstCapacity,  \* of the text's buffer, 128 bytes
    MaxFloat        \* products above it are not finite

ASSUME HostInfoAssumption == FirstCapacity \in Nat \ {0} /\ MaxFloat \in Nat \ {0}

Comma == 44
Colon == 58

\* A digit of "%02x".
Digit(d) == IF d < 10 THEN 48 + d ELSE 87 + d

\* Two digits for each of the six bytes, colons between them.
format_mac_lower_colon(bytes) ==
    [i \in 1..17 |-> CASE i % 3 = 0 -> Colon
                       [] i % 3 = 1 -> Digit(bytes[i \div 3 + 1] \div 16)
                       [] i % 3 = 2 -> Digit(bytes[i \div 3 + 1] % 16)]

Physical(bytes) == Len(bytes) = 6 /\ \E i \in 1..6 : bytes[i] # 0

OnUnix(a) == a.addressed /\ ~ a.loopback /\ a.link /\ Physical(a.bytes)

OnWindows(a) == ~ a.loopback /\ ~ a.tunnel /\ Physical(a.bytes)

\* The adapters the loop does not pass over.
Eligible(windows, adapters) ==
    LET Passes(a) == IF windows THEN OnWindows(a) ELSE OnUnix(a)
        With(before, a) == IF Passes(a) THEN Append(before, a) ELSE before
        Kept[i \in 0..Len(adapters)] ==
            IF i = 0 THEN <<>> ELSE With(Kept[i - 1], adapters[i])
    IN  Kept[Len(adapters)]

\* The capacity, doubled until n bytes are less than it.
Grown(capacity, n) ==
    LET Enough(c) == IF n < c THEN c ELSE 2 * c
        Doubled[k \in 0..n] == IF k = 0 THEN capacity ELSE Enough(Doubled[k - 1])
    IN  Doubled[n]

Needed(text, mac) == Len(mac) + 1 + (IF text = <<>> THEN 0 ELSE 1)

\* Faulty variant: no room is made for an address that does not fit.
Joined_Full(buffer, adapter) ==
    LET mac == format_mac_lower_colon(adapter.bytes)
    IN  [capacity |-> buffer.capacity,
         text |-> buffer.text \o (IF buffer.text = <<>> THEN <<>> ELSE <<Comma>>) \o mac]

Joined(buffer, adapter) ==
    LET mac == format_mac_lower_colon(adapter.bytes)
        n   == Len(buffer.text) + Needed(buffer.text, mac)
    IN  [capacity |-> Grown(buffer.capacity, n),
         text |-> buffer.text \o (IF buffer.text = <<>> THEN <<>> ELSE <<Comma>>) \o mac]

\* The text and its buffer's capacity; an empty text is freed, which is NULL.
ya_get_macs_csv(windows, adapters) ==
    LET told == Eligible(windows, adapters)
        Buffer[i \in 0..Len(told)] ==
            IF i = 0 THEN [capacity |-> FirstCapacity, text |-> <<>>]
            ELSE Joined(Buffer[i - 1], told[i])
    IN  Buffer[Len(told)]

---------------------------------------------------------------------------
ScaleVariables ==
    {"MH_DISPLAY_SCALE", "GDK_SCALE", "GDK_DPI_SCALE", "QT_SCALE_FACTOR", "QT_DEVICE_PIXEL_RATIO"}

\* A number strtod can read, finite and above zero; 0 otherwise.
ya_parse_scale_env(value) == IF value.double \in 1..MaxFloat THEN value.double ELSE 0

FirstPositive(s) == s[CHOOSE i \in DOMAIN s : s[i] > 0 /\ \A j \in 1..i - 1 : s[j] <= 0]

\* On Linux: the product of GDK's two scales where there is one.  (Elsewhere the
\* display itself is asked instead of GDK and Qt.)
ya_primary_scale(environment) ==
    LET scale(v) == ya_parse_scale_env(environment[v])
        gdk   == IF scale("GDK_SCALE") > 0 THEN scale("GDK_SCALE")
                 ELSE environment["GDK_SCALE"].long
        fine  == scale("GDK_DPI_SCALE")
        orOne(x) == IF x > 0 THEN x ELSE 1
        product == orOne(gdk) * orOne(fine)
    IN  FirstPositive(<<scale("MH_DISPLAY_SCALE"),
                        IF (gdk > 0 \/ fine > 0) /\ product <= MaxFloat THEN product ELSE 0,
                        scale("QT_SCALE_FACTOR"), scale("QT_DEVICE_PIXEL_RATIO"), 1>>)
=============================================================================
