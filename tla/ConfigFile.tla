----------------------------- MODULE ConfigFile -----------------------------
(***************************************************************************)
(* server.conf, as the server reads and writes it (ya_config.c) and as the *)
(* desktop application reads it (config_service.dart).                     *)
(*                                                                         *)
(* A text is the sequence of its bytes, without NUL.  A configuration is   *)
(* the array of entries with its capacity; whether realloc moved the array *)
(* is left to the caller.  Line ends are newlines: the carriage returns    *)
(* both programs accept as well are not modelled.                          *)
(***************************************************************************)
EXTENDS MPack, SequencesExt

CONSTANTS
    LineLength,     \* MAX_LINE_LENGTH, 256
    NameLength,     \* MAX_SECTION_LENGTH and MAX_KEY_LENGTH, 64
    ValueLength,    \* MAX_VALUE_LENGTH, 256
    Slack           \* an array that is full grows to twice its size and this, 8

ASSUME ConfigFileAssumption ==
    /\ LineLength \in Nat /\ LineLength >= 2 /\ NameLength + 2 < LineLength
    /\ NameLength \in Nat \ {0} /\ ValueLength \in Nat \ {0} /\ Slack \in Nat \ {0}

Newline == 10
White == {9, 10, 11, 12, 13, 32}
Quote == 34
Hash == 35
Semicolon == 59
Equals == 61
Opening == 91
Closing == 93

Places(text, bytes) == {i \in DOMAIN text : text[i] \in bytes}

trim_whitespace(text) ==
    LET solid == DOMAIN text \ Places(text, White)
    IN  IF solid = {} THEN <<>> ELSE SubSeq(text, Min(solid), Max(solid))

\* What stands before the first of the bytes, and after it.
Before(text, bytes) ==
    IF Places(text, bytes) = {} THEN text ELSE SubSeq(text, 1, Min(Places(text, bytes)) - 1)

After(text, bytes) ==
    IF Places(text, bytes) = {} THEN <<>>
    ELSE SubSeq(text, Min(Places(text, bytes)) + 1, Len(text))

remove_inline_comment(text) == trim_whitespace(Before(text, {Hash, Semicolon}))

\* What is left of a text in a buffer of n bytes.
safe_strncpy(text, n) == IF Len(text) < n THEN text ELSE SubSeq(text, 1, n - 1)

\* The text between a leading quote and the last one.
Unquoted(text) ==
    LET quotes == Places(text, {Quote})
    IN  IF 1 \in quotes /\ quotes # {1} THEN SubSeq(text, 2, Max(quotes) - 1) ELSE text

---------------------------------------------------------------------------
(* The configuration in memory. *)

Entry(section, key, value) ==
    [section |-> safe_strncpy(section, NameLength), key |-> safe_strncpy(key, NameLength),
     value |-> safe_strncpy(value, ValueLength)]

ya_config_init == [entries |-> <<>>, capacity |-> 0]

\* Faulty variant: the array is not grown when its last place is taken.
Added_Full(config, entry) ==
    [entries |-> Append(config.entries, entry),
     capacity |-> IF Len(config.entries) > config.capacity THEN config.capacity * 2 + Slack
                  ELSE config.capacity]

Added(config, entry) ==
    [entries |-> Append(config.entries, entry),
     capacity |-> IF Len(config.entries) >= config.capacity THEN config.capacity * 2 + Slack
                  ELSE config.capacity]

Matching(entries, section, key) ==
    {i \in DOMAIN entries : entries[i].section = section /\ entries[i].key = key}

\* The place of an entry, 0 if there is none: the first one counts.
ya_config_get(config, section, key) ==
    LET found == Matching(config.entries, section, key)
    IN  IF found = {} THEN 0 ELSE Min(found)

\* Faulty variant: entries are always added.
ya_config_set_Append(config, section, key, value) ==
    Added(config, Entry(section, key, value))

ya_config_set(config, section, key, value) ==
    LET i == ya_config_get(config, section, key)
    IN  IF i # 0 THEN [config EXCEPT !.entries[i].value = safe_strncpy(value, ValueLength)]
        ELSE Added(config, Entry(section, key, value))

---------------------------------------------------------------------------
(* The file. *)

\* The lines of a text, as much of a line as a buffer of this size holds.
LinesOf(text, size) ==
    LET From[i \in 1..Len(text) + 1] ==
            IF i > Len(text) THEN <<>>
            ELSE LET last == Min({i + size - 2, Len(text)} \cup
                                 {j \in i..Len(text) : text[j] = Newline})
                 IN  <<SubSeq(text, i, last)>> \o From[last + 1]
    IN  From[1]

\* fgets.
Lines(text) == LinesOf(text, LineLength)

\* A section header without its closing bracket is no line at all.
SectionOf(line, section) ==
    IF Places(line, {Closing}) = {} THEN section
    ELSE trim_whitespace(safe_strncpy(Tail(Before(line, {Closing})), NameLength))

ValueOf(line) == Unquoted(remove_inline_comment(After(line, {Equals})))

\* One turn of the loop: the section so far and the configuration.
Parsed(state, text) ==
    LET line == trim_whitespace(text)
        key  == trim_whitespace(Before(line, {Equals}))
    IN  CASE line = <<>> \/ Head(line) \in {Hash, Semicolon} -> state
          [] line # <<>> /\ Head(line) = Opening ->
                [state EXCEPT !.section = SectionOf(line, @)]
          [] OTHER ->
                IF Places(line, {Equals}) = {} THEN state
                ELSE [state EXCEPT !.config = Added(@, Entry(state.section, key, ValueOf(line)))]

ya_config_parse(text) ==
    FoldLeft(Parsed, [section |-> <<>>, config |-> ya_config_init], Lines(text)).config

\* Faulty variant: a section is written once, with whatever entry comes first.
Written_Once(entries, i) ==
    LET e == entries[i]
    IN  (IF \E j \in 1..i - 1 : entries[j].section = e.section THEN <<>>
         ELSE (IF i > 1 THEN <<Newline>> ELSE <<>>) \o
              <<Opening>> \o e.section \o <<Closing, Newline>>)
        \o e.key \o <<Equals>> \o e.value \o <<Newline>>

\* An entry, with its section's header when the one before is of another section.
Written(entries, i) ==
    LET e == entries[i]
        last_section == IF i = 1 THEN <<>> ELSE entries[i - 1].section
    IN  (IF e.section = last_section THEN <<>>
         ELSE (IF i > 1 THEN <<Newline>> ELSE <<>>) \o
              <<Opening>> \o e.section \o <<Closing, Newline>>)
        \o e.key \o <<Equals>> \o e.value \o <<Newline>>

ya_config_save(config) ==
    FoldLeft(LAMBDA text, i : text \o Written(config.entries, i), <<>>,
             [i \in DOMAIN config.entries |-> i])

---------------------------------------------------------------------------
(* The desktop application's reading: lines of any length, no quotes and no    *)
(* comments after a value; the last value of a key counts, and a header empties *)
(* its section.                                                                *)

\* LineSplitter: whatever their length.
DesktopLines(text) == LinesOf(text, Len(text) + 2)

Setting(group, key, value) == [section |-> group, key |-> key, value |-> value]

\* Faulty variant: the value ends at the next equals sign.
DesktopParsed_Second(state, text) ==
    LET line  == trim_whitespace(text)
        group == SubSeq(line, 2, Len(line) - 1)
        key   == trim_whitespace(Before(line, {Equals}))
        value == trim_whitespace(Before(After(line, {Equals}), {Equals}))
    IN  CASE line = <<>> \/ Head(line) = Hash -> state
          [] Len(line) > 1 /\ Head(line) = Opening /\ Last(line) = Closing ->
                [group |-> group, settings |-> {s \in state.settings : s.section # group}]
          [] OTHER ->
                IF state.group = <<>> \/ Places(line, {Equals}) = {} THEN state
                ELSE [state EXCEPT !.settings =
                        {s \in @ : s.section # state.group \/ s.key # key} \cup
                        {Setting(state.group, key, value)}]

\* One line: the group so far and the settings.
DesktopParsed(state, text) ==
    LET line  == trim_whitespace(text)
        group == SubSeq(line, 2, Len(line) - 1)
        key   == trim_whitespace(Before(line, {Equals}))
        value == trim_whitespace(After(line, {Equals}))
    IN  CASE line = <<>> \/ Head(line) = Hash -> state
          [] Len(line) > 1 /\ Head(line) = Opening /\ Last(line) = Closing ->
                [group |-> group, settings |-> {s \in state.settings : s.section # group}]
          [] OTHER ->
                IF state.group = <<>> \/ Places(line, {Equals}) = {} THEN state
                ELSE [state EXCEPT !.settings =
                        {s \in @ : s.section # state.group \/ s.key # key} \cup
                        {Setting(state.group, key, value)}]

_parseConfigContent(text) ==
    FoldLeft(DesktopParsed, [group |-> <<>>, settings |-> {}], DesktopLines(text)).settings

---------------------------------------------------------------------------
(* Entries that a file can hold. *)

Trimmed(text) == trim_whitespace(text) = text

\* An entry whose line reads back as it is: nothing in it is taken for syntax,
\* and the line fits into one fgets.
Survives(e) ==
    /\ Places(e.section \o e.key \o e.value, {Newline}) = {}
    /\ Places(e.section, {Closing}) = {} /\ Places(e.key, {Equals}) = {}
    /\ Places(e.value, {Hash, Semicolon, Quote}) = {}
    /\ e.key # <<>> => Head(e.key) \notin {Hash, Semicolon, Opening}
    /\ Trimmed(e.section) /\ Trimmed(e.key) /\ Trimmed(e.value)
    /\ Len(e.key) + Len(e.value) + 2 < LineLength

AllSurvive(entries) == \A i \in DOMAIN entries : Survives(entries[i])

UniqueKeys(entries) ==
    \A i, j \in DOMAIN entries :
        entries[i].section = entries[j].section /\ entries[i].key = entries[j].key => i = j

\* The entries of a section stand together.
Contiguous(entries) ==
    \A i, j \in DOMAIN entries :
        i < j /\ entries[i].section = entries[j].section =>
            \A k \in i..j : entries[k].section = entries[i].section
=============================================================================
