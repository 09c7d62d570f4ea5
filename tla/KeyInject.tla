----------------------------- MODULE KeyInject -----------------------------
(***************************************************************************)
(* Keys, buttons and text from a request to the operating system:          *)
(* handle_keyboard, handle_mouse_click, handle_mouse_scroll,               *)
(* handle_input_text and handle_input_get (server/src/ya_server_handler.c),*)
(* the chords of input/keyboard/handler.c, the paste of clipboard.c, the   *)
(* layout cache of xkb_mapper.c and the uinput device of linux_uinput.c.   *)
(*                                                                         *)
(* One thread handles one request at a time and sleeps between two calls   *)
(* of the input device: job is the request it is in, one action is one     *)
(* call.  Meanwhile the user and the applications use the clipboard and    *)
(* the user may switch the layout.  A call writes two or four events, and  *)
(* any of the writes may fail: what was written before stays.              *)
(*                                                                         *)
(* Both builds are here: with uinput (Linux) and with the native library   *)
(* (rs.h, outside src/), whose calls are taken to fail in the same ways.   *)
(* A character is a model value, a key is named after its CKey.  The three *)
(* mutexes of the same name never meet a second thread and are left out.   *)
(***************************************************************************)
EXTENDS Integers, Sequences, SequencesExt

CONSTANTS
    Chars,       \* characters a phone may send
    Texts,       \* texts a phone may send
    FunctionKeys,\* keys of the YA_* range a phone may send, modifiers among them
    MainKeys,    \* the keys of the layout, a sequence in the order of their codes
    Layouts,     \* names of keyboard layouts
    Table,       \* the character of each layout, key and set of levels held, or NoChar
    UsLayout,    \* the one the tables of Windows and macOS are written for
    NoLayout, NoChar, NoKey, NoText,
    kCapacity,   \* g_xkb.cache_capacity
    Level3Known, \* the keymap has a modifier named ISO_Level3_Shift or Mode_switch
    Announced,   \* keys and buttons the device announces (UI_SET_KEYBIT)
    Unsupported, \* CKeys without a Linux key code
    Buttons,     \* of Left, Right and Middle, those a phone may press
    UserMods,    \* sets of modifiers a phone may ask for
    Amounts,     \* wheel steps a phone may ask for
    kMaxSteps,   \* 1000 in the code
    Configs,     \* configurations: [fallback, ctrl_v : BOOLEAN]
    Found, Copied, Field, \* texts: of the user before and after copying, of a text field
    MaxFailures, \* bound: calls that fail
    MaxRequests  \* bound: requests handled

VARIABLES
    uinput,      \* the build: TRUE with USE_UINPUT
    device,      \* uinput_fd >= 0
    config,
    keymap,      \* the layout the cache was built from
    layout,      \* the layout of the desktop
    held,        \* keys and buttons that are down
    job,         \* the request in hand
    clipboard,
    copying,     \* an application has yet to serve Ctrl+C
    wheel,       \* steps the job turned the wheel by
    failures, requests, \* counted for the bounds only
    \* history, for the properties only:
    asked,       \* what phones pressed and did not release
    hit,         \* keys left down by a call that failed
    own,         \* what the clipboard would hold without the pastes
    intruded,    \* someone wrote the clipboard during the paste
    spoiled,     \* the clipboard could not be given back
    typed        \* the character the main key of the job typed

setup == <<uinput, device, config, keymap>>
counters == <<failures, requests>>
keys == <<held, asked, hit>>
clips == <<clipboard, copying, own, intruded, spoiled>>
vars == <<setup, layout, keys, clips, job, counters, typed, wheel>>

Levels == {"Shift", "AltGr"}
Modifiers == Levels \cup {"Control", "Meta", "Alt"}
Keys == Modifiers \cup Buttons \cup {"Left"} \cup FunctionKeys \cup Range(MainKeys) \cup {"Insert", "V", "A", "C"}
Directions == {"Press", "Release", "Click"}

ASSUME KeyInjectAssumption ==
    /\ UsLayout \in Layouts /\ NoLayout \notin Layouts
    /\ NoChar \notin Chars /\ NoKey \notin Keys /\ NoText \notin Texts \cup Chars
    /\ Amounts \subseteq Int
    /\ kCapacity \in Nat /\ kMaxSteps \in Nat \ {0} /\ MaxFailures \in Nat /\ MaxRequests \in Nat
    /\ Modifiers \cup Buttons \cup {"Left"} \subseteq Announced

\* A modifier types no character.
ASSUME MainKeysAssumption ==
    MainKeys \in Seq(Range(MainKeys)) /\ Range(MainKeys) \cap Modifiers = {}

\* plain is for the properties only: the character has no modifier of the user,
\* no key was down when the request came, no modifier failed unnoticed and the
\* cache fits the layout.
NoJob == [stage |-> "idle", chord |-> <<>>, down |-> 0, key |-> NoKey, op |-> "Click",
          split |-> FALSE, text |-> NoText, backup |-> NoText, ok |-> TRUE,
          plain |-> FALSE, steps |-> 0]

---------------------------------------------------------------------------
(* The layout cache *)

\* Keys in the order of their codes, each with no level, Shift, AltGr and both.
Combos == <<{}, {"Shift"}, {"AltGr"}, Levels>>
Scan == [n \in 1..4 * Len(MainKeys) |->
            [key |-> MainKeys[(n - 1) \div 4 + 1], levels |-> Combos[((n - 1) % 4) + 1]]]

\* The keymap may not know AltGr by either of the two names it is asked for.
Symbol(l, at) ==
    Table[l][<<at.key, IF Level3Known THEN at.levels ELSE at.levels \ {"AltGr"}>>]

\* There is a way to type the character already, or it is none, or no room is left.
Skipped(cache, char) ==
    \/ char = NoChar
    \/ char \in {cache[i].char : i \in DOMAIN cache}
    \/ Len(cache) >= kCapacity

\* Faulty variant: an entry forgets its levels.
Taken_Bare(l, cache, at) ==
    IF Skipped(cache, Symbol(l, at)) THEN cache
    ELSE Append(cache, [char |-> Symbol(l, at), key |-> at.key, levels |-> {}])

\* The first way to type a character is the one that is kept.
Taken(l, cache, at) ==
    IF Skipped(cache, Symbol(l, at)) THEN cache
    ELSE Append(cache, [char |-> Symbol(l, at), key |-> at.key, levels |-> at.levels])

build_cache(l) == FoldLeft(LAMBDA cache, at : Taken(l, cache, at), <<>>, Scan)

Cache == [l \in Layouts |-> build_cache(l)]

Entries(l) == IF l = NoLayout THEN {} ELSE Range(Cache[l])

\* X11's layout is the desktop's; that of the environment and "us" need not
\* be; loading any of them may fail.
xkbmap_init_auto == Layouts \cup {NoLayout}

\* A character is encoded to UTF-8 and decoded again on the way here, which
\* gives back every code handle_keyboard lets through.
xkbmap_map_utf8_to_evdev(c) == {e \in Entries(keymap) : e.char = c}

\* The tables of Windows and macOS know Shift only.
map_char_to_platform(c) == {e \in Entries(UsLayout) : e.char = c /\ e.levels \subseteq {"Shift"}}

Mapping(c) == IF uinput THEN xkbmap_map_utf8_to_evdev(c) ELSE map_char_to_platform(c)

---------------------------------------------------------------------------
(* Calls of the input device *)

\* EV_KEY and SYN, for a click twice.
Writes(dir) == IF dir = "Click" THEN 4 ELSE 2

\* A key the device does not announce goes unnoticed; so does a key that is
\* down already.
After(k, dir, written) ==
    IF k \notin Announced \/ written = 0 THEN held
    ELSE IF dir = "Press" \/ (dir = "Click" /\ written <= 2) THEN held \cup {k} ELSE held \ {k}

Reaches(k) == (uinput => device) /\ k \notin Unsupported

\* How many events are written before the call returns; all of them is success.
Written(k, dir) ==
    IF ~Reaches(k) THEN {0}
    ELSE IF failures < MaxFailures THEN 0..Writes(dir) ELSE {Writes(dir)}

PasteModifier == IF config.ctrl_v THEN "Control" ELSE "Shift"
PasteKey == IF config.ctrl_v THEN "V" ELSE "Insert"

\* What is not released any more when the call that is due fails.
Abandoned ==
    IF job.stage = "press" /\ job.op = "Release" THEN {job.key}
    ELSE IF job.stage = "paste" THEN {PasteModifier} ELSE {}

Call(k, dir, done, failed) ==
    \E written \in Written(k, dir) :
        LET ok == written = Writes(dir) IN
        /\ held' = After(k, dir, written)
        /\ job' = IF ok THEN done ELSE failed
        /\ failures' = IF ok \/ ~Reaches(k) THEN failures ELSE failures + 1
        /\ hit' = IF ok THEN hit \ {k} ELSE hit \cup (({k} \cup Abandoned) \cap held')
        /\ typed' = IF k \in (Range(MainKeys) \cap Announced) \ held /\ dir # "Release" /\ written > 0
                    THEN Table[layout][<<k, held \cap Levels>>] ELSE typed
        /\ UNCHANGED <<setup, layout, asked, requests>>

At(stage) == [job EXCEPT !.stage = stage]

\* Such a call has no part in the clipboard.
CallOnly(k, dir, done, failed) ==
    Call(k, dir, done, failed) /\ UNCHANGED <<clips, wheel>>

---------------------------------------------------------------------------
(* Requests.  Those the handlers turn away (an unknown key, button, direction *)
(* or operation) change nothing and are left out.                             *)

Begin(j) ==
    /\ job = NoJob /\ job' = j
    /\ requests < MaxRequests /\ requests' = requests + 1
    /\ UNCHANGED <<setup, layout, held, hit, clips, failures, typed, wheel>>

Asking(k, dir) ==
    asked' = CASE dir = "Press"   -> asked \cup ({k} \cap Announced)
               [] dir = "Release" -> asked \ {k}
               [] OTHER           -> asked

Only(k, wanted) == IF k \in wanted THEN <<k>> ELSE <<>>

\* With uinput the chord is Shift, AltGr, Control, Meta, Alt; elsewhere the
\* user's modifiers come first and the layout's Shift last.
Chord(mods, levels) ==
    LET all == mods \cup levels
    IN  IF uinput
        THEN Only("Shift", all) \o Only("AltGr", all) \o Only("Control", all)
             \o Only("Meta", all) \o Only("Alt", all)
        ELSE Only("Shift", mods) \o Only("Control", mods) \o Only("Alt", mods)
             \o Only("Meta", mods) \o Only("Shift", levels \ mods)

\* A click under modifiers is split in two calls; Alt alone does not count.
Split(mods, levels, dir) == uinput /\ dir = "Click" /\ (mods \cup levels) \ {"Alt"} # {}

\* The fallback of a character: the clipboard, or the library's unicode input.
Fallback(c) == [NoJob EXCEPT !.stage = IF uinput THEN "backup" ELSE "type", !.text = c]

keyboard_char(c, mods, dir) ==
    IF Mapping(c) = {}
    THEN Begin(Fallback(c)) /\ UNCHANGED asked
    ELSE \E e \in Mapping(c) :
        /\ Begin([NoJob EXCEPT
              !.stage = "press", !.chord = Chord(mods, e.levels), !.key = e.key, !.op = dir,
              !.split = Split(mods, e.levels, dir), !.text = c,
              !.plain = mods = {} /\ held = {} /\ dir # "Release" /\ keymap = layout])
        /\ Asking(e.key, dir)

keyboard_function_key(k, mods, dir) ==
    /\ Begin([NoJob EXCEPT !.stage = "press", !.chord = Chord(mods, {}), !.key = k, !.op = dir])
    /\ Asking(k, dir)

\* Codes that are neither characters nor in the table of YA_* codes are turned
\* away.
ckey_from_protocol == FunctionKeys

handle_keyboard(dir) ==
    \E mods \in UserMods :
        \/ \E c \in Chars : keyboard_char(c, mods, dir)
        \/ \E k \in ckey_from_protocol : keyboard_function_key(k, mods, dir)

\* A double click is two clicks, the second only after a first that worked.
handle_mouse_click(button, double, dir) ==
    /\ Begin([NoJob EXCEPT !.stage = IF double THEN "double" ELSE "button",
                           !.key = button, !.op = IF double THEN "Click" ELSE dir])
    /\ Asking(button, IF double THEN "Click" ELSE dir)

handle_mouse_scroll(amount) ==
    /\ amount > 0
    /\ Begin([NoJob EXCEPT !.stage = "scroll",
                           !.steps = IF amount > kMaxSteps THEN kMaxSteps ELSE amount])
    /\ UNCHANGED asked

\* With uinput always the clipboard; elsewhere the library types the text first.
handle_input_text(text) ==
    /\ Begin([NoJob EXCEPT !.stage = IF uinput THEN "backup" ELSE "type", !.text = text])
    /\ UNCHANGED asked

handle_input_get == Begin([NoJob EXCEPT !.stage = "get"]) /\ UNCHANGED asked

---------------------------------------------------------------------------
(* A chord: modifiers down in order, the key, modifiers up in reverse *)

\* Faulty variant: the modifiers that went down stay when one does not.
Rollback_None == [job EXCEPT !.stage = "release", !.ok = FALSE, !.down = 0]

\* Faulty variant: nobody looks at the result with uinput either.
Rollback_Ignored == [job EXCEPT !.down = @ + 1]

\* A modifier that does not go down ends the chord with uinput: those before
\* it are released.  Elsewhere nobody looks at the result.
Rollback ==
    IF uinput THEN [job EXCEPT !.stage = "release", !.ok = FALSE] ELSE [job EXCEPT !.down = @ + 1, !.plain = FALSE]

PressModifier ==
    /\ job.stage = "press" /\ job.down < Len(job.chord)
    /\ CallOnly(job.chord[job.down + 1], "Press", [job EXCEPT !.down = @ + 1], Rollback)

MainKey ==
    /\ job.stage = "press" /\ job.down = Len(job.chord)
    /\ CallOnly(job.key, IF job.split THEN "Press" ELSE job.op,
                At(IF job.split THEN "split" ELSE "release"),
                [job EXCEPT !.stage = "release", !.ok = FALSE])

ReleaseMainKey ==
    /\ job.stage = "split"
    /\ CallOnly(job.key, "Release", At("release"), [job EXCEPT !.stage = "release", !.ok = FALSE])

\* Failures are ignored.
ReleaseModifier ==
    /\ job.stage = "release" /\ job.down > 0
    /\ CallOnly(job.chord[job.down], "Release", [job EXCEPT !.down = @ - 1], [job EXCEPT !.down = @ - 1])

\* With uinput a character that could not be injected is pasted.
ChordDone ==
    /\ job.stage = "release" /\ job.down = 0
    /\ job' = IF ~job.ok /\ job.text # NoText /\ uinput THEN Fallback(job.text) ELSE NoJob
    /\ typed' = NoChar
    /\ UNCHANGED <<setup, layout, keys, clips, counters, wheel>>

\* key_unicode_action and enter_text of the library; a text it cannot enter is pasted.
Type ==
    /\ job.stage = "type"
    /\ \/ job' = NoJob /\ UNCHANGED failures
       \/ /\ failures < MaxFailures
          /\ failures' = failures + 1
          /\ job' = IF job.text \in Texts THEN At("backup") ELSE NoJob
    /\ UNCHANGED <<setup, layout, keys, clips, requests, typed, wheel>>

---------------------------------------------------------------------------
(* clipboard_paste_text *)

\* Backup and set: reading may fail or find no text, writing may fail.
BackUp ==
    /\ job.stage = "backup"
    /\ UNCHANGED <<setup, layout, keys, copying, own, requests, typed, wheel>>
    /\ \/ /\ ~config.fallback
          /\ job' = NoJob
          /\ UNCHANGED <<clipboard, intruded, spoiled, failures>>
       \/ /\ config.fallback
          /\ \E backup \in {clipboard, NoText} :
                /\ backup # clipboard => failures < MaxFailures
                /\ failures' = IF backup = clipboard THEN failures ELSE failures + 1
                /\ clipboard' = job.text
                /\ intruded' = FALSE
                /\ spoiled' = (spoiled \/ backup = NoText)
                /\ job' = [job EXCEPT !.stage = "shortcut", !.backup = backup]
       \/ /\ config.fallback /\ failures < MaxFailures
          /\ failures' = failures + 1
          /\ job' = NoJob
          /\ UNCHANGED <<clipboard, intruded, spoiled>>

Shortcut ==
    /\ job.stage = "shortcut"
    /\ CallOnly(PasteModifier, "Press", At("paste"), At("restore"))

\* Faulty variant: a paste that fails returns at once.
Paste_Return ==
    /\ job.stage = "paste"
    /\ CallOnly(PasteKey, "Click", At("unshift"), NoJob)

Paste ==
    /\ job.stage = "paste"
    /\ CallOnly(PasteKey, "Click", At("unshift"), At("restore"))

Unshift ==
    /\ job.stage = "unshift"
    /\ CallOnly(PasteModifier, "Release", At("restore"), At("restore"))

\* Always, whatever the configuration says, if there was text to back up.
Restore ==
    /\ job.stage = "restore"
    /\ job' = NoJob
    /\ \/ /\ clipboard' = IF job.backup = NoText THEN clipboard ELSE job.backup
          /\ spoiled' = (spoiled \/ intruded)
          /\ UNCHANGED failures
       \/ /\ job.backup # NoText /\ failures < MaxFailures
          /\ failures' = failures + 1
          /\ spoiled' = TRUE
          /\ UNCHANGED clipboard
    /\ intruded' = FALSE
    /\ UNCHANGED <<setup, layout, keys, copying, own, requests, typed, wheel>>

---------------------------------------------------------------------------
(* handle_input_get: select all, copy, leave the selection, read *)

Get == job.stage = "get" /\ CallOnly("Control", "Press", At("select"), NoJob)
SelectAll == job.stage = "select" /\ CallOnly("A", "Click", At("copy"), At("undo"))
Copy ==
    /\ job.stage = "copy"
    /\ Call("C", "Click", At("drop"), At("undo"))
    /\ copying' \in {TRUE} \cup (IF job'.stage = "undo" THEN {copying} ELSE {})
    /\ UNCHANGED <<clipboard, own, intruded, spoiled, wheel>>
Undo == job.stage = "undo" /\ CallOnly("Control", "Release", NoJob, NoJob)
Drop == job.stage = "drop" /\ CallOnly("Control", "Release", At("deselect"), NoJob)
Deselect == job.stage = "deselect" /\ CallOnly("Left", "Click", At("answer"), NoJob)
\* The response carries what the clipboard holds by now.
Answer ==
    /\ job.stage = "answer" /\ job' = NoJob
    /\ UNCHANGED <<setup, layout, keys, clips, counters, typed, wheel>>

---------------------------------------------------------------------------
(* Buttons and wheel *)

FirstClick == job.stage = "double" /\ CallOnly(job.key, "Click", At("button"), NoJob)
Button == job.stage = "button" /\ CallOnly(job.key, job.op, NoJob, NoJob)

\* One event with uinput, a click of a wheel button for each step elsewhere.
Turn == IF uinput THEN job.steps ELSE 1

Scroll ==
    /\ job.stage = "scroll" /\ wheel < job.steps
    /\ \/ Reaches("Left") /\ wheel' = wheel + Turn /\ UNCHANGED <<job, failures>>
       \/ /\ Reaches("Left") => failures < MaxFailures
          /\ failures' = IF Reaches("Left") THEN failures + 1 ELSE failures
          /\ wheel' = 0 /\ job' = NoJob
    /\ UNCHANGED <<setup, layout, keys, clips, requests, typed>>

Scrolled ==
    /\ job.stage = "scroll" /\ wheel >= job.steps
    /\ wheel' = 0 /\ job' = NoJob
    /\ UNCHANGED <<setup, layout, keys, clips, counters, typed>>

---------------------------------------------------------------------------
(* The desktop *)

Window == {"shortcut", "paste", "unshift", "restore"}

Overwrite(text) ==
    /\ clipboard' = text
    /\ own' = text
    /\ intruded' = (job.stage \in Window)
    /\ spoiled' = (job.stage \in Window)

UserCopies ==
    /\ clipboard # Copied /\ Overwrite(Copied)
    /\ UNCHANGED <<setup, layout, keys, copying, job, counters, typed, wheel>>

ApplicationCopies ==
    /\ copying /\ copying' = FALSE /\ Overwrite(Field)
    /\ UNCHANGED <<setup, layout, keys, job, counters, typed, wheel>>

UserSwitchesLayout ==
    /\ layout' \in Layouts \ {layout}
    /\ job' = [job EXCEPT !.plain = FALSE]
    /\ UNCHANGED <<setup, keys, clips, counters, typed, wheel>>

---------------------------------------------------------------------------
\* Read once, when the server starts; clipboard_restore is not read at all.
clipboard_helper_init == Configs

Init ==
    /\ uinput \in BOOLEAN
    /\ device \in (IF uinput THEN BOOLEAN ELSE {FALSE})
    /\ config \in clipboard_helper_init
    /\ keymap \in (IF uinput THEN xkbmap_init_auto ELSE {UsLayout})
    /\ layout \in Layouts
    /\ held = {} /\ asked = {} /\ hit = {}
    /\ job = NoJob
    /\ clipboard = Found /\ own = Found
    /\ copying = FALSE /\ intruded = FALSE /\ spoiled = FALSE
    /\ failures = 0 /\ requests = 0 /\ typed = NoChar /\ wheel = 0

Request ==
    \/ \E dir \in Directions : handle_keyboard(dir)
    \/ \E b \in Buttons, dir \in Directions, double \in BOOLEAN : handle_mouse_click(b, double, dir)
    \/ \E n \in Amounts : handle_mouse_scroll(n)
    \/ \E t \in Texts : handle_input_text(t)
    \/ handle_input_get

Step ==
    \/ PressModifier \/ MainKey \/ ReleaseMainKey \/ ReleaseModifier \/ ChordDone \/ Type
    \/ BackUp \/ Shortcut \/ Paste \/ Unshift \/ Restore
    \/ Get \/ SelectAll \/ Copy \/ Undo \/ Drop \/ Deselect \/ Answer
    \/ FirstClick \/ Button \/ Scroll \/ Scrolled

Desktop == UserCopies \/ ApplicationCopies \/ UserSwitchesLayout

Next == Request \/ Step \/ Desktop

Spec == Init /\ [][Next]_vars

---------------------------------------------------------------------------
(* Properties *)

\* Between two requests nothing is down that no phone holds, save what a call
\* that failed left behind: its own key, the key of a release that was given
\* up, the modifier of a paste whose key failed (keyboard/handler.c:96-185,
\* keyboard/clipboard.c:106-132, ya_server_handler.c:681-708).
NoStrayKeys == job = NoJob => held \subseteq asked \cup hit

\* On its own, with no key down and the right layout, a character of the layout
\* types itself: the cache, the levels and the order of the calls agree
\* (xkb_mapper.c:60-139, keyboard/handler.c:188-229).
TypedAsMeant ==
    job.stage = "release" /\ job.ok /\ job.plain /\ job.text # NoText /\ job.key \in Announced
        => typed = job.text

\* From the shortcut to the restore the clipboard holds the text to paste, so an
\* application that is fast enough reads no other; between two requests it is
\* the user's again, unless there was no text to back up, a call of the
\* clipboard failed or somebody copied during the paste
\* (keyboard/clipboard.c:96-143).
ClipboardSafe ==
    /\ job.stage \in Window /\ ~intruded => clipboard = job.text
    /\ job = NoJob /\ ~spoiled => clipboard = own

\* With uinput the key of a chord goes down under the whole chord
\* (keyboard/handler.c:96-161, 210-226).
ChordComplete ==
    [][ uinput /\ job.stage = "press" /\ job.down = Len(job.chord) /\ job.key \notin held
            /\ job.key \in held' => Range(job.chord) \subseteq held' ]_vars
============================================================================
