----------------------------- MODULE KeyTables -----------------------------
(***************************************************************************)
(* What a code in a KEYBOARD request stands for (handle_keyboard in        *)
(* ya_server_handler.c), the keys of the YA_* codes (keycode_map.c), their *)
(* Linux codes and the keys the device announces (linux_uinput.c), and a   *)
(* character's way through UTF-8 (mapper.c, xkb_mapper.c).                 *)
(*                                                                         *)
(* A key is named after its CKey, a Linux code after its KEY_*, without    *)
(* the prefix and spelt like the CKey where that is its name.  F1 to F24   *)
(* and Numpad0 to Numpad9 are taken to be consecutive in CKey (rs.h,       *)
(* outside src/), as the code does.                                        *)
(***************************************************************************)
EXTENDS Integers, Sequences, TLC

CONSTANTS
    Codes,      \* characters' codes to look at
    NoCode      \* -1: no Linux code

Same ==
    {"A", "B", "C", "D", "E", "F", "G", "H", "I", "J", "K", "L", "M", "N", "O", "P", "Q", "R",
     "S", "T", "U", "V", "W", "X", "Y", "Z", "F1", "F2", "F3", "F4", "F5", "F6", "F7", "F8",
     "F9", "F10", "F11", "F12", "F13", "F14", "F15", "F16", "F17", "F18", "F19", "F20", "F21",
     "F22", "F23", "F24", "Home", "End", "PageUp", "PageDown", "Space", "Tab", "Backspace",
     "Delete", "Insert", "CapsLock", "Numlock", "ScrollLock", "Pause", "Break", "Power",
     "VolumeUp", "VolumeDown", "MicMute", "BrightnessUp", "BrightnessDown", "Help", "Undo",
     "Redo", "Find", "Select", "Zoom", "Hangeul", "Hanja"}

Other ==
    [Num0 |-> "0", Num1 |-> "1", Num2 |-> "2", Num3 |-> "3", Num4 |-> "4", Num5 |-> "5",
     Num6 |-> "6", Num7 |-> "7", Num8 |-> "8", Num9 |-> "9", Alt |-> "LEFTALT",
     LMenu |-> "LEFTALT", Control |-> "LEFTCTRL", LControl |-> "LEFTCTRL", Shift |-> "LEFTSHIFT",
     LShift |-> "LEFTSHIFT", Meta |-> "LEFTMETA", LWin |-> "LEFTMETA", Command |-> "LEFTMETA",
     RMenu |-> "RIGHTALT", RControl |-> "RIGHTCTRL", RShift |-> "RIGHTSHIFT",
     RWin |-> "RIGHTMETA", RCommand |-> "RIGHTMETA", ROption |-> "RIGHTMETA",
     Option |-> "LEFTALT", UpArrow |-> "UP", DownArrow |-> "DOWN", LeftArrow |-> "LEFT",
     RightArrow |-> "RIGHT", Escape_k |-> "ESC", Return |-> "ENTER", Scroll |-> "ScrollLock",
     Numpad0 |-> "KP0", Numpad1 |-> "KP1", Numpad2 |-> "KP2", Numpad3 |-> "KP3",
     Numpad4 |-> "KP4", Numpad5 |-> "KP5", Numpad6 |-> "KP6", Numpad7 |-> "KP7",
     Numpad8 |-> "KP8", Numpad9 |-> "KP9", Add |-> "KPPLUS", Subtract |-> "KPMINUS",
     Multiply |-> "KPASTERISK", Divide |-> "KPSLASH", Decimal |-> "KPDOT",
     Separator |-> "KPCOMMA", OEMMinus |-> "MINUS", OEMPlus |-> "EQUAL", OEM4 |-> "LEFTBRACE",
     OEM6 |-> "RIGHTBRACE", OEM5 |-> "BACKSLASH", OEM1 |-> "SEMICOLON", OEM7 |-> "APOSTROPHE",
     OEMComma |-> "COMMA", OEMPeriod |-> "DOT", OEM2 |-> "SLASH", OEM3 |-> "GRAVE",
     PrintScr |-> "SYSRQ", Apps |-> "COMPOSE", Sleep_k |-> "SLEEP", VolumeMute |-> "MUTE",
     MediaPlayPause |-> "PLAYPAUSE", MediaStop |-> "STOPCD", MediaNextTrack |-> "NEXTSONG",
     MediaPrevTrack |-> "PREVIOUSSONG", MediaFast |-> "FASTFORWARD", MediaRewind |-> "REWIND",
     BrowserBack |-> "BACK", BrowserForward |-> "FORWARD", BrowserRefresh |-> "REFRESH",
     BrowserStop |-> "STOP", BrowserSearch |-> "SEARCH", BrowserFavorites |-> "BOOKMARKS",
     BrowserHome |-> "HOMEPAGE", LaunchMail |-> "MAIL", LaunchMediaSelect |-> "MEDIA",
     LaunchApp1 |-> "PROG1", LaunchApp2 |-> "PROG2", Execute |-> "OPEN", Eject |-> "EJECTCD",
     Kana |-> "Hangeul", Hangul |-> "Hangeul", Kanji |-> "KATAKANA", Convert |-> "HENKAN",
     NonConvert |-> "MUHENKAN"]

ckey_to_linux_keycode(ckey) ==
    IF ckey \in Same THEN ckey ELSE IF ckey \in DOMAIN Other THEN Other[ckey] ELSE NoCode

TypingKeys ==
    {"0", "1", "2", "3", "4", "5", "6", "7", "8", "9", "A", "B", "C", "D", "E", "F", "G", "H",
     "I", "J", "K", "L", "M", "N", "O", "P", "Q", "R", "S", "T", "U", "V", "W", "X", "Y", "Z",
     "MINUS", "EQUAL", "LEFTBRACE", "RIGHTBRACE", "BACKSLASH", "SEMICOLON", "APOSTROPHE",
     "GRAVE", "COMMA", "DOT", "SLASH", "ESC", "F1", "F2", "F3", "F4", "F5", "F6", "F7", "F8",
     "F9", "F10", "F11", "F12", "F13", "F14", "F15", "F16", "F17", "F18", "F19", "F20", "F21",
     "F22", "F23", "F24", "LEFTSHIFT", "RIGHTSHIFT", "LEFTCTRL", "RIGHTCTRL", "LEFTALT",
     "RIGHTALT", "LEFTMETA", "RIGHTMETA", "CapsLock", "Numlock", "ScrollLock"}

\* Faulty variant: the list ends early.
enabled_keys_Typing == TypingKeys

enabled_keys ==
    TypingKeys \cup
    {"Insert", "Delete", "Home", "End", "PageUp", "PageDown", "UP", "DOWN", "LEFT", "RIGHT",
     "Tab", "ENTER", "Space", "Backspace", "KP0", "KP1", "KP2", "KP3", "KP4", "KP5", "KP6",
     "KP7", "KP8", "KP9", "KPPLUS", "KPMINUS", "KPASTERISK", "KPSLASH", "KPDOT", "KPENTER",
     "KPCOMMA", "KPLEFTPAREN", "KPRIGHTPAREN", "PRINT", "SYSRQ", "SCROLLUP", "SCROLLDOWN",
     "Pause", "Break", "STOP", "MAIL", "HOMEPAGE", "FORWARD", "BACK", "REFRESH", "COMPUTER",
     "CALC", "SLEEP", "WAKEUP", "MUTE", "VolumeDown", "VolumeUp", "NEXTSONG", "PREVIOUSSONG",
     "PLAYPAUSE", "STOPCD", "RECORD", "BrightnessDown", "BrightnessUp", "DISPLAY_OFF", "COMPOSE"}

\* Keys of consecutive codes.
Block(first, names) == [code \in first..first + Len(names) - 1 |-> names[code - first + 1]]

map_ya_to_ckey ==
       Block(\hE000, <<"Function">>)
    @@ Block(\hE200, <<"Shift", "Control", "Alt", "Meta", "Apps">>)
    @@ Block(\hE210, <<"LShift", "RShift", "LControl", "RControl", "LMenu", "RMenu">>)
    @@ Block(\hE220, <<"Backspace", "Tab", "Return", "Escape_k", "Insert", "Delete">>)
    @@ Block(\hE230, <<"Home", "End", "PageUp", "PageDown", "LeftArrow", "UpArrow", "RightArrow", "DownArrow">>)
    @@ Block(\hE240, <<"CapsLock", "Numlock", "ScrollLock", "PrintScr", "Pause">>)
    @@ Block(\hE260, <<"BrowserBack", "BrowserForward", "BrowserRefresh", "BrowserStop", "BrowserSearch">>
                     \o <<"BrowserFavorites", "BrowserHome">>)
    @@ Block(\hE270, <<"MediaNextTrack", "MediaPrevTrack", "MediaStop", "MediaPlayPause">>
                     \o <<"VolumeMute", "VolumeDown", "VolumeUp">>)
    @@ Block(\hE280, <<"LaunchMail", "LaunchMediaSelect", "LaunchApp1", "LaunchApp2">>)
    @@ Block(\hE300, <<"F1", "F2", "F3", "F4", "F5", "F6", "F7", "F8", "F9", "F10", "F11", "F12">>
                     \o <<"F13", "F14", "F15", "F16", "F17", "F18", "F19", "F20", "F21", "F22", "F23", "F24">>)
    @@ Block(\hE400, <<"Numpad0", "Numpad1", "Numpad2", "Numpad3", "Numpad4">>
                     \o <<"Numpad5", "Numpad6", "Numpad7", "Numpad8", "Numpad9">>)
    @@ Block(\hE40A, <<"Multiply", "Add", "Separator", "Subtract", "Decimal", "Divide">>)

---------------------------------------------------------------------------
is_char(code) == code \in \h20..\h7E \cup \h80..(\hE000 - 1)

Continuation(n) == \h80 + (n % 64)

encode_codepoint_to_utf8(code) ==
    IF code \in 1..\h7F THEN <<code>>
    ELSE IF code < \h800 THEN <<\hC0 + code \div 64, Continuation(code)>>
    ELSE IF code < \h10000
    THEN <<\hE0 + code \div 4096, Continuation(code \div 64), Continuation(code)>>
    ELSE <<\hF0 + code \div 262144, Continuation(code \div 4096), Continuation(code \div 64),
           Continuation(code)>>

\* What xkbmap_map_utf8_to_evdev makes of it: the first byte says how many are read.
\* (The buffer is zero behind the text.)
Decoded(u) ==
    LET low(i) == IF i <= Len(u) THEN u[i] % 64 ELSE 0
    IN  IF u[1] \div 128 = 0 THEN u[1]
        ELSE IF u[1] \div 32 = 6 THEN (u[1] % 32) * 64 + low(2)
        ELSE IF u[1] \div 16 = 14 THEN (u[1] % 16) * 4096 + low(2) * 64 + low(3)
        ELSE (u[1] % 8) * 262144 + low(2) * 4096 + low(3) * 64 + low(4)

---------------------------------------------------------------------------
(* Properties *)

\* Keys the device was never told of, which the kernel drops without an error.
Unheard == {"SEARCH", "BOOKMARKS", "MEDIA", "PROG1", "PROG2"}

\* Whatever a phone can name arrives.  Through three tables kept by hand every key is
\* one key of the device: but for Fn none is without a code, but for five of the browser
\* and launch keys none is unannounced, and two codes meet only in a modifier and its left
\* half.  The layout is asked for the very character that was sent, encoded on one side
\* and decoded on the other, and no code is both a character and a key
\* (keycode_map.c:10-118, linux_uinput.c:20-290, keyboard/mapper.c, xkb_mapper.c:309-347).
TablesAgree ==
    LET linux(code) == ckey_to_linux_keycode(map_ya_to_ckey[code])
    IN  /\ \A code \in DOMAIN map_ya_to_ckey :
              /\ linux(code) = NoCode <=> map_ya_to_ckey[code] = "Function"
              /\ linux(code) \in enabled_keys \cup Unheard \cup {NoCode}
        /\ \A first, second \in DOMAIN map_ya_to_ckey :
              first # second /\ linux(first) = linux(second) =>
                  {map_ya_to_ckey[first], map_ya_to_ckey[second]}
                      \in {{"Shift", "LShift"}, {"Control", "LControl"}, {"Alt", "LMenu"}}
        /\ \A code \in Codes :
              /\ code > 0 => Decoded(encode_codepoint_to_utf8(code)) = code
              /\ ~ (is_char(code) /\ code \in DOMAIN map_ya_to_ckey)
=============================================================================
