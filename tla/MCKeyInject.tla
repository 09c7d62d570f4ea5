---------------------------- MODULE MCKeyInject ----------------------------
\* Two layouts of one key: "us" types a and, with Shift, b; the other swaps them
\* and types c with AltGr.  BrowserSearch is a key the device does not announce.
EXTENDS KeyInject, KeyTables

CONSTANTS a, b, c, hello

MCMainKeys == <<"K">>
MCTable ==
    [l \in {"us", "other"} |-> [at \in {"K"} \X SUBSET {"Shift", "AltGr"} |->
        IF l = "us" THEN IF "Shift" \in at[2] THEN b ELSE a
        ELSE CASE at[2] = {} -> b [] at[2] = {"Shift"} -> a [] at[2] = {"AltGr"} -> c [] OTHER -> NoChar]]
MCFunctionKeys == {"Shift", "Function", "BrowserSearch"}
MCUnsupported == {k \in MCFunctionKeys : ckey_to_linux_keycode(k) = NoCode}
\* Left is a button, K a key of the layouts and AltGr one of the two Alts.
MCAnnounced ==
    {k \in MCFunctionKeys \cup {"Control", "Meta", "Alt", "Insert", "V", "A", "C"} :
        ckey_to_linux_keycode(k) \in enabled_keys} \cup {"AltGr", "Left", "K"}
\* Every code of a KEYBOARD request that is not negative and some of four bytes.
MCCodes == 0..65535 \cup {65536, 65537, 131071, 1114111}
MCUserMods == {{}, {"Control", "Alt"}}
MCAmounts == {-1, 0, 1, 3}
MCConfigs == {[fallback |-> TRUE, ctrl_v |-> FALSE],
              [fallback |-> FALSE, ctrl_v |-> TRUE]}

---------------------------------------------------------------------------
\* While the server has its uinput device, the tables between a phone's code and a key
\* agree: every key a phone can name is one the device announces, and every character
\* reaches the layout unchanged (keycode_map.c, linux_uinput.c, xkb_mapper.c).
CodesArrive == uinput /\ device => TablesAgree
============================================================================
