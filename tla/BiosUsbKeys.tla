------------------------------ MODULE BiosUsbKeys ------------------------------
(***************************************************************************)
(* From the reports of a USB keyboard to key presses and releases          *)
(* (bios/seabios/src/usb-hid.c, handle_key).  A report lists the keys held *)
(* down in any order; the keyboard repeats it while keys are held.  A key  *)
(* is a number; keys above KnownKeys have no scan code.                    *)
(***************************************************************************)
EXTENDS Naturals, Sequences, FiniteSets

CONSTANTS Slots,       \* entries of keys[]
          AllKeys,     \* numbers of keys, 0 is an empty entry
          KnownKeys,   \* keys with an entry in KeyToScanCode
          Modifiers,   \* sets of modifier keys in reports
          RepeatWait,  \* KEYREPEATWAITMS / KEYREPEATMS + 1
          MaxUsbReports

VARIABLES last,     \* usbkey_last.keys up to the first empty entry
          mods,     \* usbkey_last.modifiers
          repeat,   \* usbkey_last.repeatcount, 255 when disabled
          down,     \* scan codes pressed and not released
          modDown,
          newest,   \* the key pressed last
          repeated, \* keys repeated by the last report
          report,   \* the last report
          nreports

keysVars == <<last, mods, repeat, down, modDown, newest, repeated, report, nreports>>

Held(r) == {r[i] : i \in 1 .. Slots} \ {0}
\* Reports of real keyboards: a key once, anywhere; too many keys give an
\* entry without meaning (1) everywhere.
UsbReports == {r \in [1 .. Slots -> AllKeys \cup {0}] :
                  \A i, j \in 1 .. Slots : i # j /\ r[i] = r[j] => r[i] = 0}
              \cup {[i \in 1 .. Slots |-> 1]}

KeysInit == /\ last = <<>> /\ mods = {} /\ repeat = 0
            /\ down = {} /\ modDown = {} /\ newest = 0 /\ repeated = {}
            /\ report = [i \in 1 .. Slots |-> 0] /\ nreports = 0

Codes(S) == S \cap KnownKeys

\* The first loop takes each old key out of the report once: what is kept, and
\* the rest of the report.
RECURSIVE Compare(_, _)
Compare(old, r) ==
    IF old = <<>> THEN [kept |-> <<>>, rest |-> r, lastGone |-> FALSE]
    ELSE LET hits == {j \in 1 .. Slots : r[j] = Head(old)}
         IN  IF hits = {}
             THEN LET c == Compare(Tail(old), r)
                  IN  [c EXCEPT !.lastGone = IF Len(old) = 1 THEN TRUE ELSE @]
             ELSE LET j == CHOOSE j \in hits : \A k \in hits : j <= k
                      c == Compare(Tail(old), [r EXCEPT ![j] = 0])
                  IN  [c EXCEPT !.kept = <<Head(old)>> \o @]

\* The keys of the rest of the report, in its order.
NewKeys(r) == SelectSeq([i \in 1 .. Slots |-> r[i]], LAMBDA k : k # 0)
SeqSet(s) == {s[i] : i \in DOMAIN s}

\* Mutation of HandleKey: one that keeps the count when the last key goes.
HandleKeyOn(r, m) ==
    /\ nreports < MaxUsbReports /\ nreports' = nreports + 1
    /\ report' = r /\ mods' = m
    /\ LET c == Compare(last, r)
           fresh == NewKeys(c.rest)
           keys == c.kept \o fresh
           count == IF fresh # <<>> THEN RepeatWait ELSE repeat
           again == IF keys # <<>> /\ count = 0 THEN {keys[Len(keys)]} ELSE {}
       IN  /\ last' = keys
           /\ down' = (down \ Codes(SeqSet(last) \ SeqSet(c.kept))) \cup Codes(SeqSet(fresh) \cup again)
           /\ modDown' = (modDown \ (mods \ m)) \cup (m \ mods)
           /\ newest' = IF fresh = <<>> THEN newest ELSE fresh[Len(fresh)]
           /\ repeated' = Codes(again)
           /\ repeat' = IF keys = <<>> \/ count \in {0, 255} THEN count ELSE count - 1

HandleKey(r, m) ==
    /\ nreports < MaxUsbReports /\ nreports' = nreports + 1
    /\ report' = r /\ mods' = m
    /\ LET c == Compare(last, r)
           fresh == NewKeys(c.rest)
           keys == c.kept \o fresh
           count == IF fresh # <<>> THEN RepeatWait ELSE IF c.lastGone THEN 255 ELSE repeat
           again == IF keys # <<>> /\ count = 0 THEN {keys[Len(keys)]} ELSE {}
       IN  /\ last' = keys
           /\ down' = (down \ Codes(SeqSet(last) \ SeqSet(c.kept))) \cup Codes(SeqSet(fresh) \cup again)
           /\ modDown' = (modDown \ (mods \ m)) \cup (m \ mods)
           /\ newest' = IF fresh = <<>> THEN newest ELSE fresh[Len(fresh)]
           /\ repeated' = Codes(again)
           /\ repeat' = IF keys = <<>> \/ count \in {0, 255} THEN count ELSE count - 1

KeysNext == \E r \in UsbReports, m \in Modifiers : HandleKey(r, m)

----------------------------------------------------------------------------
\* The keys known to be down are those of the last report, however reports
\* reorder them, and only the key pressed last repeats, while it is held.
KeysFollowReports == /\ down = Codes(Held(report)) /\ modDown = mods
                     /\ repeated \subseteq {newest} \cap Held(report)
============================================================================
