----------------------------- MODULE BiosKeyboard -----------------------------
(***************************************************************************)
(* Keyboard services of the system BIOS (bios/seabios/src/kbd.c).  The     *)
(* keyboard sends each press and release as one or more bytes; interrupts  *)
(* deliver them one by one to process_key, which keeps the shift state and *)
(* puts key codes into the ring buffer that INT 16 reads.  A byte is       *)
(* <<code, up>>, a key code <<code, column>>, the column being the one of  *)
(* the table scan_to_scanascii that is used.                               *)
(***************************************************************************)
EXTENDS Naturals, Sequences, FiniteSets

CONSTANTS KbdKeys,    \* the keys that are used
          BufSize,    \* places of kbd_buf
          MaxKeys     \* bound on presses and calls

VARIABLES flags0, flags1, flags2, \* kbd_flag0..2, as sets
          buf, head, tail,        \* kbd_buf
          led,                    \* kbd_led
          reset,                  \* reset_vector has been called
          wire,                   \* bytes on their way
          held, locks,            \* keys held down; lock keys pressed an odd number of times
          typed,                  \* key codes accepted and not yet read
          presses                 \* bounded

kbdVars == <<flags0, flags1, flags2, buf, head, tail, led, reset, wire, held, locks, typed, presses>>
ringVars == <<buf, head, tail, typed>>

\* What a keyboard sends (external): most keys one byte, some with a prefix.
Pause == <<<<"E1", FALSE>>, <<"ctrl", FALSE>>, <<"num", FALSE>>, <<"E1", FALSE>>, <<"ctrl", TRUE>>, <<"num", TRUE>>>>
Code(k) == CASE k \in {"lctrl", "rctrl"} -> "ctrl" [] k \in {"lalt", "ralt"} -> "alt"
             [] k = "home" -> "kp" [] k = "win" -> "unknown" [] OTHER -> k
Bytes(k, up) == CASE k = "pause" -> IF up THEN <<>> ELSE Pause
                  [] k \in {"rctrl", "ralt", "home", "win"} -> <<<<"E0", FALSE>>, <<Code(k), up>>>>
                  [] OTHER -> <<<<Code(k), up>>>>

Locks == {"caps", "num", "scroll"}
\* lock_flags of scan_to_scanascii
LockFlags(c) == CASE c = "a" -> {"caps"} [] c \in {"kp", "del"} -> {"num"} [] OTHER -> {}

\* kbd_setup
KbdInit == /\ flags0 = {} /\ flags1 = {} /\ flags2 = {}
           /\ buf = [i \in 0..(BufSize - 1) |-> <<>>] /\ head = 0 /\ tail = 0
           /\ led = {} /\ reset = FALSE
           /\ wire = <<>> /\ held = {} /\ locks = {} /\ typed = <<>> /\ presses = 0

NextSlot(i) == IF i + 1 >= BufSize THEN 0 ELSE i + 1

\* Mutation of EnqueueKey: a full buffer takes one more.
EnqueueKeyFull(key) ==
    /\ buf' = [buf EXCEPT ![tail] = key]
    /\ tail' = NextSlot(tail)
    /\ typed' = IF Len(typed) < BufSize - 1 THEN Append(typed, key) ELSE typed

\* enqueue_key
EnqueueKey(key) ==
    IF NextSlot(tail) = head THEN UNCHANGED <<buf, tail, typed>>
    ELSE /\ buf' = [buf EXCEPT ![tail] = key]
         /\ tail' = NextSlot(tail)
         /\ typed' = Append(typed, key)

\* __process_key: the column of the table a key code is taken from.
Column(c) ==
    CASE "alt" \in flags0 -> "alt"
      [] "alt" \notin flags0 /\ "ctrl" \in flags0 -> "control"
      [] flags0 \cap {"alt", "ctrl"} = {} /\ "LAST_E0" \in flags2 /\ c \in {"kp", "del"} -> "extended"
      [] OTHER -> IF (flags0 \cap {"lshift", "rshift"} # {}) = (flags0 \cap LockFlags(c) # {})
                  THEN "normal" ELSE "shift"

\* A press or release of Ctrl or Alt: flags0 has one bit for both keys.
Modifier(c, up) ==
    LET right == "LAST_E0" \in flags2
        f2 == IF ~right THEN flags2 ELSE IF up THEN flags2 \ {c} ELSE flags2 \cup {c}
    IN  /\ flags0' = IF up THEN flags0 \ {c} ELSE flags0 \cup {c}
        /\ flags1' = IF right THEN flags1 ELSE IF up THEN flags1 \ {c} ELSE flags1 \cup {c}
        /\ flags2' = f2 \ {"LAST_E0"}

\* __process_key: a byte of the pause sequence.
PauseByte(c, up) ==
    /\ "LAST_E1" \in flags2
    /\ flags2' = IF c = "ctrl" THEN flags2 ELSE flags2 \ {"LAST_E1"}
    /\ UNCHANGED <<flags0, flags1, ringVars, reset>>

LockByte(c, up) ==
    /\ c \in Locks
    /\ flags1' = IF up THEN flags1 \ {c} ELSE flags1 \cup {c}
    /\ flags0' = IF up THEN flags0 ELSE (flags0 \ {c}) \cup ({c} \ flags0)
    /\ flags2' = flags2 \ {"LAST_E0"}
    /\ UNCHANGED <<ringVars, reset>>

ShiftByte(c, up) ==
    /\ \/ /\ c \in {"lshift", "rshift"}
          /\ flags0' = IF up THEN flags0 \ {c} ELSE flags0 \cup {c}
          /\ flags2' = flags2 \ {"LAST_E0"}
          /\ UNCHANGED flags1
       \/ c \in {"ctrl", "alt"} /\ Modifier(c, up)
    /\ UNCHANGED <<ringVars, reset>>

PrefixByte(c) ==
    /\ \/ c = "E0" /\ flags2' = flags2 \cup {"LAST_E0"}
       \/ c = "E1" /\ flags2' = (flags2 \cup {"LAST_E1"}) \ {"LAST_E0"}
    /\ UNCHANGED <<flags0, flags1, ringVars, reset>>

\* __process_key, the default: releases are tossed, an unknown code is left at
\* once, Ctrl+Alt+Del resets the machine.
KeyByte(c, up) ==
    /\ c \in {"a", "kp", "del", "unknown"}
    /\ \/ /\ up
          /\ flags2' = flags2 \ {"LAST_E0"}
          /\ UNCHANGED <<ringVars, reset>>
       \/ /\ ~up /\ c = "unknown"
          /\ UNCHANGED <<flags2, ringVars, reset>>
       \/ /\ ~up /\ c # "unknown"
          /\ reset' = (c = "del" /\ {"ctrl", "alt"} \subseteq flags0)
          /\ EnqueueKey(<<c, Column(c)>>)
          /\ flags2' = flags2 \ {"LAST_E0"}
          /\ UNCHANGED head
    /\ UNCHANGED <<flags0, flags1>>

\* handle_09 and process_key: one byte.
ProcessKey ==
    LET c == Head(wire)[1]
        up == Head(wire)[2]
    IN  /\ wire # <<>> /\ ~reset
        /\ wire' = Tail(wire)
        /\ \/ PauseByte(c, up)
           \/ /\ "LAST_E1" \notin flags2
              /\ LockByte(c, up) \/ ShiftByte(c, up) \/ PrefixByte(c) \/ KeyByte(c, up)
        /\ UNCHANGED <<led, held, locks, presses>>

----------------------------------------------------------------------------
\* set_leds, called by every INT 16; the keyboard may not answer.
SetLeds == led' \in {led, flags0 \cap Locks}

\* dequeue_key of handle_1600 and handle_1610: waits for a key and takes it.
ReadKey == /\ head # tail /\ ~reset
           /\ SetLeds
           /\ head' = NextSlot(head)
           /\ typed' = Tail(typed)
           /\ UNCHANGED <<flags0, flags1, flags2, buf, tail, reset, wire, held, locks, presses>>

\* handle_1605
StoreKey == /\ presses < MaxKeys /\ ~reset
            /\ presses' = presses + 1
            /\ SetLeds
            /\ EnqueueKey(<<"stored", "normal">>)
            /\ UNCHANGED <<flags0, flags1, flags2, head, reset, wire, held, locks>>

\* A key goes down, or up (external); the keyboard sends keys one by one.
Press(k) == /\ presses < MaxKeys /\ k \notin held /\ wire = <<>> /\ ~reset
            /\ presses' = presses + 1
            /\ held' = IF k = "pause" THEN held ELSE held \cup {k}
            /\ locks' = IF k \in Locks THEN (locks \ {k}) \cup ({k} \ locks) ELSE locks
            /\ wire' = Bytes(k, FALSE)
            /\ UNCHANGED <<flags0, flags1, flags2, buf, head, tail, led, reset, typed>>

Release(k) == /\ k \in held /\ wire = <<>> /\ ~reset
              /\ held' = held \ {k}
              /\ wire' = Bytes(k, TRUE)
              /\ UNCHANGED <<flags0, flags1, flags2, buf, head, tail, led, reset, locks, typed, presses>>

KbdNext == ProcessKey \/ ReadKey \/ StoreKey \/ \E k \in KbdKeys : Press(k) \/ Release(k)

KbdSpec == KbdInit /\ [][KbdNext]_kbdVars

----------------------------------------------------------------------------
\* enqueue_key, dequeue_key: the buffer holds the keys accepted and not yet
\* read, in order, wherever head and tail are.
KeysInOrder ==
    LET n == (tail + BufSize - head) % BufSize
    IN  typed = [i \in 1..n |-> buf[(head + i - 1) % BufSize]]

\* __process_key: once all bytes of a key are in, the flags show which keys are
\* down and which locks are on; a pause sequence leaves no trace in them.  (The
\* prefix of a key that is not in the table, such as "win", does stay behind.)
FlagsFollowKeys ==
    wire = <<>> /\ ~reset =>
        /\ flags0 \cap Locks = locks
        /\ flags1 \cap Locks = held \cap Locks
        /\ flags0 \cap {"lshift", "rshift"} = held \cap {"lshift", "rshift"}
        /\ \A c \in {"ctrl", "alt"} :
            LET left == IF c = "ctrl" THEN "lctrl" ELSE "lalt"
                right == IF c = "ctrl" THEN "rctrl" ELSE "ralt"
            IN  /\ (c \in flags1) = (left \in held)
                /\ (c \in flags2) = (right \in held)
                /\ {left, right} \cap held = {} => c \notin flags0
        /\ "LAST_E1" \notin flags2

\* kbd.c: neither keys nor the state of the keyboard are lost or invented.
KeyboardKept == KeysInOrder /\ FlagsFollowKeys
============================================================================
