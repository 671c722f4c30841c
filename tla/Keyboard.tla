------------------------------ MODULE Keyboard ------------------------------
(***************************************************************************)
(* keyboard_interrupt of devices/kbd.c: scancodes into characters.  The    *)
(* keymaps are given by three functions on the scancodes they list;        *)
(* characters are their codes.  What the user holds down is kept beside    *)
(* what the driver believes.                                               *)
(***************************************************************************)
EXTENDS Integers

CONSTANTS invariant_keymap, unshifted_keymap, shifted_keymap

VARIABLES flag,       \* left_shift, right_shift, left_alt, right_alt, left_ctrl, right_ctrl
          caps_lock,
          typed,      \* the character offered to the input buffer, 0 if none
          held,       \* the modifier keys that are down
          caps        \* the caps lock key has been pressed an odd number of times

kvars == <<flag, caps_lock, typed, held, caps>>

CapsLock == 58
(* 57400 and 57373 are the codes 0x38 and 0x1d with the prefix 0xe0. *)
shift_keys == [left_shift |-> 42, right_shift |-> 54, left_alt |-> 56, right_alt |-> 57400,
               left_ctrl |-> 29, right_ctrl |-> 57373]
Modifier == DOMAIN shift_keys

(* The bit 0x80 of the last byte, also of a prefixed code, is a release. *)
Release(code) == code + 128
IsRelease(code) == (code \div 128) % 2 = 1

tolower(c) == IF c \in 65..90 THEN c + 32 ELSE c

CharOf(c, shift, ctrl) ==
  IF ctrl /\ c \in 64..95 THEN c - 64 ELSE IF shift = caps_lock THEN tolower(c) ELSE c

(* Variant: one flag for the two keys of a kind. *)
SetFlagBoth(k, down) ==
  [m \in Modifier |-> IF {m, k} \subseteq {"left_shift", "right_shift"} \/ m = k THEN down ELSE flag[m]]

SetFlag(k, down) == [flag EXCEPT ![k] = down]

keyboard_interrupt(code) ==
  LET release == IsRelease(code)
      key == IF release THEN code - 128 ELSE code
      shift == flag["left_shift"] \/ flag["right_shift"]
      alt == flag["left_alt"] \/ flag["right_alt"]
      ctrl == flag["left_ctrl"] \/ flag["right_ctrl"]
      mapped == key \in DOMAIN invariant_keymap \cup DOMAIN unshifted_keymap
      c == IF key \in DOMAIN invariant_keymap THEN invariant_keymap[key]
           ELSE IF shift THEN shifted_keymap[key] ELSE unshifted_keymap[key]
  IN  /\ caps_lock' = IF key = CapsLock /\ ~release THEN ~caps_lock ELSE caps_lock
      /\ typed' = IF mapped /\ ~release THEN CharOf(c, shift, ctrl) + (IF alt THEN 128 ELSE 0) ELSE 0
      /\ \/ \E k \in Modifier : shift_keys[k] = key /\ flag' = SetFlag(k, ~release)
         \/ (\A k \in Modifier : shift_keys[k] # key) /\ UNCHANGED flag

PressModifier ==
  \E k \in Modifier : /\ k \notin held /\ held' = held \cup {k}
                      /\ keyboard_interrupt(shift_keys[k]) /\ UNCHANGED caps
ReleaseModifier ==
  \E k \in held : /\ held' = held \ {k}
                  /\ keyboard_interrupt(Release(shift_keys[k])) /\ UNCHANGED caps
PressCaps == keyboard_interrupt(CapsLock) /\ caps' = ~caps /\ UNCHANGED held
PressKey ==
  \E code \in DOMAIN invariant_keymap \cup DOMAIN unshifted_keymap, up \in BOOLEAN :
    /\ keyboard_interrupt(IF up THEN Release(code) ELSE code)
    /\ UNCHANGED <<held, caps>>

KeyboardInit ==
  /\ flag = [m \in Modifier |-> FALSE] /\ caps_lock = FALSE
  /\ typed = 0 /\ held = {} /\ caps = FALSE

KeyboardNext == PressModifier \/ ReleaseModifier \/ PressCaps \/ PressKey
-----------------------------------------------------------------------------
(***************************************************************************)
(* A key gives the character that the keys held down mean: capital letters *)
(* with exactly one of shift and caps lock, the control character with     *)
(* control whatever shift says, the upper sign of a key with either shift  *)
(* key, and the high bit with alt.                                         *)
(***************************************************************************)
Meant(code) ==
  LET shift == held \cap {"left_shift", "right_shift"} # {}
      control == held \cap {"left_ctrl", "right_ctrl"} # {}
      sign == IF code \in DOMAIN invariant_keymap THEN invariant_keymap[code]
              ELSE IF shift THEN shifted_keymap[code] ELSE unshifted_keymap[code]
      letter == sign \in 65..90
  IN  (IF control /\ sign \in 64..95 THEN sign - 64
       ELSE IF letter /\ shift = caps THEN sign + 32 ELSE sign)
        + (IF held \cap {"left_alt", "right_alt"} # {} THEN 128 ELSE 0)

CharactersMeant ==
  [][\A code \in DOMAIN invariant_keymap \cup DOMAIN unshifted_keymap :
       keyboard_interrupt(code) /\ UNCHANGED <<held, caps>> => typed' = Meant(code)]_kvars
=============================================================================
