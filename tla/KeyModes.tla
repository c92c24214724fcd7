------------------------------- MODULE KeyModes -------------------------------
(***************************************************************************)
(* What a key means: the modifier state of keyboard.c (key_mode, cap_on,    *)
(* ctrl_pressed, alt_pressed), which the handler keeps from the codes of    *)
(* keys that go down and up, next to the keys that are really held.  What a *)
(* character or a hot key then does is the subject of Keyboard, Screen and  *)
(* Processes; here the line always has room.                                *)
(***************************************************************************)
EXTENDS Integers

CONSTANT ModeHazards    \* what this instance allows

(***************************************************************************)
(* "twokeys": both Shift, both Ctrl or both Alt keys held.  "ctrlheld": a   *)
(* second Ctrl+L or Ctrl+C before Ctrl is released.  "capsrepeat": Caps     *)
(* Lock held until its code repeats.  "backslash": the \ key with Shift and *)
(* Caps Lock.  "nul": a key with no character.  "overrun": the code 0 of a  *)
(* full keyboard.  The right Ctrl and Alt send the codes of the left ones   *)
(* after a prefix, which the handler ignores as it does unknown break codes. *)
(***************************************************************************)
ASSUME ModesAssumption ==
  ModeHazards \subseteq {"twokeys", "ctrlheld", "capsrepeat", "backslash", "nul",
                     "overrun"}

Shifts     == {"lshift", "rshift"}
Ctrls      == {"ctrl", "rctrl"}
Alts       == {"alt", "ralt"}
HotCtrl    == {"L", "C"}
LetterKeys == {"letter"} \cup HotCtrl
Modifiers  == Shifts \cup Ctrls \cup Alts \cup {"caps"}
AllKeys    == Modifiers \cup LetterKeys \cup {"F", "digit", "backslash", "nul",
                                              "overrun"}

VARIABLES
  key_mode,       \* 0: none, 1: Shift, 2: Caps Lock, 3: both
  cap_on, ctrl_pressed, alt_pressed,
  held,           \* the keys that are down
  caps,           \* Caps Lock as the user has it: it changes with each press
  combined,       \* a hot key has been pressed with the Ctrl now held
  pressed         \* the last key that went down and what it did

kernel == << key_mode, cap_on, ctrl_pressed, alt_pressed >>
user   == << held, caps, combined >>
modes  == << kernel, user, pressed >>

Nothing == [key |-> "overrun", does |-> "nothing"]

ModesInit ==
  /\ key_mode = 0
  /\ cap_on = FALSE /\ ctrl_pressed = FALSE /\ alt_pressed = FALSE
  /\ held = {} /\ caps = FALSE /\ combined = FALSE
  /\ pressed = Nothing

-----------------------------------------------------------------------------
(***************************************************************************)
(* keyboard.c: scancode_map, process_char and the break codes.              *)
(***************************************************************************)
scancode_map_shift(mode, k) ==            \* mutant: letters as the other keys
  IF k = "nul" THEN "NUL"
  ELSE IF k \in LetterKeys THEN IF mode \in {0, 2} THEN "lower" ELSE "upper"
  ELSE IF mode \in {1, 3} THEN "shifted" ELSE "plain"

\* In mode 3 the \ key has no | (keyboard.c:59).
scancode_map(mode, k) ==
  CASE k = "nul" -> "NUL"
    [] k \in LetterKeys -> IF mode \in {0, 3} THEN "lower" ELSE "upper"
    [] k = "backslash" -> IF mode = 1 THEN "shifted" ELSE "plain"
    [] OTHER -> IF mode \in {1, 3} THEN "shifted" ELSE "plain"

ShiftDown == key_mode' = CASE key_mode \in {1, 3} -> key_mode
                           [] key_mode = 2 -> 3
                           [] OTHER -> 1

ShiftUp_all == key_mode' = 0              \* mutant: Caps Lock forgotten
ShiftUp == key_mode' = CASE key_mode \in {0, 2} -> key_mode
                         [] key_mode = 3 -> 2
                         [] OTHER -> 0

CapsDown ==
  /\ cap_on' = ~cap_on
  /\ key_mode' = IF cap_on THEN IF key_mode = 2 THEN 0 ELSE 1
                 ELSE IF key_mode = 0 THEN 2 ELSE 3

\* What process_char does about key k.  The i of a code 0 is never assigned.
Does(k) ==
  CASE k \in Modifiers -> {"nothing"}
    [] k = "overrun" -> {"nothing", "halt", "launch"}
    [] k = "F" -> {IF alt_pressed THEN "launch" ELSE "nothing"}
    [] k = "L" /\ ctrl_pressed -> {"clear"}
    [] k = "C" /\ ctrl_pressed -> {"halt"}
    [] OTHER -> {scancode_map(key_mode, k)}

process_char(k) ==
  /\ \E does \in Does(k) : pressed' = [key |-> k, does |-> does]
  /\ IF k \in Shifts THEN ShiftDown /\ UNCHANGED cap_on
     ELSE IF k = "caps" THEN CapsDown
     ELSE UNCHANGED << key_mode, cap_on >>
  /\ ctrl_pressed' = (k \in Ctrls \/ (ctrl_pressed /\ k \notin HotCtrl))
  /\ alt_pressed' = (k \in Alts \/ alt_pressed)

-----------------------------------------------------------------------------
(***************************************************************************)
(* The user's hands.                                                        *)
(***************************************************************************)
ShiftHeld == held \cap Shifts # {}
CtrlHeld  == held \cap Ctrls # {}
AltHeld   == held \cap Alts # {}

Allowed(k) ==
  /\ (\E twins \in {Shifts, Ctrls, Alts} : k \in twins /\ held \cap (twins \ {k}) # {})
       => "twokeys" \in ModeHazards
  /\ k \in HotCtrl /\ CtrlHeld /\ combined => "ctrlheld" \in ModeHazards
  /\ k = "caps" /\ k \in held => "capsrepeat" \in ModeHazards
  /\ k = "backslash" /\ caps /\ ShiftHeld => "backslash" \in ModeHazards
  /\ k \in {"nul", "overrun"} => k \in ModeHazards

\* A key goes down, or its code is repeated.
Press(k) ==
  /\ Allowed(k)
  /\ held' = held \cup ({k} \ {"overrun"})
  /\ caps' = (caps # (k = "caps" /\ k \notin held))
  /\ combined' = (k \notin Ctrls /\ (combined \/ (k \in HotCtrl /\ CtrlHeld)))
  /\ process_char(k)

\* keyboard_interrupt_handler on a break code.
Release(k) ==
  /\ k \in held
  /\ held' = held \ {k}
  /\ combined' = (combined /\ k \notin Ctrls)
  /\ IF k \in Shifts THEN ShiftUp ELSE UNCHANGED key_mode
  /\ ctrl_pressed' = (ctrl_pressed /\ k \notin Ctrls)
  /\ alt_pressed' = (alt_pressed /\ k \notin Alts)
  /\ pressed' = Nothing
  /\ UNCHANGED << cap_on, caps >>

ModesNext == \E k \in AllKeys : Press(k) \/ Release(k)
ModesSpec == ModesInit /\ [][ModesNext]_modes

-----------------------------------------------------------------------------
(***************************************************************************)
(* Properties.                                                             *)
(***************************************************************************)
\* The kernel's picture of the modifiers is the keys that are held, except
\* that a Ctrl counts once (keyboard.c:82-115, 213-264).
ModeMatchesKeys ==
  /\ key_mode = (IF ShiftHeld THEN 1 ELSE 0) + (IF caps THEN 2 ELSE 0)
  /\ cap_on = caps
  /\ alt_pressed <=> AltHeld
  /\ ctrl_pressed <=> CtrlHeld /\ ~combined

\* What it rests on: a Shift, Ctrl or Alt that comes up was the only one held.
ModeInv == /\ ModeMatchesKeys
           /\ caps \in BOOLEAN /\ combined \in BOOLEAN
           /\ \A twins \in {Shifts, Ctrls, Alts} : ~(twins \subseteq held)

Meaning(k) ==
  CASE k = "F" /\ AltHeld -> "launch"
    [] k = "L" /\ CtrlHeld -> "clear"
    [] k = "C" /\ CtrlHeld -> "halt"
    [] k \in LetterKeys /\ ~(k \in HotCtrl /\ CtrlHeld) ->
         IF ShiftHeld # caps THEN "upper" ELSE "lower"
    [] k \in {"digit", "backslash"} -> IF ShiftHeld THEN "shifted" ELSE "plain"
    [] OTHER -> "nothing"

\* A key does what the modifiers held with it say.
ActsAsHeld == [][pressed' # pressed /\ pressed' # Nothing =>
                 pressed'.does = Meaning(pressed'.key)]_modes
=============================================================================
