------------------------------- MODULE Hotkey -------------------------------
(***************************************************************************)
(* platform/Hotkey.cpp: the worker polls the key combination of one option  *)
(* after another and takes the change from up to down for a press; the      *)
(* window's thread mutes all of them while text is typed (ui/UI.cpp).  The  *)
(* keys change while they are read, one after another, and the worker may   *)
(* be away for seconds between two rounds, searching for a signature.       *)
(***************************************************************************)
EXTENDS Integers, Sequences

CONSTANTS
  Keys,        \* the keys of the keyboard
  Combos       \* Combos[h]: _keys of the h-th hotkey, in order

Hotkeys == DOMAIN Combos

ASSUME HotkeyAssumption == Combos \in Seq(Seq(Keys)) \ {<<>>}

VARIABLES
  prompt,      \* whether in this behaviour every poll comes before the next
               \* change of the keys; it never changes
  down,        \* the keys that are down
  suppressed,  \* s_suppressed
  wasDown,     \* the hotkeys with _wasDown
  polling,     \* the hotkey JustPressed is called for
  reading,     \* the key of it that is read next, or past the last one
  spent        \* history: the hotkeys whose present press was delivered or
               \* typed; a press ends when one of its keys goes up

hotkeyVars == <<prompt, down, suppressed, wasDown, polling, reading, spent>>

KeysOf(h) == {Combos[h][i] : i \in DOMAIN Combos[h]}

Pressed(h) == Combos[h] # <<>> /\ KeysOf(h) \subseteq down

HotkeyTypeOK ==
  /\ prompt \in BOOLEAN
  /\ down \subseteq Keys
  /\ suppressed \in BOOLEAN
  /\ wasDown \subseteq Hotkeys
  /\ polling \in Hotkeys
  /\ reading \in 1..(Len(Combos[polling]) + 1)
  /\ spent \subseteq Hotkeys

HotkeyInit ==
  /\ prompt \in BOOLEAN
  /\ down = {}
  /\ suppressed = FALSE
  /\ wasDown = {}
  /\ polling = 1
  /\ reading = 1
  /\ spent = {}

-----------------------------------------------------------------------------
(* The player and the window.                                                *)

MayChange == prompt => \A h \in Hotkeys : h \in wasDown <=> Pressed(h)

KeyDown(k) ==
  /\ k \notin down
  /\ MayChange
  /\ down' = down \cup {k}
  /\ UNCHANGED <<prompt, suppressed, wasDown, polling, reading, spent>>

KeyUp(k) ==
  /\ k \in down
  /\ MayChange
  /\ down' = down \ {k}
  /\ spent' = {h \in spent : k \notin KeysOf(h)}
  /\ UNCHANGED <<prompt, suppressed, wasDown, polling, reading>>

(* RenderLoop, every frame: whether the window in front takes text.          *)
SetSuppressed ==
  /\ suppressed' = ~suppressed
  /\ UNCHANGED <<prompt, down, wasDown, polling, reading, spent>>

-----------------------------------------------------------------------------
(* The worker: AllKeysDown and JustPressed.                                  *)

(* MUTANT of NextHotkey: the round stops before the last hotkey.             *)
NextHotkey_SkipsLast ==
  /\ polling' = IF polling >= Len(Combos) - 1 THEN 1 ELSE polling + 1
  /\ reading' = 1

(* Poll ends for this hotkey and goes on to the next one's first key.        *)
NextHotkey ==
  /\ polling' = IF polling = Len(Combos) THEN 1 ELSE polling + 1
  /\ reading' = 1

ReadKeyDown ==
  /\ reading <= Len(Combos[polling])
  /\ Combos[polling][reading] \in down
  /\ reading' = reading + 1
  /\ UNCHANGED <<prompt, down, suppressed, wasDown, polling, spent>>

(* MUTANT of ReadKeyUp: one flag for all hotkeys.                            *)
ReadKeyUp_SharedFlag ==
  /\ reading <= Len(Combos[polling])
  /\ Combos[polling][reading] \notin down
  /\ wasDown' = {}
  /\ NextHotkey
  /\ UNCHANGED <<prompt, down, suppressed, spent>>

(* One key up: the combination is not down.                                  *)
ReadKeyUp ==
  /\ reading <= Len(Combos[polling])
  /\ Combos[polling][reading] \notin down
  /\ wasDown' = wasDown \ {polling}
  /\ NextHotkey
  /\ UNCHANGED <<prompt, down, suppressed, spent>>

(* A hotkey without keys never fires.                                        *)
NoKeys ==
  /\ Combos[polling] = <<>>
  /\ wasDown' = wasDown \ {polling}
  /\ NextHotkey
  /\ UNCHANGED <<prompt, down, suppressed, spent>>

AllRead == Combos[polling] # <<>> /\ reading > Len(Combos[polling])

(* All keys were down when they were read.  Muted or pressed before: silent. *)
StaysSilent ==
  /\ AllRead
  /\ suppressed \/ polling \in wasDown
  /\ wasDown' = wasDown \cup {polling}
  /\ spent' = spent \cup {h \in {polling} : Pressed(h)}
  /\ NextHotkey
  /\ UNCHANGED <<prompt, down, suppressed>>

(* JustPressed returns true: CheatOption::Process toggles the option.        *)
Fires ==
  /\ AllRead
  /\ ~suppressed
  /\ polling \notin wasDown
  /\ wasDown' = wasDown \cup {polling}
  /\ spent' = spent \cup {h \in {polling} : Pressed(h)}
  /\ NextHotkey
  /\ UNCHANGED <<prompt, down, suppressed>>

Poll == ReadKeyDown \/ ReadKeyUp \/ NoKeys \/ StaysSilent \/ Fires

HotkeyNext ==
  \/ \E k \in Keys : KeyDown(k) \/ KeyUp(k)
  \/ SetSuppressed
  \/ Poll

HotkeySpec == HotkeyInit /\ [][HotkeyNext]_hotkeyVars

-----------------------------------------------------------------------------
(* One press of a combination fires at most once, and not at all when it was *)
(* seen while text was typed: between two deliveries one of its keys was up, *)
(* whatever the keys of the other hotkeys do, however the keys change while  *)
(* they are read and however long a round takes (Hotkey.h:6, Hotkey.cpp:21). *)
FiresOncePerPress == [][Fires => polling \notin spent]_hotkeyVars

(* When the polls keep up with the keys, a combination that is held and not  *)
(* muted fires.  It need not when they do not: a release and a new press     *)
(* between two polls look like one long press.                               *)
HeldComboFires ==
  \A h \in Hotkeys :
    prompt /\ Pressed(h) /\ ~suppressed /\ h \notin spent
      ~> h \in spent \/ ~Pressed(h) \/ suppressed
=============================================================================
