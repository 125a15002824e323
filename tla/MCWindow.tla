------------------------------ MODULE MCWindow ------------------------------
(* The parts around the window, each by itself: a behaviour is one of        *)
(* Hotkey, FailureToasts, AudioService and ConsoleLog, the others rest.      *)
EXTENDS Hotkey, FailureToasts, AudioService, ConsoleLog

VARIABLE part    \* the one that moves

(* Two combinations that share a key, one of them alone on its other key,    *)
(* and a hotkey without keys.                                                *)
MCCombos == <<<<"ctrl", "f1">>, <<"f1">>, <<>>, <<"ctrl", "f2">>>>

Parts == {"keys", "toasts", "sound", "console"}

MCTypeOK ==
  HotkeyTypeOK /\ ToastTypeOK /\ AudioTypeOK /\ ConsoleTypeOK /\ part \in Parts

MCInit ==
  /\ part \in Parts
  /\ HotkeyInit /\ (part # "keys" => prompt)
  /\ ToastInit /\ AudioInit /\ ConsoleInit

Rest(p) ==
  /\ part = p
  /\ UNCHANGED part
  /\ p # "keys" => UNCHANGED hotkeyVars
  /\ p # "toasts" => UNCHANGED toastVars
  /\ p # "sound" => UNCHANGED audioVars
  /\ p # "console" => UNCHANGED consoleVars

MCNext ==
  \/ HotkeyNext /\ Rest("keys")
  \/ ToastNext /\ Rest("toasts")
  \/ AudioNext /\ Rest("sound")
  \/ ConsoleNext /\ Rest("console")

MCVars == <<part, hotkeyVars, toastVars, audioVars, consoleVars>>

(* The worker goes on polling; nothing else is assumed to happen.            *)
MCSpec == MCInit /\ [][MCNext]_MCVars /\ WF_MCVars(Poll /\ Rest("keys"))
=============================================================================
