------------------------------ MODULE KeyMaps ------------------------------
(***************************************************************************)
(* The two translations from a key of the host to the scan code of the     *)
(* guest: ConvertScanCode (src/src/sdl.c) for the native build and         *)
(* getScancode (src/dos.js) for the browser.  A key has the name of its    *)
(* place on a US keyboard, which is the name getScancode is given; the     *)
(* codes of sdl.c are places too (its 1Ch and 1Dh are KeyY and KeyZ).  A   *)
(* key a table does not know is outside its domain.                        *)
(***************************************************************************)
EXTENDS Integers, TLC

\* The keys on which the two tables agree.
SharedKeys ==
  "Escape" :> 1 @@ "Digit1" :> 2 @@ "Digit2" :> 3 @@ "Digit3" :> 4 @@ "Digit4" :> 5 @@
  "Digit5" :> 6 @@ "Digit6" :> 7 @@ "Digit7" :> 8 @@ "Digit8" :> 9 @@ "Digit9" :> 10 @@
  "Digit0" :> 11 @@ "Minus" :> 12 @@ "Equal" :> 13 @@ "Backspace" :> 14 @@
  "KeyQ" :> 16 @@ "KeyW" :> 17 @@ "KeyE" :> 18 @@ "KeyR" :> 19 @@ "KeyT" :> 20 @@
  "KeyU" :> 22 @@ "KeyI" :> 23 @@ "KeyO" :> 24 @@ "KeyP" :> 25 @@
  "BracketLeft" :> 26 @@ "Enter" :> 28 @@ "ControlLeft" :> 29 @@ "ControlRight" :> 29 @@
  "KeyA" :> 30 @@ "KeyS" :> 31 @@ "KeyD" :> 32 @@ "KeyF" :> 33 @@ "KeyG" :> 34 @@
  "KeyH" :> 35 @@ "KeyJ" :> 36 @@ "KeyK" :> 37 @@ "KeyL" :> 38 @@ "Semicolon" :> 39 @@
  "Quote" :> 40 @@ "ShiftLeft" :> 42 @@ "Backslash" :> 43 @@ "KeyX" :> 45 @@
  "KeyC" :> 46 @@ "KeyV" :> 47 @@ "KeyB" :> 48 @@ "KeyN" :> 49 @@ "KeyM" :> 50 @@
  "Comma" :> 51 @@ "Period" :> 52 @@ "Slash" :> 53 @@ "NumpadDivide" :> 53 @@
  "ShiftRight" :> 54 @@ "NumpadMultiply" :> 55 @@ "Space" :> 57 @@ "F1" :> 59 @@ "F2" :> 60 @@
  "F3" :> 61 @@ "F4" :> 62 @@ "F5" :> 63 @@ "F6" :> 64 @@ "F7" :> 65 @@ "F8" :> 66 @@
  "F9" :> 67 @@ "F10" :> 68 @@ "NumLock" :> 69 @@ "Home" :> 71 @@ "ArrowUp" :> 72 @@
  "PageUp" :> 73 @@ "NumpadSubtract" :> 74 @@ "ArrowLeft" :> 75 @@ "ArrowRight" :> 77 @@
  "NumpadAdd" :> 78 @@ "End" :> 79 @@ "ArrowDown" :> 80 @@ "PageDown" :> 81 @@
  "Insert" :> 82 @@ "Delete" :> 83 @@ "F11" :> 87 @@ "F12" :> 88

ConvertScanCode ==
  SharedKeys @@ "KeyY" :> 21 @@ "KeyZ" :> 44 @@ "BracketRight" :> 27 @@ "NumpadEnter" :> 88 @@
  "ContextMenu" :> 0

getScancode ==
  SharedKeys @@ "KeyY" :> 44 @@ "KeyZ" :> 21 @@ "BracketRight" :> 171 @@ "NumpadEnter" :> 28 @@ "ScrollLock" :> 70 @@
  "Backquote" :> 41 @@ "IntlBackslash" :> 86 @@ "AltRight" :> 38 @@
  "Numpad0" :> 82 @@ "Numpad1" :> 79 @@ "Numpad2" :> 80 @@ "Numpad3" :> 81 @@ "Numpad4" :> 75 @@
  "Numpad5" :> 76 @@ "Numpad6" :> 77 @@ "Numpad7" :> 71 @@ "Numpad8" :> 72 @@ "Numpad9" :> 73 @@
  "NumpadDecimal" :> 83

============================================================================
