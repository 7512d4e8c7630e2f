-------------------------- MODULE KeyboardSession --------------------------
(***************************************************************************)
(* Somebody types while a guest reads the keyboard, through a handler of   *)
(* IRQ 1 that reads port 60h, through INT 16h, or both.  The host delivers *)
(* key events between two calls of exec86, so between any two instructions *)
(* of the guest; a held key repeats.                                       *)
(***************************************************************************)
EXTENDS Keyb, KeyMaps

CONSTANTS
  Keys,              \* the keys that are typed
  Make,              \* the host's table: ConvertScanCode or getScancode
  Sessions,          \* what users and guests do: see session
  MaxEvents          \* bound: key events of a session

ASSUME SessionAssumption ==
  /\ 1 \in Irqs
  /\ Keys \subseteq DOMAIN Make
  /\ \A k \in Keys : Make[k] \in 0..255
  /\ Sessions \subseteq [rollover : BOOLEAN, usesPort : BOOLEAN,
                         usesBios : BOOLEAN, asksFirst : BOOLEAN]
  /\ MaxEvents \in Nat

VARIABLES
  session,           \* rigid: [rollover] keys are pressed while others are held,
                     \* [usesPort] the guest's handler of IRQ 1 reads port 60h,
                     \* [usesBios] the guest polls INT 16h, [asksFirst] and reads
                     \* a key only after it was reported
  held,              \* the keys that are down
  handler,           \* the guest's IRQ 1 handler: "idle", "entered" or "done"
  seen,              \* the code its last read of port 60h returned
  reported,          \* INT 16h/1 has just reported a key
  got,               \* the result of the last INT 16h/0
  newest,            \* history: the code of the newest event
  lastPress,         \* history: the code of the newest press
  pressAtRead,       \* history: lastPress when got was read
  presses, releases, \* history: number of events so far (presses with a code)
  reads              \* history: number of INT 16h/0 so far

sessionVars == <<session, held, handler, seen, reported, got, newest, lastPress, pressAtRead,
                 presses, releases, reads>>
vars == <<picVars, keybVars, sessionVars>>

NoKey == [key |-> 0, shifted |-> FALSE]

TypeOK ==
  /\ PicTypeOK
  /\ KeybTypeOK
  /\ session \in Sessions
  /\ held \subseteq Keys
  /\ handler \in {"idle", "entered", "done"}
  /\ {seen, newest, lastPress, pressAtRead} \subseteq 0..255
  /\ reported \in BOOLEAN
  /\ got.code \in 0..127 /\ got.ascii.shifted \in BOOLEAN
  /\ presses + releases \in 0..MaxEvents
  /\ reads \in Nat

Init ==
  /\ PIC_Init
  /\ KeybInit
  /\ session \in Sessions
  /\ held = {}
  /\ handler = "idle"
  /\ seen = Release /\ newest = Release
  /\ lastPress = 0 /\ pressAtRead = 0
  /\ reported = FALSE
  /\ got = [code |-> 0, ascii |-> NoKey]
  /\ presses = 0 /\ releases = 0 /\ reads = 0

-----------------------------------------------------------------------------
\* DetectKeysDown, SDL_KEYDOWN; also the auto-repeat of a held key.
Press(k) ==
  /\ presses + releases < MaxEvents
  /\ session.rollover \/ held \subseteq {k}
  /\ KeyDown(Make[k])
  /\ held' = held \cup {k}
  /\ IF Make[k] = 0
     THEN UNCHANGED <<newest, lastPress, presses>>
     ELSE /\ newest' = Make[k]
          /\ lastPress' = Code(Make[k])
          /\ presses' = presses + 1
  /\ UNCHANGED <<session, handler, seen, reported, got, pressAtRead, releases, reads>>

\* DetectKeysUp, SDL_KEYUP.
LiftKey(k) ==
  /\ k \in held
  /\ presses + releases < MaxEvents
  /\ KeyUp(Make[k])
  /\ held' = held \ {k}
  /\ newest' = IF Make[k] = 0 THEN newest ELSE Code(Make[k]) + Release
  /\ releases' = releases + 1
  /\ UNCHANGED <<session, handler, seen, reported, got, lastPress, pressAtRead, presses, reads>>

\* exec86 takes IRQ 1 when interrupts are on, that is, outside the handler.
TakeIrq ==
  /\ handler = "idle"
  /\ PIC_triggered # {}
  /\ PIC_nextinterrupt
  /\ handler' = "entered"
  /\ UNCHANGED <<keybVars, session, held, seen, reported, got, newest, lastPress, pressAtRead,
                 presses, releases, reads>>

\* The handler reads port 60h (or, in a guest that only uses the BIOS, nothing).
HandlerReads ==
  /\ handler = "entered"
  /\ seen' = IF session.usesPort THEN Keyb_in ELSE seen
  /\ handler' = "done"
  /\ UNCHANGED <<picVars, keybVars, session, held, reported, got, newest, lastPress, pressAtRead,
                 presses, releases, reads>>

HandlerReturns ==
  /\ handler = "done"
  /\ handler' = "idle"
  /\ UNCHANGED <<picVars, keybVars, session, held, seen, reported, got, newest, lastPress, pressAtRead,
                 presses, releases, reads>>

\* INT 16h, ah = 1, from the main program.
BiosStatus ==
  /\ session.usesBios /\ handler = "idle"
  /\ reported' = KeyReported
  /\ UNCHANGED <<picVars, keybVars, session, held, handler, seen, got, newest, lastPress, pressAtRead,
                 presses, releases, reads>>

\* INT 16h, ah = 0, from the main program.
BiosRead ==
  /\ session.usesBios /\ handler = "idle"
  /\ reads <= MaxEvents
  /\ session.asksFirst => reported
  /\ got' = [code |-> ReadKeyCode, ascii |-> getASCII]
  /\ ReadKey
  /\ reported' = FALSE
  /\ pressAtRead' = lastPress
  /\ reads' = reads + 1
  /\ UNCHANGED <<picVars, shiftpressed, session, held, handler, seen, newest, lastPress, presses, releases>>

Next ==
  \/ \E k \in Keys : Press(k) \/ LiftKey(k)
  \/ TakeIrq \/ HandlerReads \/ HandlerReturns
  \/ BiosStatus \/ BiosRead

Spec == Init /\ [][Next]_vars

-----------------------------------------------------------------------------
\* However fast the keys follow each other, the newest event is never left
\* unread: its code has been read from port 60h, or IRQ 1 is requested, or the
\* handler has been entered and has not read yet.  (Older events may be lost.)
NewestEventReachesHandler ==
  session.usesPort /\ ~session.usesBios =>
    \/ seen = newest
    \/ 1 \in irr
    \/ handler = "entered"

\* A program that reads a key only after INT 16h/1 reported one never gets a
\* key press twice, whatever is pressed and released between the two calls.
NoPressReadTwice == session.asksFirst => reads <= presses

\* Without rollover the program gets the key that was pressed last, also when
\* the key goes up, or another one comes, between the report and the read.
ReadGetsLastPress ==
  session.asksFirst /\ ~session.rollover /\ reads > 0 => got.code = pressAtRead

\* A key that INT 16h/1 reports is the one pressed last: a release, which goes
\* through the same byte, is never reported as a key, whatever was held.
ReportIsAPress ==
  KeyReported => lastscancode = lastPress

\* A key that goes down, and has a code, is reported by INT 16h/1: the code is
\* a make code.
PressIsReported == [][\A k \in Keys : Press(k) /\ Make[k] # 0 => KeyReported']_vars

=============================================================================
