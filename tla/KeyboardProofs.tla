--------------------------- MODULE KeyboardProofs ---------------------------
(***************************************************************************)
(* Proofs about KeyboardSession, for every table of scan codes, every set  *)
(* of keys and every number of events: the four statements about what a    *)
(* guest gets from the one scan code byte.                                 *)
(***************************************************************************)
EXTENDS KeyboardSession, WellFoundedInduction, TLAPS

\* The types the arguments below need.
Typed ==
  /\ lastscancode \in 0..255
  /\ lastPress \in 0..127 /\ pressAtRead \in 0..127
  /\ presses \in Nat /\ releases \in Nat /\ reads \in Nat
  /\ session \in Sessions
  /\ held \subseteq Keys
  /\ reported \in BOOLEAN
  /\ irr \subseteq Irqs

\* The scan of PIC_nextinterrupt finds the lowest pending line.
LEMMA NextIrqIsPending ==
  ASSUME PicTypeOK, Pending # {}
  PROVE  NextIrq \in Pending /\ \A j \in Pending : NextIrq <= j
<1>1. Pending \subseteq Nat
  BY IrqsAssumption DEF PicTypeOK, Pending
<1>2. PICK i \in Pending : \A j \in Pending : ~(<<j, i>> \in OpToRel(<, Nat))
  BY <1>1, NatLessThanWellFounded, WFMin
<1>3. \A j \in Pending : ~(j < i)
  BY <1>1, <1>2 DEF OpToRel
<1>4. \A j \in Pending : i <= j
  BY <1>1, <1>3
<1> QED
  BY <1>4 DEF NextIrq

LEMMA CodeFacts ==
  ASSUME NEW b \in 0..255
  PROVE  /\ Code(b) \in 0..127
         /\ Code(Code(b) + Release) = Code(b)
         /\ Code(b) + Release \in 0..255
         /\ b < Release => Code(b) = b
         /\ IsRelease(Code(b) + Release)
         /\ b % 256 = b
  BY DEF Code, Release, IsRelease

LEMMA MakeByte ==
  ASSUME NEW k \in Keys
  PROVE  Make[k] \in 0..255 /\ Make[k] % 256 = Make[k]
  BY SessionAssumption

\* What a key event does to the byte, the request and the history.
LEMMA PressEffect ==
  ASSUME Typed, NEW k \in Keys, Press(k)
  PROVE  /\ held' = held \cup {k}
         /\ session.rollover \/ held \subseteq {k}
         /\ UNCHANGED <<session, handler, seen, reported, got, pressAtRead, releases, reads>>
         /\ Make[k] = 0 => UNCHANGED <<lastscancode, newest, lastPress, presses, irr>>
         /\ Make[k] # 0 => /\ lastscancode' = Make[k] /\ newest' = Make[k]
                           /\ lastPress' = Code(Make[k])
                           /\ presses' = presses + 1
                           /\ irr' = irr \cup {1}
<1>1. Make[k] % 256 = Make[k]
  BY MakeByte
<1>2. Make[k] = 0 => UNCHANGED <<lastscancode, newest, lastPress, presses, irr>>
  BY DEF Press, KeyDown, keybVars, picVars
<1>3. Make[k] # 0 => /\ lastscancode' = Make[k] /\ newest' = Make[k]
                     /\ lastPress' = Code(Make[k])
                     /\ presses' = presses + 1
                     /\ irr' = irr \cup {1}
  BY <1>1 DEF Press, KeyDown, PIC_trigger
<1> QED
  BY <1>2, <1>3 DEF Press

LEMMA LiftEffect ==
  ASSUME Typed, NEW k \in Keys, LiftKey(k)
  PROVE  /\ k \in held /\ held' = held \ {k}
         /\ UNCHANGED <<session, handler, seen, reported, got, lastPress, pressAtRead, presses, reads>>
         /\ releases' = releases + 1
         /\ Make[k] = 0 => UNCHANGED <<lastscancode, newest, irr>>
         /\ Make[k] # 0 => /\ lastscancode' = Code(Make[k]) + Release
                           /\ newest' = lastscancode'
                           /\ irr' = irr \cup {1}
<1>1. Make[k] = 0 => UNCHANGED <<lastscancode, newest, irr>>
  BY DEF LiftKey, KeyUp, keybVars, picVars
<1>2. Make[k] # 0 => /\ lastscancode' = Code(Make[k]) + Release
                     /\ newest' = lastscancode'
                     /\ irr' = irr \cup {1}
  BY DEF LiftKey, KeyUp, PIC_trigger
<1> QED
  BY <1>1, <1>2 DEF LiftKey

LEMMA TypedInit == Init => Typed
<1> SUFFICES ASSUME Init PROVE Typed
  OBVIOUS
<1>1. lastscancode = 128 /\ irr = {}
  BY DEF Init, KeybInit, PIC_Init, Release
<1>2. /\ lastPress = 0 /\ pressAtRead = 0 /\ presses = 0 /\ releases = 0 /\ reads = 0
      /\ session \in Sessions /\ held = {}
  BY DEF Init
<1>3. reported \in BOOLEAN
  BY DEF Init
<1> QED
  BY <1>1, <1>2, <1>3 DEF Typed

LEMMA TypedStep == Typed /\ [Next]_vars => Typed'
<1> SUFFICES ASSUME Typed, [Next]_vars PROVE Typed'
  OBVIOUS
<1> USE SessionAssumption
<1>1. ASSUME NEW k \in Keys, Press(k) PROVE Typed'
  <2>1. Make[k] \in 0..255 /\ Code(Make[k]) \in 0..127
    BY MakeByte, CodeFacts
  <2>2. CASE Make[k] = 0
    BY <1>1, <2>2, PressEffect DEF Typed
  <2>3. CASE Make[k] # 0
    BY <1>1, <2>1, <2>3, PressEffect DEF Typed
  <2> QED
    BY <2>2, <2>3
<1>2. ASSUME NEW k \in Keys, LiftKey(k) PROVE Typed'
  <2>1. Code(Make[k]) + Release \in 0..255
    BY MakeByte, CodeFacts
  <2>2. CASE Make[k] = 0
    BY <1>2, <2>2, LiftEffect DEF Typed
  <2>3. CASE Make[k] # 0
    BY <1>2, <2>1, <2>3, LiftEffect DEF Typed
  <2> QED
    BY <2>2, <2>3
<1>3. CASE TakeIrq
  BY <1>3 DEF TakeIrq, PIC_nextinterrupt, Typed, keybVars
<1>4. CASE HandlerReads \/ HandlerReturns \/ UNCHANGED vars
  BY <1>4 DEF HandlerReads, HandlerReturns, Typed, keybVars, picVars, vars, sessionVars
<1>5. CASE BiosStatus
  BY <1>5 DEF BiosStatus, KeyReported, IsRelease, Typed, keybVars, picVars
<1>6. CASE BiosRead
  <2>1. lastscancode' = 128 /\ pressAtRead' = lastPress /\ reads' = reads + 1
    BY <1>6 DEF BiosRead, ReadKey, Release
  <2>2. UNCHANGED <<irr, session, held, lastPress, presses, releases>>
    BY <1>6 DEF BiosRead, picVars
  <2>3. reported' \in BOOLEAN
    BY <1>6 DEF BiosRead
  <2> QED
    BY <2>1, <2>2, <2>3 DEF Typed
<1> QED
  BY <1>1, <1>2, <1>3, <1>4, <1>5, <1>6 DEF Next

\* All the types together, which every invariant below assumes.
THEOREM AlwaysTyped == Spec => []Typed
  BY TypedInit, TypedStep, PTL DEF Spec

-----------------------------------------------------------------------------
\* The rest of the types.
Rest ==
  /\ PicTypeOK
  /\ PIC_triggered = Pending
  /\ shiftpressed \in {0, 1}
  /\ handler \in {"idle", "entered", "done"}
  /\ seen \in 0..255 /\ newest \in 0..255
  /\ got.code \in 0..127 /\ got.ascii.shifted \in BOOLEAN
  /\ presses + releases <= MaxEvents

LEMMA EventStep ==
  ASSUME Typed, Rest, NEW k \in Keys, Press(k) \/ LiftKey(k)
  PROVE  Rest'
<1> USE SessionAssumption
<1>1. PicTypeOK' /\ (PIC_triggered = Pending)' /\ shiftpressed' \in {0, 1}
  BY DEF Rest, PicTypeOK, Pending, Press, LiftKey, KeyDown, KeyUp, PIC_trigger, keybVars, picVars
<1>2. Make[k] \in 0..255 /\ Code(Make[k]) + Release \in 0..255
  BY MakeByte, CodeFacts
<1>3. newest' \in 0..255
  BY <1>2 DEF Rest, Press, LiftKey
<1>4. UNCHANGED <<handler, seen, got>>
  BY DEF Press, LiftKey
<1>5. presses' + releases' <= MaxEvents
  BY DEF Typed, Rest, Press, LiftKey
<1> QED
  BY <1>1, <1>3, <1>4, <1>5 DEF Rest

LEMMA RestStep == Typed /\ Rest /\ [Next]_vars => Rest'
<1> SUFFICES ASSUME Typed, Rest, [Next]_vars PROVE Rest'
  OBVIOUS
<1>1. CASE \E k \in Keys : Press(k) \/ LiftKey(k)
  BY <1>1, EventStep
<1>2. CASE TakeIrq
  <2>1. NextIrq \in irr
    BY <1>2, NextIrqIsPending DEF TakeIrq, Rest, Pending
  <2>2. PicTypeOK' /\ (PIC_triggered = Pending)'
    BY <1>2, <2>1 DEF TakeIrq, PIC_nextinterrupt, Rest, PicTypeOK, Pending
  <2> QED
    BY <1>2, <2>2 DEF TakeIrq, Rest, keybVars
<1>3. CASE HandlerReads
  BY <1>3 DEF HandlerReads, Keyb_in, Typed, Rest, PicTypeOK, Pending, keybVars, picVars
<1>4. CASE HandlerReturns \/ BiosStatus \/ UNCHANGED vars
  BY <1>4 DEF HandlerReturns, BiosStatus, Rest, PicTypeOK, Pending, keybVars, picVars, vars, sessionVars
<1>5. CASE BiosRead
  <2>1. got'.code \in 0..127
    BY <1>5, CodeFacts DEF BiosRead, ReadKeyCode, Typed
  <2>2. got'.ascii.shifted \in BOOLEAN
    BY <1>5 DEF BiosRead, getASCII
  <2> QED
    BY <1>5, <2>1, <2>2 DEF BiosRead, Rest, PicTypeOK, Pending, picVars
<1> QED
  BY <1>1, <1>2, <1>3, <1>4, <1>5 DEF Next

\* The keyboard, the guest and the history keep their types.
THEOREM TypeCorrect == Spec => []TypeOK
<1>1. Init => Rest
  <2> SUFFICES ASSUME Init PROVE Rest
    OBVIOUS
  <2>1. PicTypeOK /\ PIC_triggered = Pending /\ shiftpressed \in {0, 1}
    BY DEF Init, PIC_Init, PicTypeOK, Pending, KeybInit
  <2>2. got.code \in 0..127
    BY DEF Init
  <2>3. got.ascii.shifted \in BOOLEAN
    <3>1. got.ascii = [key |-> 0, shifted |-> FALSE]
      BY DEF Init, NoKey
    <3> QED
      BY <3>1
  <2>4. seen = 128 /\ newest = 128 /\ presses = 0 /\ releases = 0 /\ handler = "idle"
    BY DEF Init, Release
  <2> QED
    BY <2>1, <2>2, <2>3, <2>4, SessionAssumption DEF Rest
<1>2. Typed /\ Rest => TypeOK
  <2> SUFFICES ASSUME Typed, Rest PROVE TypeOK
    OBVIOUS
  <2>1. {seen, newest, lastPress, pressAtRead} \subseteq 0..255
    BY DEF Typed, Rest
  <2>2. presses + releases \in 0..MaxEvents
    BY SessionAssumption DEF Typed, Rest
  <2> QED
    BY <2>1, <2>2 DEF Typed, Rest, TypeOK, KeybTypeOK
<1> QED
  BY <1>1, <1>2, AlwaysTyped, RestStep, PTL DEF Spec

-----------------------------------------------------------------------------
\* For a guest that reads the port alone the byte is the newest event, and what
\* the handler has not read is requested.
PortInv ==
  session.usesPort /\ ~session.usesBios =>
    /\ lastscancode = newest
    /\ seen = newest \/ 1 \in irr \/ handler = "entered"

LEMMA PortInvStep == Typed /\ PortInv /\ [Next]_vars => PortInv'
<1> SUFFICES ASSUME Typed, PortInv, [Next]_vars PROVE PortInv'
  OBVIOUS
<1>1. ASSUME NEW k \in Keys, Press(k) PROVE PortInv'
  BY <1>1, PressEffect DEF PortInv
<1>2. ASSUME NEW k \in Keys, LiftKey(k) PROVE PortInv'
  BY <1>2, LiftEffect DEF PortInv
<1>3. CASE TakeIrq
  BY <1>3 DEF TakeIrq, PortInv, keybVars
<1>4. CASE HandlerReads
  BY <1>4 DEF HandlerReads, PortInv, Keyb_in, keybVars, picVars
<1>5. CASE HandlerReturns
  BY <1>5 DEF HandlerReturns, PortInv, keybVars, picVars
<1>6. CASE BiosStatus
  BY <1>6 DEF BiosStatus, PortInv, keybVars, picVars
<1>7. CASE BiosRead
  BY <1>7 DEF BiosRead, PortInv
<1>8. CASE UNCHANGED vars
  BY <1>8 DEF PortInv, vars, keybVars, picVars, sessionVars
<1> QED
  BY <1>1, <1>2, <1>3, <1>4, <1>5, <1>6, <1>7, <1>8 DEF Next

\* However fast keys follow each other, the newest event was read from the port
\* or is still requested (keyb.c: KeyDown, KeyUp, Keyb_in).
THEOREM NewestAlwaysReachesHandler == Spec => []NewestEventReachesHandler
<1>1. Init => PortInv
  BY DEF Init, PortInv, KeybInit
<1>2. PortInv => NewestEventReachesHandler
  BY DEF PortInv, NewestEventReachesHandler
<1> QED
  BY <1>1, <1>2, AlwaysTyped, PortInvStep, PTL DEF Spec

-----------------------------------------------------------------------------
\* A byte without the release bit is the newest press.
LEMMA ReportStep == Typed /\ ReportIsAPress /\ [Next]_vars => ReportIsAPress'
<1> SUFFICES ASSUME Typed, ReportIsAPress, [Next]_vars PROVE ReportIsAPress'
  OBVIOUS
<1>1. ASSUME NEW k \in Keys, Press(k) PROVE ReportIsAPress'
  <2>1. CASE Make[k] = 0
    BY <1>1, <2>1, PressEffect DEF ReportIsAPress, KeyReported
  <2>2. CASE Make[k] # 0
    <3>1. lastscancode' = Make[k] /\ lastPress' = Code(Make[k])
      BY <1>1, <2>2, PressEffect
    <3>2. Make[k] \in 0..255
      BY MakeByte
    <3>3. Make[k] < Release => Code(Make[k]) = Make[k]
      BY <3>2, CodeFacts
    <3> QED
      BY <3>1, <3>2, <3>3 DEF ReportIsAPress, KeyReported, IsRelease, Release
  <2> QED
    BY <2>1, <2>2
<1>2. ASSUME NEW k \in Keys, LiftKey(k) PROVE ReportIsAPress'
  <2>1. CASE Make[k] = 0
    BY <1>2, <2>1, LiftEffect DEF ReportIsAPress, KeyReported
  <2>2. CASE Make[k] # 0
    <3>a. Make[k] \in 0..255
      BY MakeByte
    <3>b. IsRelease(Code(Make[k]) + Release)
      BY <3>a, CodeFacts
    <3>1. IsRelease(lastscancode')
      BY <1>2, <2>2, <3>b, LiftEffect
    <3> QED
      BY <3>1 DEF ReportIsAPress, KeyReported, IsRelease
  <2> QED
    BY <2>1, <2>2
<1>3. CASE BiosRead
  BY <1>3 DEF BiosRead, ReadKey, ReportIsAPress, KeyReported, IsRelease, Release
<1>4. CASE TakeIrq \/ HandlerReads \/ HandlerReturns \/ BiosStatus \/ UNCHANGED vars
  BY <1>4 DEF TakeIrq, HandlerReads, HandlerReturns, BiosStatus, ReportIsAPress, KeyReported,
              keybVars, picVars, vars, sessionVars
<1> QED
  BY <1>1, <1>2, <1>3, <1>4 DEF Next

\* INT 16h/1 reports presses only, and the last one (keyb.c: Keyboard_Bios).
THEOREM ReportAlwaysAPress == Spec => []ReportIsAPress
<1>1. Init => ReportIsAPress
  BY DEF Init, KeybInit, ReportIsAPress, KeyReported, IsRelease, Release
<1> QED
  BY <1>1, AlwaysTyped, ReportStep, PTL DEF Spec

-----------------------------------------------------------------------------
\* A press that is reported or could be has not been read.
Unread == IF reported \/ KeyReported THEN 1 ELSE 0
CountInv == session.asksFirst => reads + Unread <= presses

LEMMA CountStep == Typed /\ CountInv /\ [Next]_vars => CountInv'
<1> SUFFICES ASSUME Typed, CountInv, [Next]_vars PROVE CountInv'
  OBVIOUS
<1>1. ASSUME NEW k \in Keys, Press(k) PROVE CountInv'
  <2>1. CASE Make[k] = 0
    BY <1>1, <2>1, PressEffect DEF CountInv, Unread, KeyReported
  <2>2. CASE Make[k] # 0
    <3>1. presses' = presses + 1 /\ reads' = reads /\ session' = session
      BY <1>1, <2>2, PressEffect
    <3>2. session.asksFirst => reads <= presses
      BY DEF CountInv, Unread, Typed
    <3> QED
      BY <3>1, <3>2 DEF CountInv, Unread, Typed
  <2> QED
    BY <2>1, <2>2
<1>2. ASSUME NEW k \in Keys, LiftKey(k) PROVE CountInv'
  <2>1. CASE Make[k] = 0
    BY <1>2, <2>1, LiftEffect DEF CountInv, Unread, KeyReported
  <2>2. CASE Make[k] # 0
    <3>a. Make[k] \in 0..255
      BY MakeByte
    <3>b. IsRelease(Code(Make[k]) + Release)
      BY <3>a, CodeFacts
    <3>1. IsRelease(lastscancode')
      BY <1>2, <2>2, <3>b, LiftEffect
    <3>2. presses' = presses /\ reads' = reads /\ session' = session /\ reported' = reported
      BY <1>2, LiftEffect
    <3>3. ~KeyReported'
      BY <3>1 DEF KeyReported, IsRelease
    <3> QED
      BY <3>2, <3>3 DEF CountInv, Unread, Typed
  <2> QED
    BY <2>1, <2>2
<1>3. CASE BiosStatus
  <2>1. reported' = KeyReported /\ KeyReported' = KeyReported
    BY <1>3 DEF BiosStatus, KeyReported, IsRelease, keybVars
  <2>2. UNCHANGED <<session, presses, reads>>
    BY <1>3 DEF BiosStatus
  <2> QED
    BY <2>1, <2>2 DEF CountInv, Unread, Typed
<1>4. CASE BiosRead
  <2>1. ~reported' /\ ~KeyReported'
    BY <1>4 DEF BiosRead, ReadKey, KeyReported, IsRelease, Release
  <2>2. session.asksFirst => reported
    BY <1>4 DEF BiosRead
  <2>3. reads' = reads + 1 /\ UNCHANGED <<session, presses>>
    BY <1>4 DEF BiosRead
  <2> QED
    BY <2>1, <2>2, <2>3 DEF CountInv, Unread, Typed
<1>5. CASE TakeIrq \/ HandlerReads \/ HandlerReturns \/ UNCHANGED vars
  BY <1>5 DEF TakeIrq, HandlerReads, HandlerReturns, CountInv, Unread, KeyReported,
              keybVars, picVars, vars, sessionVars
<1> QED
  BY <1>1, <1>2, <1>3, <1>4, <1>5 DEF Next

\* No key press is read twice by a guest that asks before it reads.
THEOREM NoPressEverReadTwice == Spec => []NoPressReadTwice
<1>1. Init => CountInv
  BY DEF Init, KeybInit, CountInv, Unread, KeyReported, IsRelease, Release
<1>2. Typed /\ CountInv => NoPressReadTwice
  BY DEF Typed, CountInv, Unread, NoPressReadTwice
<1> QED
  BY <1>1, <1>2, AlwaysTyped, CountStep, PTL DEF Spec

-----------------------------------------------------------------------------
\* Without rollover one key is down at most, it is the one pressed last, and
\* from the report to the read the byte keeps its code: a release only sets the
\* release bit.
SingleInv ==
  session.asksFirst /\ ~session.rollover =>
    /\ \A j, k \in held : j = k
    /\ \A k \in held : Make[k] # 0 => lastPress = Code(Make[k])
    /\ reported => Code(lastscancode) = lastPress
    /\ reads > 0 => got.code = pressAtRead

LEMMA SingleStep ==
  Typed /\ ReportIsAPress /\ SingleInv /\ [Next]_vars => SingleInv'
<1> SUFFICES ASSUME Typed, ReportIsAPress, SingleInv, [Next]_vars,
                    session'.asksFirst, ~session'.rollover
             PROVE  /\ \A j, k \in held' : j = k
                    /\ \A k \in held' : Make[k] # 0 => lastPress' = Code(Make[k])
                    /\ reported' => Code(lastscancode') = lastPress'
                    /\ reads' > 0 => got'.code = pressAtRead'
  BY DEF SingleInv
<1>0. session' = session
  BY DEF Next, Press, LiftKey, TakeIrq, HandlerReads, HandlerReturns, BiosStatus, BiosRead,
         vars, sessionVars
<1>s. /\ \A j, k \in held : j = k
      /\ \A k \in held : Make[k] # 0 => lastPress = Code(Make[k])
      /\ reported => Code(lastscancode) = lastPress
      /\ reads > 0 => got.code = pressAtRead
  BY <1>0 DEF SingleInv
<1> DEFINE Goal == /\ \A j, k \in held' : j = k
                   /\ \A k \in held' : Make[k] # 0 => lastPress' = Code(Make[k])
                   /\ reported' => Code(lastscancode') = lastPress'
                   /\ reads' > 0 => got'.code = pressAtRead'
<1>1. ASSUME NEW k \in Keys, Press(k) PROVE Goal
  <2>1. held' = {k} /\ UNCHANGED <<reported, got, pressAtRead, reads>>
    BY <1>0, <1>1, PressEffect
  <2>2. CASE Make[k] = 0
    BY <1>1, <1>s, <2>1, <2>2, PressEffect
  <2>3. CASE Make[k] # 0
    BY <1>1, <1>s, <2>1, <2>3, PressEffect
  <2> QED
    BY <2>2, <2>3
<1>2. ASSUME NEW k \in Keys, LiftKey(k) PROVE Goal
  <2>1. k \in held /\ held' = held \ {k} /\ UNCHANGED <<reported, got, lastPress, pressAtRead, reads>>
    BY <1>2, LiftEffect
  <2>2. CASE Make[k] = 0
    BY <1>2, <1>s, <2>1, <2>2, LiftEffect
  <2>3. CASE Make[k] # 0
    <3>1. lastscancode' = Code(Make[k]) + Release
      BY <1>2, <2>3, LiftEffect
    <3>2. Code(lastscancode') = Code(Make[k])
      BY <3>1, MakeByte, CodeFacts
    <3>3. lastPress = Code(Make[k])
      BY <1>s, <2>1, <2>3
    <3> QED
      BY <1>s, <2>1, <3>2, <3>3
  <2> QED
    BY <2>2, <2>3
<1>3. CASE BiosStatus
  <2>1. reported' = KeyReported /\ UNCHANGED <<held, lastscancode, lastPress, got, pressAtRead, reads>>
    BY <1>3 DEF BiosStatus, keybVars
  <2>2. KeyReported => Code(lastscancode) = lastPress
    <3>1. lastscancode \in 0..255
      BY DEF Typed
    <3>2. lastscancode < Release => Code(lastscancode) = lastscancode
      BY <3>1, CodeFacts
    <3>3. KeyReported => lastscancode < Release
      BY <3>1 DEF KeyReported, IsRelease, Release
    <3> QED
      BY <3>2, <3>3 DEF ReportIsAPress
  <2> QED
    BY <1>s, <2>1, <2>2
<1>4. CASE BiosRead
  <2>1. reported
    BY <1>0, <1>4 DEF BiosRead
  <2>2. got'.code = Code(lastscancode) /\ pressAtRead' = lastPress
    BY <1>4 DEF BiosRead, ReadKeyCode
  <2>3. ~reported' /\ UNCHANGED <<held, lastPress>>
    BY <1>4 DEF BiosRead
  <2> QED
    BY <1>s, <2>1, <2>2, <2>3
<1>5. CASE TakeIrq \/ HandlerReads \/ HandlerReturns \/ UNCHANGED vars
  <2>1. UNCHANGED <<held, lastscancode, lastPress, reported, got, pressAtRead, reads>>
    BY <1>5 DEF TakeIrq, HandlerReads, HandlerReturns, keybVars, vars, sessionVars
  <2> QED
    BY <1>s, <2>1
<1> QED
  BY <1>1, <1>2, <1>3, <1>4, <1>5 DEF Next

\* Without rollover INT 16h/0 returns the key that was pressed last, whatever
\* happens between the report and the read.
THEOREM ReadAlwaysGetsLastPress == Spec => []ReadGetsLastPress
<1>1. Init => SingleInv
  BY DEF Init, SingleInv
<1>2. SingleInv => ReadGetsLastPress
  BY DEF SingleInv, ReadGetsLastPress
<1> QED
  BY <1>1, <1>2, AlwaysTyped, ReportAlwaysAPress, SingleStep, PTL DEF Spec

=============================================================================
