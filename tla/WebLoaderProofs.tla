-------------------------- MODULE WebLoaderProofs --------------------------
(***************************************************************************)
(* Proofs about WebLoader, for any number of versions and of calls of Main *)
(* and every kind of user: the page is never dead, a patient user gets the *)
(* version asked for, and a loop too many only by a load that overtook the *)
(* frame of a stopped loop.                                                *)
(***************************************************************************)
EXTENDS WebLoader, FiniteSetTheorems, TLAPS

Typed ==
  /\ setting \in Settings
  /\ doStopLoop \in BOOLEAN
  /\ loading \subseteq {c \in Calls : version[c] # None}
  /\ version \in [Calls -> Versions \cup {None}]
  /\ game = None \/ (game \in Calls /\ version[game] # None)
  /\ ~doStopLoop => game # None
  /\ frames \in Nat
  /\ selected \in Versions \cup {None}
  /\ overtaken \in Nat

\* A call of Main takes a name that was free.
LEMMA MainEffect ==
  ASSUME Typed, NEW v \in Versions, NEW pending \in SUBSET loading, Main(v, pending)
  PROVE  /\ NextCall \in Unmade /\ NextCall \notin pending
         /\ doStopLoop' = TRUE
         /\ loading' = pending \cup {NextCall}
         /\ version' = [version EXCEPT ![NextCall] = v]
         /\ version' \in [Calls -> Versions \cup {None}]
         /\ version'[NextCall] = v
         /\ \A c \in Calls : version[c] # None => version'[c] = version[c]
         /\ loading' \subseteq {c \in Calls : version'[c] # None}
<1>1. NextCall \in Unmade
  BY DEF Main, NextCall
<1>2. NextCall \in Calls /\ version[NextCall] = None
  BY <1>1 DEF Unmade
<1>3. /\ doStopLoop' = TRUE
      /\ loading' = pending \cup {NextCall}
      /\ version' = [version EXCEPT ![NextCall] = v]
  BY DEF Main
<1>4. /\ version' \in [Calls -> Versions \cup {None}]
      /\ version'[NextCall] = v
      /\ \A c \in Calls : version[c] # None => version'[c] = version[c]
  BY <1>2, <1>3 DEF Typed
<1>5. NextCall \notin pending
  BY <1>2 DEF Typed
<1>6. v # None
  BY LoaderAssumption
<1>7. loading' \subseteq {c \in Calls : version'[c] # None}
  BY <1>2, <1>3, <1>4, <1>6 DEF Typed
<1> QED
  BY <1>1, <1>3, <1>4, <1>5, <1>7

\* What a slice of the loop does, or a fault in it.
LEMMA LoopRunsEffect ==
  ASSUME Typed, NEW call \in Calls, version[call] # None,
         NEW rest \in Nat, NEW pending \in SUBSET loading,
         LoopRuns(call, rest, pending)
  PROVE  \/ /\ frames' = rest + 1 /\ doStopLoop' = FALSE /\ loading' = pending
            /\ UNCHANGED version
         \/ /\ frames' = rest
            /\ version[call] \in Versions
            /\ Main(version[call], pending)
  BY DEF LoopRuns, Typed

LEMMA LoopRunsTyped ==
  ASSUME Typed, NEW call \in Calls, version[call] # None,
         NEW rest \in Nat, NEW pending \in SUBSET loading,
         LoopRuns(call, rest, pending),
         game' = call, overtaken' \in Nat, UNCHANGED <<setting, selected>>
  PROVE  Typed'
<1>1. CASE /\ frames' = rest + 1 /\ doStopLoop' = FALSE /\ loading' = pending
           /\ UNCHANGED version
  <2>1. game' # None /\ game' \in Calls /\ version'[game'] # None
    BY <1>1, LoaderAssumption
  <2>2. loading' \subseteq {c \in Calls : version'[c] # None}
    BY <1>1 DEF Typed
  <2>3. frames' \in Nat
    BY <1>1
  <2>6. doStopLoop' \in BOOLEAN
    BY <1>1
  <2>4. version' \in [Calls -> Versions \cup {None}]
    BY <1>1 DEF Typed
  <2>5. setting' \in Settings /\ selected' \in Versions \cup {None}
    BY DEF Typed
  <2> QED
    BY <2>1, <2>2, <2>3, <2>4, <2>5, <2>6 DEF Typed
<1>2. CASE /\ frames' = rest
           /\ version[call] \in Versions
           /\ Main(version[call], pending)
  BY <1>2, MainEffect DEF Typed
<1> QED
  BY <1>1, <1>2, LoopRunsEffect

LEMMA TypedStep == Typed /\ [Next]_vars => Typed'
<1> SUFFICES ASSUME Typed, [Next]_vars PROVE Typed'
  OBVIOUS
<1>1. ASSUME NEW v \in Versions, Select(v) PROVE Typed'
  BY <1>1, MainEffect DEF Select, Typed
<1>2. CASE Frame
  <2>1. game \in Calls /\ version[game] # None /\ frames - 1 \in Nat /\ overtaken' \in Nat
    BY <1>2 DEF Frame, Typed
  <2> QED
    BY <1>2, <2>1, LoopRunsTyped DEF Frame
<1>3. CASE FrameStops
  BY <1>3 DEF FrameStops, Typed
<1>4. ASSUME NEW call \in Calls, Loaded(call) PROVE Typed'
  <2>1. version[call] # None /\ frames \in Nat /\ overtaken' \in Nat
    BY <1>4 DEF Loaded, Overtakes, Typed
  <2> QED
    BY <1>4, <2>1, LoopRunsTyped DEF Loaded
<1>5. ASSUME NEW call \in Calls, LoadFails(call) PROVE Typed'
  BY <1>5 DEF LoadFails, Typed
<1>6. CASE UNCHANGED vars
  BY <1>6 DEF vars, Typed
<1> QED
  BY <1>1, <1>2, <1>3, <1>4, <1>5, <1>6 DEF Next

LEMMA TypedInit == Init => Typed
  BY DEF Init, Typed

\* All the types together, which every invariant below assumes.
THEOREM AlwaysTyped == Spec => []Typed
  BY TypedInit, TypedStep, PTL DEF Spec

-----------------------------------------------------------------------------
\* Every frame and every pending load is owed to a call of Main of its own.
Owed(n, pending, unmade) == n + Cardinality(pending) + Cardinality(unmade) <= Cardinality(Calls)
CountInv == Owed(frames, loading, Unmade)

LEMMA Sizes ==
  ASSUME Typed
  PROVE  /\ IsFiniteSet(loading) /\ IsFiniteSet(Unmade)
         /\ Cardinality(loading) \in Nat /\ Cardinality(Unmade) \in Nat
         /\ Cardinality(Calls) \in Nat
<1>1. loading \in SUBSET Calls /\ Unmade \in SUBSET Calls
  BY DEF Typed, Unmade
<1> QED
  BY <1>1, LoaderAssumption, FS_Subset, FS_CardinalityType

\* A call of Main trades a name for a pending load.
LEMMA MainCount ==
  ASSUME Typed, NEW v \in Versions, NEW pending \in SUBSET loading, Main(v, pending),
         NEW n \in Nat, Owed(n, pending, Unmade)
  PROVE  Owed(n, loading', Unmade')
<1>1. /\ NextCall \in Unmade /\ NextCall \notin pending
      /\ loading' = pending \cup {NextCall}
      /\ version' = [version EXCEPT ![NextCall] = v]
  BY MainEffect
<1>2. Unmade' = Unmade \ {NextCall}
  BY <1>1, LoaderAssumption DEF Unmade, Typed
<1>3. IsFiniteSet(pending) /\ Cardinality(pending) \in Nat
  BY Sizes, FS_Subset, FS_CardinalityType
<1>4. Cardinality(loading') = Cardinality(pending) + 1
  BY <1>1, <1>3, FS_AddElement
<1>5. Cardinality(Unmade') = Cardinality(Unmade) - 1
  BY <1>1, <1>2, Sizes, FS_RemoveElement
<1> QED
  BY <1>3, <1>4, <1>5, Sizes DEF Owed

LEMMA LoopRunsCount ==
  ASSUME Typed, NEW call \in Calls, version[call] # None,
         NEW rest \in Nat, NEW pending \in SUBSET loading,
         LoopRuns(call, rest, pending), Owed(rest + 1, pending, Unmade)
  PROVE  CountInv'
<1>1. CASE /\ frames' = rest + 1 /\ loading' = pending /\ UNCHANGED version
  BY <1>1 DEF CountInv, Owed, Unmade
<1>2. CASE /\ frames' = rest
           /\ version[call] \in Versions
           /\ Main(version[call], pending)
  <2>1. Cardinality(pending) \in Nat /\ Cardinality(Unmade) \in Nat /\ Cardinality(Calls) \in Nat
    BY Sizes, FS_Subset, FS_CardinalityType
  <2>2. Owed(rest, pending, Unmade)
    BY <2>1 DEF Owed
  <2>3. Owed(rest, loading', Unmade')
    BY <1>2, <2>2, MainCount
  <2> QED
    BY <1>2, <2>3 DEF CountInv
<1> QED
  BY <1>1, <1>2, LoopRunsEffect

LEMMA CountStep == Typed /\ CountInv /\ [Next]_vars => CountInv'
<1> SUFFICES ASSUME Typed, CountInv, [Next]_vars PROVE CountInv'
  OBVIOUS
<1>1. ASSUME NEW v \in Versions, Select(v) PROVE CountInv'
  <2>1. loading \in SUBSET loading /\ frames \in Nat /\ frames' = frames /\ Main(v, loading)
    BY <1>1 DEF Select, Typed
  <2>2. Owed(frames, loading', Unmade')
    BY <2>1, MainCount DEF CountInv
  <2> QED
    BY <2>1, <2>2 DEF CountInv
<1>2. CASE Frame
  <2>1. game \in Calls /\ version[game] # None /\ frames - 1 \in Nat /\ loading \in SUBSET loading
    BY <1>2 DEF Frame, Typed
  <2>2. Owed((frames - 1) + 1, loading, Unmade)
    <3>1. (frames - 1) + 1 = frames
      BY DEF Typed
    <3> QED
      BY <3>1 DEF CountInv
  <2> QED
    BY <1>2, <2>1, <2>2, LoopRunsCount DEF Frame
<1>3. CASE FrameStops
  <2>1. frames \in Nat /\ frames' = frames - 1 /\ UNCHANGED <<loading, version>>
    BY <1>3 DEF FrameStops, Typed
  <2> QED
    BY <2>1, Sizes DEF CountInv, Owed, Unmade
<1>4. ASSUME NEW call \in Calls, call \in loading
      PROVE  /\ Cardinality(loading \ {call}) = Cardinality(loading) - 1
             /\ Owed(frames + 1, loading \ {call}, Unmade)
  <2>1. Cardinality(loading \ {call}) = Cardinality(loading) - 1
    BY <1>4, Sizes, FS_RemoveElement
  <2> QED
    BY <2>1, Sizes DEF CountInv, Owed, Typed
<1>5. ASSUME NEW call \in Calls, Loaded(call) PROVE CountInv'
  <2>1. call \in loading /\ version[call] # None /\ frames \in Nat
    BY <1>5 DEF Loaded, Typed
  <2> QED
    BY <1>4, <1>5, <2>1, LoopRunsCount DEF Loaded
<1>6. ASSUME NEW call \in Calls, LoadFails(call) PROVE CountInv'
  <2>1. call \in loading /\ loading' = loading \ {call} /\ UNCHANGED <<frames, version>>
    BY <1>6 DEF LoadFails
  <2>2. Cardinality(loading') = Cardinality(loading) - 1
    BY <1>4, <2>1
  <2> QED
    BY <2>1, <2>2, Sizes DEF CountInv, Owed, Unmade, Typed
<1>7. CASE UNCHANGED vars
  BY <1>7 DEF vars, CountInv, Owed, Unmade
<1> QED
  BY <1>1, <1>2, <1>3, <1>5, <1>6, <1>7 DEF Next

\* The globals of the page keep their types; in particular there are never more
\* frames requested than Main was called.
THEOREM TypeCorrect == Spec => []TypeOK
<1>1. Init => CountInv
  <2> SUFFICES ASSUME Init PROVE CountInv
    OBVIOUS
  <2>1. frames = 0 /\ loading = {} /\ Unmade = Calls
    BY DEF Init, Unmade
  <2>2. Cardinality(Calls) \in Nat /\ Cardinality({}) = 0
    BY LoaderAssumption, FS_CardinalityType, FS_EmptySet
  <2> QED
    BY <2>1, <2>2 DEF CountInv, Owed
<1>2. Typed /\ CountInv => TypeOK
  <2> SUFFICES ASSUME Typed, CountInv PROVE TypeOK
    OBVIOUS
  <2>1. frames \in 0..Cardinality(Calls)
    BY Sizes DEF Typed, CountInv, Owed
  <2> QED
    BY <2>1 DEF Typed, TypeOK
<1> QED
  BY <1>1, <1>2, AlwaysTyped, CountStep, PTL DEF Spec

-----------------------------------------------------------------------------
LEMMA NeverDeadStep == Typed /\ NeverDead /\ [Next]_vars => NeverDead'
<1> SUFFICES ASSUME Typed, NeverDead, [Next]_vars PROVE NeverDead'
  OBVIOUS
<1>1. ASSUME NEW v \in Versions, Select(v) PROVE NeverDead'
  BY <1>1, MainEffect DEF Select, NeverDead
<1>2. ASSUME NEW call \in Calls, version[call] # None, NEW rest \in Nat,
             NEW pending \in SUBSET loading, LoopRuns(call, rest, pending)
      PROVE  NeverDead'
  <2>1. CASE /\ frames' = rest + 1 /\ doStopLoop' = FALSE
    BY <2>1 DEF NeverDead
  <2>2. CASE version[call] \in Versions /\ Main(version[call], pending)
    BY <2>2, MainEffect DEF NeverDead
  <2> QED
    BY <1>2, <2>1, <2>2, LoopRunsEffect
<1>3. CASE Frame
  <2>1. game \in Calls /\ version[game] # None /\ frames - 1 \in Nat
    BY <1>3 DEF Frame, Typed
  <2> QED
    BY <1>2, <1>3, <2>1 DEF Frame
<1>4. CASE FrameStops
  BY <1>4 DEF FrameStops, NeverDead
<1>5. ASSUME NEW call \in Calls, Loaded(call) PROVE NeverDead'
  <2>1. version[call] # None /\ frames \in Nat
    BY <1>5 DEF Loaded, Typed
  <2> QED
    BY <1>2, <1>5, <2>1 DEF Loaded
<1>6. ASSUME NEW call \in Calls, LoadFails(call) PROVE NeverDead'
  BY <1>6 DEF LoadFails, NeverDead
<1>7. CASE UNCHANGED vars
  BY <1>7 DEF vars, NeverDead
<1> QED
  BY <1>1, <1>3, <1>4, <1>5, <1>6, <1>7 DEF Next

\* While no load fails the page always loads something or runs it (dos.js:
\* Main, Loop and the exit import).
THEOREM AlwaysAlive == Spec => []NeverDead
<1>1. Init => NeverDead
  BY DEF Init, NeverDead
<1> QED
  BY <1>1, AlwaysTyped, NeverDeadStep, PTL DEF Spec

-----------------------------------------------------------------------------
\* With a patient user one call at most is pending, for the version that was
\* asked for; while it is, the loop is stopped, and a loop that is not stopped
\* runs that version.
PatientInv ==
  setting.patient =>
    /\ loading # {} => doStopLoop
    /\ \A c \in loading : version[c] = selected
    /\ \A c, d \in loading : c = d
    /\ ~doStopLoop => version[game] = selected
    /\ frames <= 1 + overtaken

LEMMA RunStep ==
  ASSUME Typed, PatientInv, NEW call \in Calls, version[call] # None,
         version[call] = selected,
         NEW rest \in Nat, NEW n \in Nat, overtaken' = n, rest <= n, NEW pending, pending = {},
         LoopRuns(call, rest, pending), game' = call, UNCHANGED <<setting, selected>>
  PROVE  PatientInv'
<1>0. pending \in SUBSET loading
  OBVIOUS
<1>1. CASE /\ frames' = rest + 1 /\ doStopLoop' = FALSE /\ loading' = pending
           /\ UNCHANGED version
  <2>1. rest + 1 <= 1 + n
    OBVIOUS
  <2>2. doStopLoop' = FALSE /\ loading' = {} /\ version'[game'] = selected'
    BY <1>1
  <2> QED
    BY <1>1, <2>1, <2>2 DEF PatientInv
<1>2. CASE /\ frames' = rest
           /\ version[call] \in Versions
           /\ Main(version[call], pending)
  <2>1. doStopLoop' = TRUE /\ loading' = {NextCall} /\ version'[NextCall] = selected
    BY <1>0, <1>2, MainEffect
  <2>2. frames' = rest /\ overtaken' = n /\ rest <= 1 + n
    BY <1>2
  <2>3. selected' = selected
    OBVIOUS
  <2> HIDE DEF NextCall
  <2> QED
    BY ONLY <2>1, <2>2, <2>3 DEF PatientInv
<1> QED
  BY <1>0, <1>1, <1>2, LoopRunsEffect

LEMMA PatientStep == Typed /\ PatientInv /\ [Next]_vars => PatientInv'
<1> SUFFICES ASSUME Typed, PatientInv, [Next]_vars PROVE PatientInv'
  OBVIOUS
<1>0. setting' = setting
  BY DEF Next, Select, Frame, FrameStops, Loaded, LoadFails, vars
<1> SUFFICES ASSUME setting.patient PROVE PatientInv'
  BY <1>0 DEF PatientInv
<1>1. ASSUME NEW v \in Versions, Select(v) PROVE PatientInv'
  <2>1. loading = {} /\ Main(v, loading) /\ selected' = v /\ UNCHANGED <<setting, frames, overtaken>>
    BY <1>1 DEF Select
  <2>2. /\ doStopLoop' = TRUE /\ loading' = loading \cup {NextCall}
        /\ version'[NextCall] = v
    <3> loading \in SUBSET loading
      OBVIOUS
    <3> QED
      BY <2>1, MainEffect
  <2> QED
    BY <2>1, <2>2 DEF PatientInv
<1>2. CASE Frame
  <2>1. game \in Calls /\ version[game] # None /\ frames - 1 \in Nat
    BY <1>2 DEF Frame, Typed
  <2>2. loading = {} /\ version[game] = selected
    BY <1>2 DEF Frame, PatientInv
  <2>3. frames - 1 <= overtaken' /\ overtaken' \in Nat
    BY <1>2, <2>1 DEF PatientInv, Typed, Frame
  <2> QED
    BY <1>2, <2>1, <2>2, <2>3, RunStep DEF Frame
<1>3. CASE FrameStops
  BY <1>3 DEF FrameStops, PatientInv, Typed
<1>4. ASSUME NEW call \in Calls, Loaded(call) PROVE PatientInv'
  <2>1. call \in loading /\ doStopLoop
    BY <1>4 DEF Loaded, PatientInv
  <2>2. version[call] # None /\ frames \in Nat
    BY <2>1 DEF Typed
  <2>3. frames <= overtaken' /\ overtaken' \in Nat
    BY <1>4, <2>1 DEF Loaded, Overtakes, PatientInv, Typed
  <2>4. loading \ {call} = {} /\ version[call] = selected
    BY <2>1 DEF PatientInv
  <2>5. LoopRuns(call, frames, loading \ {call}) /\ game' = call /\ UNCHANGED <<setting, selected>>
    BY <1>4 DEF Loaded
  <2> QED
    BY <2>2, <2>3, <2>4, <2>5, RunStep
<1>5. ASSUME NEW call \in Calls, LoadFails(call) PROVE PatientInv'
  BY <1>5 DEF LoadFails, PatientInv
<1>6. CASE UNCHANGED vars
  BY <1>6 DEF vars, PatientInv
<1> QED
  BY <1>1, <1>2, <1>3, <1>4, <1>5, <1>6 DEF Next

LEMMA PatientAlways == Spec => []PatientInv
<1>1. Init => PatientInv
  BY DEF Init, PatientInv
<1> QED
  BY <1>1, AlwaysTyped, PatientStep, PTL DEF Spec

\* With a patient user only a load that ends before the frame of the stopped loop
\* adds a loop.
THEOREM LoopsAlwaysOvertaken == Spec => []LoopsAreOvertaken
<1>1. PatientInv => LoopsAreOvertaken
  BY DEF PatientInv, LoopsAreOvertaken
<1> QED
  BY <1>1, PatientAlways, PTL

\* A patient user gets the version asked for last.
THEOREM PatientUserAlwaysServed == Spec => []PatientUserIsServed
<1>1. PatientInv => PatientUserIsServed
  BY DEF PatientInv, PatientUserIsServed, SelectedRuns
<1> QED
  BY <1>1, PatientAlways, PTL

=============================================================================
