------------------------- MODULE TargetStateProofs -------------------------
(* Proofs about TargetState: types, and that no claim about the LEDs is     *)
(* older than the last reading of the plug that said off.                   *)
EXTENDS TargetState, TLAPS

Waiting == {Idle} \cup [at : {"read"}, values : Leds]
             \cup [at : {"compared"}, values : Leds, prev : Leds \cup {None}, now : BOOLEAN]
AtPlug == {Idle} \cup [at : {"acting"}, todo : Sets] \cup [at : {"read"}, on : Readings]
AtProbe == {Idle} \cup [at : {"sent"}, before : Leds]

-----------------------------------------------------------------------------
(* Types. *)

\* What a thread at the plug does next is one of the sets it may begin with.
LEMMA TodoTypes ==
    \A todo \in Sets : todo # <<>> => Head(todo) \in BOOLEAN /\ Tail(todo) \in Sets
<1>1. TAKE todo \in Sets
<1>2. HAVE todo # <<>>
<1>3. CASE todo = <<TRUE>>
  BY <1>3 DEF Sets
<1>4. CASE todo = <<FALSE>>
  BY <1>4 DEF Sets
<1>5. CASE todo = <<FALSE, TRUE>>
  BY <1>5 DEF Sets
<1>6. QED
  BY <1>1, <1>2, <1>3, <1>4, <1>5 DEF Sets

\* The machine keeps its type when it is switched, whatever else happens.
LEMMA MainsTypes ==
    ASSUME TypeOK, NEW on \in BOOLEAN, MainsGo(on)
    PROVE  mains' \in BOOLEAN /\ led' \in Leds /\ profile' \in {"current", "old", None}
<1>1. led' \in Leds
  BY DEF MainsGo, TypeOK, Leds, Dark
<1>2. profile' \in {"current", "old", None}
  BY DEF MainsGo, TypeOK, Aged
<1>3. QED
  BY <1>1, <1>2 DEF MainsGo

\* Observing keeps the types of what it changes.
LEMMA ObserveTypes ==
    ASSUME TypeOK, NEW on \in Readings, Observe(on)
    PROVE  /\ powered' \in Readings /\ proven' \in BOOLEAN /\ verified' \in BOOLEAN
           /\ sample' \in [Samplers -> Waiting] /\ sinceOff' \in BOOLEAN
<1>1. sample \in [Samplers -> Waiting]
  BY DEF TypeOK, Waiting
<1>2. sinceOff' \in BOOLEAN /\ powered' \in Readings
  BY DEF Observe, TypeOK
<1>3. CASE Transition(on)
  <2>1. ASSUME NEW s \in Samplers, sample[s].at = "compared"
        PROVE  [sample[s] EXCEPT !.now = FALSE] \in Waiting
    <3>1. sample[s] \in [at : {"compared"}, values : Leds, prev : Leds \cup {None},
                         now : BOOLEAN]
      BY <1>1, <2>1 DEF Waiting, Idle
    <3>2. QED
      BY <3>1 DEF Waiting
  <2>2. sample' \in [Samplers -> Waiting]
    BY <1>1, <1>3, <2>1 DEF Observe
  <2>3. QED
    BY <1>2, <1>3, <2>2 DEF Observe
<1>4. CASE ~Transition(on)
  BY <1>1, <1>2, <1>4 DEF Observe, TypeOK
<1>5. QED
  BY <1>3, <1>4

\* An answer of the plug is put down as a reading.
LEMMA AnswersTypes ==
    ASSUME TypeOK, NEW p \in Plugs, NEW on \in Readings, Answers(p, on)
    PROVE  plug' \in [Plugs -> AtPlug]
BY DEF Answers, TypeOK, AtPlug

\* A lamp that follows Caps Lock is one of the lamps.
LEMMA CapsTypes ==
    ASSUME led \in Leds, CapsPressed
    PROVE  led' \in Leds
BY DEF CapsPressed, Toggled, Leds

LEMMA TypeStep == TypeOK /\ [Next]_vars => TypeOK'
<1> SUFFICES ASSUME TypeOK, [Next]_vars
             PROVE  TypeOK'
  OBVIOUS
<1> USE DEF target, power, leds, verify
<1>0. /\ sample \in [Samplers -> Waiting] /\ plug \in [Plugs -> AtPlug]
      /\ probe \in AtProbe /\ Idle \in Waiting /\ Idle \in AtPlug /\ Idle \in AtProbe
  BY DEF TypeOK, Waiting, AtPlug, AtProbe
<1>1. CASE Switched
  <2>1. PICK on \in BOOLEAN : MainsGo(on)
    <3>1. MainsGo(~mains)
      BY <1>1 DEF Switched
    <3>2. (~mains) \in BOOLEAN
      OBVIOUS
    <3>3. QED
      BY <3>1, <3>2
  <2>2. mains' \in BOOLEAN /\ led' \in Leds /\ profile' \in {"current", "old", None}
    BY <2>1, MainsTypes
  <2>3. QED
    BY <1>1, <2>2 DEF Switched, TypeOK
<1>2. CASE Resets
  BY <1>2 DEF Resets, TypeOK, Leds, Dark, Aged
<1>3. CASE LedMoves
  BY <1>3 DEF LedMoves, TypeOK
<1>4. CASE ProfileSet \/ ProfileClear
  BY <1>4 DEF ProfileSet, ProfileClear, Invalidate, TypeOK
<1>5. ASSUME NEW c \in Callers, PowerBegins(c)
      PROVE  TypeOK'
  <2>1. plug' \in [Plugs -> AtPlug]
    BY <1>0, <1>5 DEF PowerBegins, AtPlug, Plugs
  <2>2. QED
    BY <1>5, <2>1 DEF PowerBegins, Invalidate, TypeOK, AtPlug
<1>6. ASSUME NEW c \in Callers, Relay(c) \/ RelayFails(c)
      PROVE  TypeOK'
  <2>1. c \in Plugs /\ plug[c] \in [at : {"acting"}, todo : Sets] /\ plug[c].todo # <<>>
    BY <1>0, <1>6 DEF Relay, RelayFails, Acting, Plugs, AtPlug, Idle
  <2>2. Head(plug[c].todo) \in BOOLEAN /\ Tail(plug[c].todo) \in Sets
    BY <2>1, TodoTypes
  <2>3. [plug[c] EXCEPT !.todo = Tail(@)] \in AtPlug
    BY <2>1, <2>2 DEF AtPlug
  <2>4. plug' \in [Plugs -> AtPlug]
    BY <1>0, <1>6, <2>1, <2>3 DEF Relay, RelayFails
  <2>5. mains' \in BOOLEAN /\ led' \in Leds /\ profile' \in {"current", "old", None}
    BY <1>6, <2>2, MainsTypes DEF Relay, RelayFails, TypeOK
  <2>6. QED
    BY <1>6, <2>4, <2>5 DEF Relay, RelayFails, TypeOK, AtPlug
<1>7. ASSUME NEW p \in Plugs, PlugAnswers(p) \/ PlugIsUnsure(p)
      PROVE  TypeOK'
  <2>1. mains \in Readings /\ None \in Readings
    BY DEF TypeOK, Readings
  <2>2. PICK on \in Readings : Answers(p, on)
    BY <1>7, <2>1 DEF PlugAnswers, PlugIsUnsure
  <2>3. plug' \in [Plugs -> AtPlug]
    BY <2>2, AnswersTypes
  <2>4. QED
    BY <2>2, <2>3 DEF Answers, TypeOK, AtPlug
<1>8. ASSUME NEW p \in Plugs, PlugSilent(p)
      PROVE  TypeOK'
  <2>1. plug' \in [Plugs -> AtPlug]
    BY <1>0, <1>8 DEF PlugSilent
  <2>2. QED
    BY <1>8, <2>1 DEF PlugSilent, TypeOK, AtPlug
<1>9. ASSUME NEW p \in Plugs, Remember(p)
      PROVE  TypeOK'
  <2>1. plug[p].on \in Readings /\ Observe(plug[p].on)
    BY <1>0, <1>9 DEF Remember, AtPlug, Idle
  <2>2. /\ powered' \in Readings /\ proven' \in BOOLEAN /\ verified' \in BOOLEAN
        /\ sample' \in [Samplers -> Waiting] /\ sinceOff' \in BOOLEAN
    BY <2>1, ObserveTypes
  <2>3. plug' \in [Plugs -> AtPlug]
    BY <1>0, <1>9 DEF Remember
  <2>4. QED
    BY <1>9, <2>2, <2>3 DEF Remember, TypeOK, AtPlug, Waiting
<1>10. ASSUME NEW s \in Samplers, ReadLeds(s) \/ Compare(s)
       PROVE  TypeOK'
  <2>1. CASE ReadLeds(s)
    <3>1. sample' \in [Samplers -> Waiting]
      BY <1>0, <2>1 DEF ReadLeds, Waiting, TypeOK
    <3>2. QED
      BY <2>1, <3>1 DEF ReadLeds, TypeOK, Waiting
  <2>2. CASE Compare(s)
    <3>1. sample[s].values \in Leds
      BY <1>0, <2>2 DEF Compare, Waiting, Idle
    <3>2. sample' \in [Samplers -> Waiting]
      BY <1>0, <2>2, <3>1 DEF Compare, Waiting, TypeOK
    <3>3. QED
      BY <2>2, <3>2 DEF Compare, TypeOK, Waiting
  <2>3. QED
    BY <1>10, <2>1, <2>2
<1>11. ASSUME NEW s \in Samplers, Note(s)
       PROVE  TypeOK'
  <2>1. sample[s].values \in Leds /\ sample[s].now \in BOOLEAN
    BY <1>0, <1>11 DEF Note, Waiting, Idle
  <2>2. sample' \in [Samplers -> Waiting]
    BY <1>0, <1>11 DEF Note
  <2>3. /\ proven' \in BOOLEAN /\ sinceOff' \in BOOLEAN
        /\ profile' \in {"current", "old", None} /\ seen' \in Leds \cup {None}
    BY <1>11, <2>1 DEF Note, TypeOK
  <2>4. QED
    BY <1>11, <2>2, <2>3 DEF Note, TypeOK, Waiting
<1>12. CASE ProbeBegins
  <2>1. led' \in Leds /\ probe' \in AtProbe
    BY <1>12, CapsTypes DEF ProbeBegins, TypeOK, AtProbe
  <2>2. QED
    BY <1>12, <2>1 DEF ProbeBegins, TypeOK, AtProbe
<1>13. CASE ProbeEnds
  <2>1. led' \in Leds
    BY <1>13, CapsTypes DEF ProbeEnds, TypeOK
  <2>2. QED
    BY <1>13, <2>1 DEF ProbeEnds, TypeOK
<1>14. CASE UNCHANGED vars
  BY <1>14 DEF vars, TypeOK
<1>15. QED
  BY <1>1, <1>2, <1>3, <1>4, <1>5, <1>6, <1>7, <1>8, <1>9, <1>10, <1>11, <1>12, <1>13,
     <1>14 DEF Next

\* Every variable of what the daemon believes keeps its type, for any number of
\* samplers and power threads and any lamps.
THEOREM TypeCorrect == Spec => []TypeOK
<1>1. Init => TypeOK
  BY DEF Init, TypeOK, Readings, Leds, Dark
<1>2. QED
  BY <1>1, TypeStep, PTL DEF Spec

-----------------------------------------------------------------------------
(* Claims. *)

\* A proof that is kept over a reading of the plug was noticed since off: one
\* that follows off is a transition, which voids it.
LEMMA ObserveKeepsClaims ==
    ASSUME ClaimsAreSinceOff, NEW on, Observe(on)
    PROVE  ClaimsAreSinceOff'
<1>1. CASE Transition(on)
  BY <1>1 DEF Observe, ClaimsAreSinceOff, Claimed
<1>2. CASE ~Transition(on)
  <2>1. proven' = proven /\ powered' = on /\ (sinceOff' <=> sinceOff /\ on # FALSE)
    BY <1>2 DEF Observe
  <2>2. on # powered => powered = None
    BY <1>2 DEF Transition
  <2>3. powered' # FALSE => powered # FALSE
    BY <2>1, <2>2, TargetAssumption
  <2>4. QED
    BY <2>1, <2>3 DEF ClaimsAreSinceOff, Claimed
<1>3. QED
  BY <1>1, <1>2

LEMMA ClaimsStep == ClaimsAreSinceOff /\ [Next]_vars => ClaimsAreSinceOff'
<1> SUFFICES ASSUME ClaimsAreSinceOff, [Next]_vars
             PROVE  ClaimsAreSinceOff'
  OBVIOUS
<1> DEFINE Untouched == UNCHANGED <<powered, proven, sinceOff>>
<1>1. CASE Untouched
  BY <1>1 DEF ClaimsAreSinceOff, Claimed
<1>2. ASSUME NEW p \in Plugs, Remember(p)
      PROVE  ClaimsAreSinceOff'
  BY <1>2, ObserveKeepsClaims DEF Remember
<1>3. ASSUME NEW s \in Samplers, Note(s)
      PROVE  ClaimsAreSinceOff'
  BY <1>3 DEF Note, ClaimsAreSinceOff, Claimed, power
<1>4. CASE Switched \/ Resets \/ LedMoves \/ ProfileSet \/ ProfileClear
  BY <1>1, <1>4 DEF Switched, Resets, LedMoves, ProfileSet, ProfileClear, power, leds
<1>5. ASSUME NEW c \in Callers, PowerBegins(c) \/ Relay(c) \/ RelayFails(c)
      PROVE  ClaimsAreSinceOff'
  BY <1>1, <1>5 DEF PowerBegins, Relay, RelayFails, leds
<1>6. ASSUME NEW p \in Plugs, PlugAnswers(p) \/ PlugIsUnsure(p) \/ PlugSilent(p)
      PROVE  ClaimsAreSinceOff'
  BY <1>1, <1>6 DEF PlugAnswers, PlugIsUnsure, PlugSilent, Answers, leds
<1>7. ASSUME NEW s \in Samplers, ReadLeds(s) \/ Compare(s)
      PROVE  ClaimsAreSinceOff'
  BY <1>1, <1>7 DEF ReadLeds, Compare, power
<1>8. CASE ProbeBegins \/ ProbeEnds
  BY <1>1, <1>8 DEF ProbeBegins, ProbeEnds, power, leds
<1>9. CASE UNCHANGED vars
  BY <1>1, <1>9 DEF vars, power, leds
<1>10. QED
  BY <1>2, <1>3, <1>4, <1>5, <1>6, <1>7, <1>8, <1>9 DEF Next

\* Whatever the order in which readings of the plug, by any number of threads,
\* and samples of the LEDs are taken and remembered, nothing that was noticed
\* before the plug was last found off is claimed to be about now.
THEOREM ClaimsAreFresh == Spec => []ClaimsAreSinceOff
<1>1. Init => ClaimsAreSinceOff
  BY DEF Init, ClaimsAreSinceOff, Claimed
<1>2. QED
  BY <1>1, ClaimsStep, PTL DEF Spec
=============================================================================
