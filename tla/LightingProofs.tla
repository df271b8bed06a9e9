--------------------------- MODULE LightingProofs ---------------------------
(***************************************************************************)
(* The dimmable light passes full brightness by one step at most and comes *)
(* to rest where it was told, for any full brightness, any values sent by  *)
(* the cloud and any number of messages.                                   *)
(***************************************************************************)
EXTENDS Lighting, TLAPS

\* The handler has stored a new target, and has not yet begun the ramp to it.
Retargeted == pc \in {"timer_on", "stop", "create", "start", "apply", "halted"}

Near == duty \in target - 1 .. target + 1

\* A ramp that has met its target goes on, past full brightness by one step.
OneAbove ==
    /\ level \in 0 .. Full + 1
    /\ duty \in 0 .. Full + 1
    /\ next \in 0 .. Full + 1

\* Outside of a ramp, a light that is on is near its target, unless a new
\* target has just been stored; what the handler has checked still holds.
Inv ==
    /\ TypeOK
    /\ OneAbove
    /\ pc = "target" => msg.brightness \in 0 .. Full
    /\ pc \in {"timer_off", "delete", "switched"} => msg.switch \in BOOLEAN
    /\ pc \in {"timer_off", "delete"} => ~lit
    /\ pc = "start" => timer = "stopped"
    /\ pc = "apply" => timer = "running"
    /\ timer = None /\ lit /\ ~Retargeted => Near

\* A step of the ramp stays in range: the level passes the full brightness by
\* one at most, and the step that meets the target comes from beside it.
LEMMA SteppedInRange ==
  ASSUME NEW from \in 0 .. Full + 1, NEW to \in 1 .. Full
  PROVE  /\ Stepped(from, to) \in 0 .. Full + 1
         /\ Stepped(from, to) = to => from \in to - 1 .. to + 1
<1>1. Full \in 1 .. 254
  BY LightingAssumption DEF Byte
<1>2. CASE from > to
  <2>1. (from - 1) % 256 = from - 1
    BY <1>1, <1>2
  <2> QED BY <1>1, <1>2, <2>1 DEF Stepped, Byte
<1>3. CASE ~(from > to)
  <2>1. (from + 1) % 256 = from + 1
    BY <1>1, <1>3
  <2> QED BY <1>1, <1>3, <2>1 DEF Stepped, Byte
<1> QED BY <1>2, <1>3

LEMMA InitInv == Init => Inv
<1> SUFFICES ASSUME Init PROVE Inv
  OBVIOUS
<1>1. Full \in 1 .. 254
  BY LightingAssumption DEF Byte
<1>2. msg \in Messages
  BY DEF Init, Messages
<1>3. OneAbove
  BY <1>1 DEF Init, OneAbove
<1>4. target \in 1 .. Full /\ messages \in 0 .. MaxMessages
  BY <1>1, LightingAssumption DEF Init
<1>5. TypeOK
  <2>1. /\ level \in 0 .. Byte - 1
        /\ duty \in 0 .. Byte - 1
        /\ next \in 0 .. Byte - 1
    BY DEF Init, Byte
  <2>2. /\ on \in BOOLEAN
        /\ lit \in BOOLEAN
        /\ timer \in {None, "running", "stopped"}
        /\ pc \in Labels
    BY DEF Init, Labels
  <2> QED BY <1>2, <1>4, <2>1, <2>2 DEF TypeOK
<1>6. pc = "idle" /\ lit = FALSE
  BY DEF Init
<1> QED BY <1>3, <1>5, <1>6 DEF Inv

\* What a message holds.
LEMMA MessageType ==
  ASSUME NEW m \in Messages
  PROVE  /\ m.switch \in BOOLEAN \cup {None}
         /\ m.brightness \in Requests \cup {None}
  BY DEF Messages

LEMMA TimeoutInv == Inv /\ Timeout => Inv'
<1> SUFFICES ASSUME Inv, Timeout PROVE Inv'
  OBVIOUS
<1> USE DEF Inv, TypeOK, OneAbove, Timeout
<1>0. Full \in 1 .. 254 /\ Byte = 256
  BY LightingAssumption DEF Byte
<1>1. /\ level' \in 0 .. Full + 1
      /\ level' = target => level \in target - 1 .. target + 1
  BY SteppedInRange
<1>2. timer' \in {None, "running"}
  OBVIOUS
<1>3. TypeOK' /\ OneAbove'
  BY <1>0, <1>1, <1>2
<1>4. pc = "apply" => timer' = "running"
  BY <1>1
<1>5. pc # "start"
  BY LightingAssumption
<1>6. timer' = None => Near'
  BY <1>1, LightingAssumption DEF Near
<1> QED BY <1>3, <1>4, <1>5, <1>6

LEMMA HandleInv == Inv /\ Handle => Inv'
<1> SUFFICES ASSUME Inv, Handle PROVE Inv'
  OBVIOUS
<1> USE DEF Inv, TypeOK, OneAbove, At, Goto, Labels
<1>0. /\ Full \in 1 .. 254 /\ Byte = 256
      /\ None \notin BOOLEAN \cup Int \cup {"running", "stopped"}
      /\ Requests \subseteq 0 .. 255
  BY LightingAssumption DEF Byte
<1>1. /\ msg.switch \in BOOLEAN \cup {None}
      /\ msg.brightness \in Requests \cup {None}
  BY MessageType
<1>2. CASE Switch
  <2>1. msg.switch # None => msg.switch \in BOOLEAN
    BY <1>1
  <2>2. TypeOK' /\ OneAbove'
    BY <1>0, <1>2, <2>1 DEF Switch
  <2>3. pc' \in {"timer_off", "delete", "switched"} => msg'.switch \in BOOLEAN
    BY <1>2, <2>1 DEF Switch
  <2>4. pc' \in {"timer_off", "delete"} => ~lit'
    BY <1>2, <2>1 DEF Switch
  <2>5. timer' = None /\ lit' => Near'
    <3>1. CASE msg.switch = None
      <4>1. pc = "switch" /\ lit' = lit /\ duty' = duty /\ target' = target /\ timer' = timer
        BY <1>2, <3>1 DEF Switch
      <4> QED BY <4>1 DEF Near, Retargeted
    <3>2. CASE msg.switch = TRUE
      <4>1. duty' = target /\ target' = target
        BY <1>0, <1>2, <3>2 DEF Switch
      <4> QED BY <1>0, <4>1 DEF Near
    <3>3. CASE msg.switch = FALSE
      <4>1. lit' = FALSE
        BY <1>0, <1>2, <3>3 DEF Switch
      <4> QED BY <4>1
    <3> QED BY <1>1, <3>1, <3>2, <3>3
  <2>6. pc' \in {"brightness", "switched", "timer_off"}
    BY <1>2 DEF Switch
  <2> QED BY <2>2, <2>3, <2>4, <2>5, <2>6
<1>3. CASE TimerOff
  BY <1>0, <1>3 DEF TimerOff, Near, Retargeted
<1>4. CASE Delete
  BY <1>0, <1>4 DEF Delete, Near, Retargeted
<1>5. CASE Switched
  BY <1>0, <1>5 DEF Switched, Near, Retargeted
<1>6. CASE Brightness
  <2> DEFINE b == msg.brightness
  <2>0. b \in Requests \cup {None}
    BY <1>1
  <2>1. b # None /\ ~(b > Full) => b \in 0 .. Full
    <3> HIDE DEF b
    <3>1. b # None => b \in 0 .. 255
      BY <1>0, <2>0
    <3> QED BY <1>0, <3>1
  <2> QED BY <1>0, <1>6, <2>1 DEF Brightness, Near, Retargeted
<1>7. CASE Target
  BY <1>0, <1>7 DEF Target, Near, Retargeted
<1>8. CASE TimerOn
  BY <1>0, <1>8 DEF TimerOn, Near, Retargeted
<1>9. CASE Stop
  BY <1>0, <1>9 DEF Stop, Near, Retargeted
<1>10. CASE Create
  BY <1>0, <1>10 DEF Create, Near, Retargeted
<1>11. CASE Start
  <2>1. Stepped(level, target) \in 0 .. Full + 1
    BY SteppedInRange
  <2> QED BY <1>0, <1>11, <2>1 DEF Start, Near, Retargeted
<1>12. CASE Apply
  BY <1>0, <1>12 DEF Apply, Near, Retargeted
<1> QED BY <1>2, <1>3, <1>4, <1>5, <1>6, <1>7, <1>8, <1>9, <1>10, <1>11, <1>12 DEF Handle

LEMMA StepInv == Inv /\ [Next]_vars => Inv'
<1> SUFFICES ASSUME Inv, [Next]_vars PROVE Inv'
  OBVIOUS
<1>1. CASE \E m \in Messages : Receive(m)
  BY <1>1, LightingAssumption
     DEF Receive, Inv, TypeOK, OneAbove, At, Goto, Labels, Near, Retargeted
<1>2. CASE Handle
  BY <1>2, HandleInv
<1>3. CASE Timeout
  BY <1>3, TimeoutInv
<1>4. CASE UNCHANGED vars
  BY <1>4 DEF vars, Inv, TypeOK, OneAbove, Near, Retargeted
<1> QED BY <1>1, <1>2, <1>3, <1>4 DEF Next

LEMMA Invariant == Spec => []Inv
<1> QED BY InitInv, StepInv, PTL DEF Spec

\* The target is never above full brightness, and the uint8_t that hold level
\* and duty cycle never wrap.
THEOREM TypeCorrect == Spec => []TypeOK
<1>1. Inv => TypeOK
  BY DEF Inv
<1> QED BY <1>1, Invariant, PTL

\* Level and duty cycle pass full brightness by one at most (DutyAsserted fails
\* by no more than that), whatever the cloud sends and wherever the timer cuts
\* into a handler.
THEOREM DutyOneAbove == Spec => []OneAbove
<1>1. Inv => OneAbove
  BY DEF Inv
<1> QED BY <1>1, Invariant, PTL

\* A light that has come to rest is as bright as it was last told, or one
\* step beside it.
THEOREM ComesToRest == Spec => []Settled
<1>1. Inv => Settled
  BY DEF Inv, Settled, Near, Retargeted
<1> QED BY <1>1, Invariant, PTL
=============================================================================
