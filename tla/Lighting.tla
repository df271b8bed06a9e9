------------------------------ MODULE Lighting ------------------------------
(***************************************************************************)
(* The dimmable light demo (source/demo_dim/lighting.c). A Brightness sent *)
(* by the cloud becomes the new target at once; an auto-reload FreeRTOS    *)
(* timer then moves the level towards it by one step a period, and ends by *)
(* deleting itself. demo_task handles the messages of the cloud; the timer *)
(* daemon, which has a higher priority, runs lightness_timeout_cb between  *)
(* any two steps of a handler. The two share the level, the target and the *)
(* handle of the timer without a lock.                                     *)
(*                                                                         *)
(* A command to the timer is carried out at once, since the daemon         *)
(* preempts the task that sends it.                                        *)
(***************************************************************************)
EXTENDS Integers

CONSTANTS
    Full,           \* the greatest lightness: 100
    Requests,       \* the values of Brightness sent by the cloud
    None,           \* a property that is not in a message; no timer
    MaxMessages     \* bound of the model: messages in one behaviour

\* Lightness is a uint8_t.
Byte == 256

ASSUME LightingAssumption ==
    /\ Full \in 1 .. Byte - 2
    /\ Requests \subseteq 0 .. Byte - 1
    /\ None \notin BOOLEAN \cup Int \cup {"running", "stopped"}
    /\ MaxMessages \in Nat

VARIABLES
    level,      \* current_lightness_level
    target,     \* g_lighting_ctx.light_lightness
    on,         \* g_lighting_ctx.light_onoff_st
    timer,      \* lighting_change_ln_timer: None, "running" or "stopped"
    lit,        \* the PWM runs
    duty,       \* its duty cycle, in percent
    pc,         \* what demo_task does next
    msg,        \* the message it handles
    next,       \* set_lightness of light_lightness_set_hdl
    messages

vars == <<level, target, on, timer, lit, duty, pc, msg, next, messages>>

Messages == [switch : BOOLEAN \cup {None}, brightness : Requests \cup {None}]

Labels == {"idle", "switch", "timer_off", "delete", "switched",
           "brightness", "target", "timer_on", "stop", "create", "start",
           "apply", "halted"}

TypeOK ==
    /\ level \in 0 .. Byte - 1
    /\ target \in 1 .. Full
    /\ on \in BOOLEAN
    /\ timer \in {None, "running", "stopped"}
    /\ lit \in BOOLEAN
    /\ duty \in 0 .. Byte - 1
    /\ pc \in Labels
    /\ msg \in Messages
    /\ next \in 0 .. Byte - 1
    /\ messages \in 0 .. MaxMessages

\* lighting_init
Init ==
    /\ level = 0
    /\ target = Full
    /\ on = FALSE
    /\ timer = None
    /\ lit = FALSE
    /\ duty = 0
    /\ pc = "idle"
    /\ msg = [switch |-> None, brightness |-> None]
    /\ next = 0
    /\ messages = 0

-----------------------------------------------------------------------------

\* current_lightness_level after one step towards the goal. A level that has
\* reached the goal goes on upwards.
Stepped(from, to) == (IF from > to THEN from - 1 ELSE from + 1) % Byte

\* Mutant: the timer survives the end of the ramp.
TimeoutStays ==
    /\ timer = "running"
    /\ pc = "apply" => Stepped(level, target) # target
    /\ duty' = level
    /\ level' = Stepped(level, target)
    /\ UNCHANGED <<target, on, timer, lit, pc, msg, next, messages>>

\* lightness_timeout_cb: the duty cycle takes the level from before the step,
\* and the timer is deleted when the step reaches the target. A ramp takes
\* about 200 ms whatever its length, so that a handler that has just started
\* one returns before its last step.
Timeout ==
    /\ timer = "running"
    /\ pc = "apply" => Stepped(level, target) # target
    /\ duty' = level
    /\ level' = Stepped(level, target)
    /\ timer' = IF level' = target THEN None ELSE timer
    /\ UNCHANGED <<target, on, lit, pc, msg, next, messages>>

-----------------------------------------------------------------------------
(* lighting_property_set_event_handler                                     *)

At(label) == pc = label
Goto(label) == pc' = label

Receive(m) ==
    /\ At("idle")
    /\ messages < MaxMessages
    /\ messages' = messages + 1
    /\ msg' = m
    /\ Goto("switch")
    /\ UNCHANGED <<level, target, on, timer, lit, duty, next>>

\* Mutant: the PWM starts with the level at which the last ramp was left.
SwitchAtLevel ==
    /\ At("switch")
    /\ IF msg.switch = None THEN UNCHANGED <<lit, duty>> /\ Goto("brightness")
       ELSE /\ lit' = msg.switch
            /\ duty' = IF msg.switch THEN level ELSE duty
            /\ Goto(IF msg.switch THEN "switched" ELSE "timer_off")
    /\ UNCHANGED <<level, target, on, timer, msg, next, messages>>

\* light_onoff_set_hdl: pwm_internal_setup starts with the target; switching
\* off stops the PWM ...
Switch ==
    /\ At("switch")
    /\ IF msg.switch = None THEN UNCHANGED <<lit, duty>> /\ Goto("brightness")
       ELSE /\ lit' = msg.switch
            /\ duty' = IF msg.switch THEN target ELSE duty
            /\ Goto(IF msg.switch THEN "switched" ELSE "timer_off")
    /\ UNCHANGED <<level, target, on, timer, msg, next, messages>>

\* ... and looks whether a ramp is under way ...
TimerOff ==
    /\ At("timer_off")
    /\ Goto(IF timer = None THEN "switched" ELSE "delete")
    /\ UNCHANGED <<level, target, on, timer, lit, duty, msg, next, messages>>

\* ... to delete its timer. If the ramp has ended in between, the handle is
\* gone, and xTimerDelete stops at its configASSERT.
Delete ==
    /\ At("delete")
    /\ timer' = None
    /\ Goto(IF timer = None THEN "halted" ELSE "switched")
    /\ UNCHANGED <<level, target, on, lit, duty, msg, next, messages>>

Switched ==
    /\ At("switched")
    /\ on' = msg.switch
    /\ Goto("brightness")
    /\ UNCHANGED <<level, target, timer, lit, duty, msg, next, messages>>

\* Mutant: the value is not checked.
BrightnessUnchecked ==
    /\ At("brightness")
    /\ IF msg.brightness = None \/ ~on
       THEN UNCHANGED level /\ Goto("idle")
       ELSE level' = target /\ Goto("target")
    /\ UNCHANGED <<target, on, timer, lit, duty, msg, next, messages>>

\* light_lightness_set_hdl: rejected when the light is off or the value too
\* great; otherwise the ramp will begin at the last target.
Brightness ==
    /\ At("brightness")
    /\ IF msg.brightness = None \/ msg.brightness > Full \/ ~on
       THEN UNCHANGED level /\ Goto("idle")
       ELSE level' = target /\ Goto("target")
    /\ UNCHANGED <<target, on, timer, lit, duty, msg, next, messages>>

\* Zero becomes one. Nothing is done about a target that is the last one: the
\* difference is taken from what the handler has just stored as the level,
\* which stays in a register.
Target ==
    /\ At("target")
    /\ target' = IF msg.brightness = 0 THEN 1 ELSE msg.brightness
    /\ Goto(IF target' = target THEN "idle" ELSE "timer_on")
    /\ UNCHANGED <<level, on, timer, lit, duty, msg, next, messages>>

TimerOn ==
    /\ At("timer_on")
    /\ Goto(IF timer = None THEN "create" ELSE "stop")
    /\ UNCHANGED <<level, target, on, timer, lit, duty, msg, next, messages>>

\* xTimerStop of a timer that the callback has deleted in between halts too.
Stop ==
    /\ At("stop")
    /\ IF timer = None THEN UNCHANGED timer /\ Goto("halted")
       ELSE timer' = "stopped" /\ Goto("start")
    /\ UNCHANGED <<level, target, on, lit, duty, msg, next, messages>>

Create ==
    /\ At("create")
    /\ timer' = "stopped"
    /\ Goto("start")
    /\ UNCHANGED <<level, target, on, lit, duty, msg, next, messages>>

\* xTimerChangePeriod, xTimerStart, and the first step of the ramp. The period
\* is two milliseconds at least: the callback does not come in between.
Start ==
    /\ At("start")
    /\ timer' = "running"
    /\ next' = level
    /\ level' = Stepped(level, target)
    /\ Goto("apply")
    /\ UNCHANGED <<target, on, lit, duty, msg, messages>>

\* After a PRINTF, during which the callback may run: PWM_UpdatePwmDutycycle.
Apply ==
    /\ At("apply")
    /\ duty' = next
    /\ Goto("idle")
    /\ UNCHANGED <<level, target, on, timer, lit, msg, next, messages>>

-----------------------------------------------------------------------------

Handle ==
    \/ Switch \/ TimerOff \/ Delete \/ Switched
    \/ Brightness \/ Target \/ TimerOn \/ Stop \/ Create \/ Start \/ Apply

Next == (\E m \in Messages : Receive(m)) \/ Handle \/ Timeout

Spec == Init /\ [][Next]_vars

\* The timer goes on, and a handler comes to its end.
FairSpec == Spec /\ WF_vars(Handle) /\ WF_vars(Timeout)

-----------------------------------------------------------------------------
(* Properties.                                                             *)

\* When no ramp is under way, a light that is on is as bright as it was last
\* told, or one step beside it, however switching, new targets and the steps
\* of an unfinished ramp follow one another. (The duty cycle is one step
\* behind the level, so that a ramp never reaches its target exactly.)
Settled ==
    pc = "idle" /\ timer = None /\ lit => duty \in target - 1 .. target + 1

\* "New PWM pulse width, value should be between 0 to 100"
\* (PWM_UpdatePwmDutycycle, drivers/fsl_pwm.c, which asserts it). It is not:
\* a ramp whose first step, taken by the handler, meets the target goes on past
\* it, and towards full brightness the callback then sets one percent more.
DutyAsserted == duty <= Full

\* A ramp ends: the level meets the target, though each new target puts it
\* elsewhere and it starts away from a target that it has met already.
RampEnds == timer # None ~> timer = None
=============================================================================
