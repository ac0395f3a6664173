------------------------------- MODULE LedClass --------------------------------
(***************************************************************************)
(* One LED: the LED class (src/DRV_LEDS/led-class.c) with its software     *)
(* blink timer, the timer trigger (ledtrig-timer.c) and the GPIO driver    *)
(* (leds_4412.c).                                                          *)
(*                                                                         *)
(* The attribute files are written by several tasks, the blink timer fires *)
(* in an interrupt, and nothing but the trigger has a lock.  What a task   *)
(* still has to do is a list of steps, each of which touches the shared    *)
(* fields once; the steps of different tasks interleave.                   *)
(***************************************************************************)
EXTENDS Integers, Sequences

CONSTANTS
    Writers,    \* the tasks that write the attribute files
    Timer,      \* the softirq of the blink timer
    Power,      \* the task that suspends and resumes the devices
    Full,       \* max_brightness
    Default     \* 500 ms

ASSUME LedTasks == Timer \notin Writers /\ Power \notin Writers /\ Timer # Power
ASSUME LedValues == Full \in Nat \ {0} /\ Default \in Nat \ {0}

VARIABLES
    brightness, blinkBrightness, delayOn, delayOff,     \* led_classdev
    trigger, data,  \* trigger is "none" or "timer"; trigger_data is set
    suspended,      \* LED_SUSPENDED
    armed,          \* blink_timer is pending
    files,          \* delay_on and delay_off exist
    lock,           \* trigger_lock is held
    lit,            \* the GPIO: the LED is lit
    steps,          \* what each task still has to do
    lost            \* history: a store has stopped the timer and left it so

fields == <<brightness, blinkBrightness, delayOn, delayOff, trigger, data, suspended>>
vars == <<fields, armed, files, lock, lit, steps, lost>>

Tasks == Writers \cup {Timer, Power}

Init ==
    /\ brightness = 0 /\ blinkBrightness = 0 /\ delayOn = 0 /\ delayOff = 0
    /\ trigger = "none" /\ data = FALSE /\ suspended = FALSE
    /\ armed = FALSE /\ files = FALSE /\ lock = FALSE /\ lit = FALSE
    /\ steps = [t \in Tasks |-> <<>>]
    /\ lost = FALSE

Idle(t) == steps[t] = <<>>
\* t is about to do a step of this kind, and goes on with others in its place.
Does(t, kind) == ~Idle(t) /\ Head(steps[t]).do = kind
Then(t, new) == steps' = [steps EXCEPT ![t] = new \o Tail(@)]
\* A task inside the store of a delay; it is the last step that tells.
InDelayStore(t) == ~Idle(t) /\ steps[t][Len(steps[t])].do = "assign"

-------------------------------------------------------------------------------
(* Programs: what a call comes to *)

\* led_set_brightness of the kernel's leds.h.
SetBrightness(v) == <<[do |-> "level", v |-> v]>>
\* led_brightness_set: led_stop_software_blink, brightness_set.
BrightnessSet(v) == <<[do |-> "stop"], [do |-> "drive", v |-> v]>>
\* led_blink_set; attr tells which of the delays comes from the caller.
BlinkSet(attr, v) == <<[do |-> "delete"], [do |-> "blink", attr |-> attr, v |-> v]>>
\* led_trigger_set of the kernel, with the lock.
SetTrigger(name) ==
    <<[do |-> "lock"], [do |-> "detach"], [do |-> "attach", name |-> name], [do |-> "unlock"]>>

\* Mutant: the stores of the delays take the lock of the trigger.
DelayStoreLocked(attr, v) ==
    <<[do |-> "lock"]>> \o BlinkSet(attr, v)
    \o <<[do |-> "unlock"], [do |-> "assign", attr |-> attr, v |-> v]>>
\* led_delay_on_store, led_delay_off_store
DelayStore(attr, v) == BlinkSet(attr, v) \o <<[do |-> "assign", attr |-> attr, v |-> v]>>
\* Mutant: the trigger stays when the brightness is zero.
BrightnessStoreKeeping(v) == SetBrightness(v)
\* led_brightness_store
BrightnessStore(v) == (IF v = 0 THEN SetTrigger("none") ELSE <<>>) \o SetBrightness(v)

-------------------------------------------------------------------------------
(* Steps *)

\* brightness is assigned; the driver is told unless the LED is suspended.
Level(t) ==
    /\ Does(t, "level")
    /\ LET v == Head(steps[t]).v
           capped == IF v > Full THEN Full ELSE v
       IN  /\ brightness' = capped
           /\ Then(t, IF suspended THEN <<>> ELSE <<[do |-> "drive", v |-> capped]>>)
    /\ UNCHANGED <<blinkBrightness, delayOn, delayOff, trigger, data, suspended,
                   armed, files, lock, lit, lost>>

\* brightness_set_4412 assigns led_classdev.brightness itself, then the GPIO.
Drive(t) ==
    /\ Does(t, "drive")
    /\ brightness' = Head(steps[t]).v
    /\ Then(t, <<[do |-> "gpio", v |-> Head(steps[t]).v]>>)
    /\ UNCHANGED <<blinkBrightness, delayOn, delayOff, trigger, data, suspended,
                   armed, files, lock, lit, lost>>

Gpio(t) ==
    /\ Does(t, "gpio")
    /\ lit' = (Head(steps[t]).v # 0)
    /\ Then(t, <<>>)
    /\ UNCHANGED <<fields, armed, files, lock, lost>>

\* del_timer_sync waits for the timer function.
Delete(t) ==
    /\ Does(t, "delete") /\ Idle(Timer)
    /\ armed' = FALSE
    /\ Then(t, <<>>)
    /\ UNCHANGED <<fields, files, lock, lit, lost>>

\* led_stop_software_blink
Stop(t) ==
    /\ Does(t, "stop") /\ Idle(Timer)
    /\ armed' = FALSE
    /\ delayOn' = 0 /\ delayOff' = 0
    /\ Then(t, <<>>)
    /\ lost' = FALSE
    /\ UNCHANGED <<brightness, blinkBrightness, trigger, data, suspended, files, lock, lit>>

\* The delays that led_blink_set is called with: its default goes through the
\* caller's pointers, to a variable or to the field of the LED.
Asked(attr, v) ==
    LET on == IF attr = "on" THEN v ELSE delayOn
        off == IF attr = "off" THEN v ELSE delayOff
    IN  IF on = 0 /\ off = 0 THEN [on |-> Default, off |-> Default, default |-> TRUE]
        ELSE [on |-> on, off |-> off, default |-> FALSE]

\* The rest of led_blink_set, and led_set_software_blink up to the test whether
\* anything changes.  The default has already been stored where it is compared.
Blink(t) ==
    LET attr == Head(steps[t]).attr
        asked == Asked(attr, Head(steps[t]).v)
        storedOn == IF asked.default /\ attr # "on" THEN Default ELSE delayOn
        storedOff == IF asked.default /\ attr # "off" THEN Default ELSE delayOff
        same == data /\ asked.on = storedOn /\ asked.off = storedOff
        rest == Tail(steps[t])
        assigns == rest # <<>> /\ Head(rest).do = "assign"
        state == IF attr = "on" THEN asked.on ELSE asked.off
    IN  /\ Does(t, "blink")
        /\ delayOn' = storedOn /\ delayOff' = storedOff
        /\ blinkBrightness' = IF brightness # 0 THEN brightness
                              ELSE IF blinkBrightness = 0 THEN Full ELSE blinkBrightness
        /\ steps' = [steps EXCEPT ![t] =
                (IF same THEN <<>>
                 ELSE <<[do |-> "stop"], [do |-> "delays", on |-> asked.on, off |-> asked.off]>>)
                \o (IF assigns THEN <<[do |-> "assign", attr |-> attr, v |-> state]>> ELSE rest)]
        /\ lost' = (lost \/ same)
        /\ UNCHANGED <<brightness, trigger, data, suspended, armed, files, lock, lit>>

\* Mutant: a LED that is lit is not blinked.
StartsDark(on, off) == on # 0 /\ off # 0 /\ brightness = 0
\* never on, never off: the timer is not needed
Starts(on, off) == on # 0 /\ off # 0

\* The end of led_set_software_blink.
SetDelays(t) ==
    /\ Does(t, "delays")
    /\ LET on == Head(steps[t]).on
           off == Head(steps[t]).off
       IN  /\ delayOn' = on /\ delayOff' = off
           /\ armed' = (armed \/ Starts(on, off))
           /\ lost' = (lost /\ ~Starts(on, off))
           /\ Then(t, IF on # 0 /\ off = 0 THEN SetBrightness(blinkBrightness) ELSE <<>>)
    /\ UNCHANGED <<brightness, blinkBrightness, trigger, data, suspended, files, lock, lit>>

\* blink_delay_on = state, or the other one, at the end of a store.
AssignDelay(t) ==
    /\ Does(t, "assign")
    /\ IF Head(steps[t]).attr = "on"
       THEN delayOn' = Head(steps[t]).v /\ UNCHANGED delayOff
       ELSE delayOff' = Head(steps[t]).v /\ UNCHANGED delayOn
    /\ Then(t, <<>>)
    /\ UNCHANGED <<brightness, blinkBrightness, trigger, data, suspended,
                   armed, files, lock, lit, lost>>

Lock(t) ==
    /\ Does(t, "lock") /\ ~lock
    /\ lock' = TRUE
    /\ Then(t, <<>>)
    /\ UNCHANGED <<fields, armed, files, lit, lost>>

Unlock(t) ==
    /\ Does(t, "unlock")
    /\ lock' = FALSE
    /\ Then(t, <<>>)
    /\ UNCHANGED <<fields, armed, files, lit, lost>>

\* Mutant: blinking is stopped before the files are gone.
DeactivateEarly == BrightnessSet(0) \o <<[do |-> "remove"]>>
\* timer_trig_deactivate
Deactivate == (IF data THEN <<[do |-> "remove"]>> ELSE <<>>) \o BrightnessSet(0)

\* The trigger there is goes.
Detach(t) ==
    /\ Does(t, "detach")
    /\ Then(t, IF trigger = "timer" THEN Deactivate ELSE <<>>)
    /\ UNCHANGED <<fields, armed, files, lock, lit, lost>>

\* device_remove_file waits for the tasks that are inside the files.
Remove(t) ==
    /\ Does(t, "remove")
    /\ \A u \in Writers: ~InDelayStore(u)
    /\ files' = FALSE
    /\ Then(t, <<>>)
    /\ UNCHANGED <<fields, armed, lock, lit, lost>>

\* The new trigger comes; timer_trig_activate, whose files may not be had.
Attach(t) ==
    /\ Does(t, "attach")
    /\ trigger' = Head(steps[t]).name
    /\ IF trigger' = "timer"
       THEN /\ data' = FALSE
            /\ \E ok \in BOOLEAN:
                   /\ files' = ok
                   /\ Then(t, IF ok THEN BlinkSet("both", 0) \o <<[do |-> "data"]>> ELSE <<>>)
       ELSE UNCHANGED <<data, files>> /\ Then(t, <<>>)
    /\ UNCHANGED <<brightness, blinkBrightness, delayOn, delayOff, suspended,
                   armed, lock, lit, lost>>

\* trigger_data = (void *)1
Activated(t) ==
    /\ Does(t, "data")
    /\ data' = TRUE
    /\ Then(t, <<>>)
    /\ UNCHANGED <<brightness, blinkBrightness, delayOn, delayOff, trigger, suspended,
                   armed, files, lock, lit, lost>>

\* mod_timer at the end of led_timer_function
Rearm(t) ==
    /\ Does(t, "rearm")
    /\ armed' = TRUE
    /\ Then(t, <<>>)
    /\ UNCHANGED <<fields, files, lock, lit, lost>>

Resumed(t) ==
    /\ Does(t, "resumed")
    /\ suspended' = FALSE
    /\ Then(t, <<>>)
    /\ UNCHANGED <<brightness, blinkBrightness, delayOn, delayOff, trigger, data,
                   armed, files, lock, lit, lost>>

Step(t) ==
    \/ Level(t) \/ Drive(t) \/ Gpio(t) \/ Delete(t) \/ Stop(t) \/ Blink(t)
    \/ SetDelays(t) \/ AssignDelay(t) \/ Lock(t) \/ Unlock(t) \/ Detach(t)
    \/ Remove(t) \/ Attach(t) \/ Activated(t) \/ Rearm(t) \/ Resumed(t)

-------------------------------------------------------------------------------
(* Calls *)

\* A task is given a program.
Begin(t, program) ==
    /\ Idle(t)
    /\ steps' = [steps EXCEPT ![t] = program]

\* User tasks are frozen while the devices are suspended.
Awake == ~suspended /\ Idle(Power)

StoreBrightness(t, v) ==
    Awake /\ Begin(t, BrightnessStore(v)) /\ UNCHANGED <<fields, armed, files, lock, lit, lost>>
StoreTrigger(t, name) ==
    Awake /\ Begin(t, SetTrigger(name)) /\ UNCHANGED <<fields, armed, files, lock, lit, lost>>
\* A file that is gone cannot be opened: nothing is written.
StoreDelay(t, attr, v) ==
    /\ Awake /\ Begin(t, IF files THEN DelayStore(attr, v) ELSE <<>>)
    /\ UNCHANGED <<fields, armed, files, lock, lit, lost>>

\* led_timer_function
Fire ==
    /\ armed /\ armed' = FALSE
    /\ IF delayOn = 0 \/ delayOff = 0
       THEN Begin(Timer, SetBrightness(0)) /\ UNCHANGED blinkBrightness
       ELSE IF brightness = 0
       THEN Begin(Timer, SetBrightness(blinkBrightness) \o <<[do |-> "rearm"]>>)
            /\ UNCHANGED blinkBrightness
       ELSE Begin(Timer, SetBrightness(0) \o <<[do |-> "rearm"]>>)
            /\ blinkBrightness' = brightness
    /\ UNCHANGED <<brightness, delayOn, delayOff, trigger, data, suspended,
                   files, lock, lit, lost>>

\* led_classdev_suspend and led_classdev_resume, while user tasks are frozen.
Suspend ==
    /\ ~suspended /\ \A t \in Writers: Idle(t)
    /\ suspended' = TRUE
    /\ Begin(Power, <<[do |-> "drive", v |-> 0]>>)
    /\ UNCHANGED <<brightness, blinkBrightness, delayOn, delayOff, trigger, data,
                   armed, files, lock, lit, lost>>
Resume ==
    /\ suspended
    /\ Begin(Power, <<[do |-> "drive", v |-> brightness], [do |-> "resumed"]>>)
    /\ UNCHANGED <<fields, armed, files, lock, lit, lost>>
===============================================================================
