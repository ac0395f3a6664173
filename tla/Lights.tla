-------------------------------- MODULE Lights ---------------------------------
(***************************************************************************)
(* The lights HAL (src/SYS_Lights/lights.c) over one of the three LEDs     *)
(* that it writes, the LED class beneath it (LedClass), and another task   *)
(* that writes the same attribute files, which everyone may.               *)
(*                                                                         *)
(* g_lock is held while a light is set, so that calls of the HAL come one  *)
(* after the other.  Each of their writes is a store that runs to its end  *)
(* before the next.                                                        *)
(***************************************************************************)
EXTENDS LedClass

CONSTANTS
    Hal, Shell,         \* the two writers
    States,             \* light_state_t, as far as this LED is concerned
    Batteries,          \* those that the battery light is set to
    MaxMeddle           \* bound: stores of the shell, and suspends

ASSUME LightsBound == MaxMeddle \in Nat
ASSUME LightsBatteries == Batteries \subseteq States
ASSUME LightsWriters == Writers = {Hal, Shell} /\ Hal # Shell
\* lit: any part of the colour is not zero; level: the part of this LED.
ASSUME LightsStates ==
    \A s \in States: /\ s.lit \in BOOLEAN /\ s.flash \in BOOLEAN
                     /\ s.level \in 0..Full /\ (s.level # 0 => s.lit)
                     /\ s.on \in Nat /\ s.off \in Nat

VARIABLES
    notification, battery,  \* g_notification, g_battery
    writes,                 \* what set_shared_light_locked still writes
    meddled,                \* history: the LED was written by others, or suspended, since
    meddles                 \* the bounded actions so far

hal == <<notification, battery, writes, meddled, meddles>>
allVars == <<vars, hal>>

Dark == [lit |-> FALSE, level |-> 0, flash |-> FALSE, on |-> 0, off |-> 0]

\* The steps of a call are chains of these.
Kinds == {"level", "drive", "gpio", "delete", "stop", "blink", "delays", "assign", "lock",
          "detach", "remove", "attach", "data", "unlock", "rearm", "resumed"}

TypeOK ==
    /\ brightness \in 0..Full /\ blinkBrightness \in 0..Full
    /\ delayOn \in Nat /\ delayOff \in Nat
    /\ trigger \in {"none", "timer"}
    /\ {data, suspended, armed, files, lock, lit, lost, meddled} \subseteq BOOLEAN
    /\ \A t \in Tasks: \A i \in DOMAIN steps[t]: steps[t][i].do \in Kinds
    /\ meddles \in 0..MaxMeddle
    /\ notification \in States \cup {Dark} /\ battery \in States \cup {Dark}

LightsInit ==
    /\ Init
    /\ notification = Dark /\ battery = Dark
    /\ writes = <<>> /\ meddled = TRUE /\ meddles = 0

-------------------------------------------------------------------------------
(* The HAL *)

\* set_shared_light_locked
Writes(s) ==
    (IF s.flash
     THEN <<[to |-> "trigger", v |-> "timer"], [to |-> "on", v |-> s.on], [to |-> "off", v |-> s.off]>>
     ELSE <<[to |-> "trigger", v |-> "none"]>>)
    \o <<[to |-> "brightness", v |-> s.level]>>

\* handle_shared_battery_locked: a notification goes before the battery.
Prefer(n, b) == IF n.lit THEN n ELSE b

\* set_light_notifications and set_light_battery, when g_lock is free.
SetLight(n, b) ==
    /\ writes = <<>> /\ Idle(Hal)
    /\ notification' = n /\ battery' = b
    /\ writes' = Writes(Prefer(n, b))
    /\ meddled' = FALSE
    /\ UNCHANGED <<vars, meddles>>
SetNotification == \E s \in States: SetLight(s, battery)
SetBattery == \E s \in Batteries: SetLight(notification, s)

\* write_string, write_int: the next file is written.
Write ==
    /\ writes # <<>> /\ Idle(Hal)
    /\ LET w == Head(writes)
       IN  CASE w.to = "trigger" -> StoreTrigger(Hal, w.v)
             [] w.to = "brightness" -> StoreBrightness(Hal, w.v)
             [] OTHER -> StoreDelay(Hal, w.to, w.v)
    /\ writes' = Tail(writes)
    /\ UNCHANGED <<notification, battery, meddled, meddles>>

-------------------------------------------------------------------------------
(* Everyone else *)

Meddle ==
    /\ meddled' = TRUE
    /\ meddles < MaxMeddle /\ meddles' = meddles + 1
    /\ UNCHANGED <<notification, battery, writes>>

ShellTrigger == (\E name \in {"none", "timer"}: StoreTrigger(Shell, name)) /\ Meddle
ShellBrightness == (\E v \in {0, Full + 1}: StoreBrightness(Shell, v)) /\ Meddle
Sleep == Suspend /\ Meddle
WakeUp == Resume /\ meddled' = TRUE /\ UNCHANGED <<notification, battery, writes, meddles>>
Blinks == Fire /\ UNCHANGED hal

\* A task that works on without the HAL leaves its mark.
Continue(t) ==
    /\ Step(t)
    /\ meddled' = (meddled \/ t = Shell)
    /\ UNCHANGED <<notification, battery, writes, meddles>>

Next ==
    \/ SetNotification \/ SetBattery \/ Write
    \/ ShellTrigger \/ ShellBrightness \/ Sleep \/ WakeUp \/ Blinks
    \/ \E t \in Tasks: Continue(t)

Spec == LightsInit /\ [][Next]_allVars

\* Tasks run; a lock that comes free again and again is had in the end, and a
\* timer that fires again and again leaves time between for del_timer_sync.
FairSpec ==
    /\ Spec
    /\ \A t \in Writers: SF_allVars(Continue(t))
    /\ \A t \in {Timer, Power}: WF_allVars(Continue(t))

-------------------------------------------------------------------------------
(* Properties *)

\* Without a trigger the LED does not blink (led-class.c:109): whatever stores
\* and timer did at the same time, the timer is off and the delays are zero once
\* the trigger has gone.
QuietWithoutTrigger ==
    trigger = "none" /\ ~lock => ~armed /\ Idle(Timer) /\ delayOn = 0 /\ delayOff = 0

\* The HAL has written all of its last call, and nobody else has written since.
Settled == writes = <<>> /\ (\A t \in Writers: Idle(t)) /\ ~meddled

\* With the timer trigger and two delays the LED blinks, once the HAL has written
\* what it wanted and nobody else did, with one exception: a store that leaves both
\* delays as they are has stopped the timer (led_blink_set) and not started it
\* again (led_set_software_blink).  Stores of others during an activation may lose
\* it too.
BlinksUnlessLost ==
    Settled /\ trigger = "timer" /\ data /\ delayOn # 0 /\ delayOff # 0
    => armed \/ ~Idle(Timer) \/ lost

\* What the HAL has set is what the LED shows, when nobody else has written it:
\* dark, steady, or with the timer trigger and the delays asked for.
Shows(s) ==
    /\ s.level = 0 \/ ~s.flash => trigger = "none" /\ brightness = s.level /\ lit = (s.level # 0)
    /\ s.level # 0 /\ s.flash =>
         /\ trigger = "timer"
         /\ files => LET none == s.on = 0 /\ s.off = 0
                     IN  /\ delayOn = IF none THEN Default ELSE s.on
                         /\ delayOff = IF none THEN Default ELSE s.off
ShownWhenSet == Settled => Shows(Prefer(notification, battery))

\* Every write of an attribute file ends, although removing the files of the
\* trigger waits, with its lock held, for the tasks that are inside them.
StoresEnd == \A t \in Writers: ~Idle(t) ~> Idle(t)
===============================================================================
