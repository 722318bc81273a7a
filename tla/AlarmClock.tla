----------------------------- MODULE AlarmClock -----------------------------
(***************************************************************************)
(* What a timer queue promises: an alarm goes off at or after its time, a  *)
(* one-shot alarm once, a repeating one at due, due + interval, ... without *)
(* drift, and no alarm disappears in any other way than the destruction of *)
(* the whole queue.                                                        *)
(***************************************************************************)
EXTENDS Naturals

CONSTANT Names            \* names that alarms may have

VARIABLES
  now,                    \* the monotonic clock
  alarms                  \* [name, due, interval]; interval 0: one-shot

Alarm == [name : Names, due : Nat, interval : Nat]

Init == now \in Nat /\ alarms = {}

Tick == now' = now + 1 /\ UNCHANGED alarms

\* A new alarm al, under a name no other alarm has.
Set(al) ==
  /\ al \in Alarm
  /\ \A other \in alarms : other.name # al.name
  /\ alarms' = alarms \cup {al}
  /\ UNCHANGED now

\* What is left of an alarm once it went off.
Rest(al) ==
  IF al.interval > 0 THEN {[al EXCEPT !.due = al.due + al.interval]} ELSE {}

GoOff(al) ==
  /\ al.due <= now
  /\ alarms' = (alarms \ {al}) \cup Rest(al)
  /\ UNCHANGED now

Drop == alarms' = {} /\ UNCHANGED now

Next ==
  \/ Tick
  \/ Drop
  \/ \E al \in alarms' : Set(al)
  \/ \E al \in alarms : GoOff(al)

Spec == Init /\ [][Next]_<<now, alarms>>
=============================================================================
