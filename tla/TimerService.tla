---------------------------- MODULE TimerService ----------------------------
(***************************************************************************)
(* What the timer core promises to its users (include/timer.h), without    *)
(* lists, locks or time: a scheduled timer runs at most once per           *)
(* scheduling, never on two CPUs at a time, and never again once           *)
(* cancel_timer() has returned, unless it is scheduled anew.               *)
(***************************************************************************)
CONSTANTS CPUs, Timers, NoCpu

VARIABLES
  scheduled,  \* the timers that are scheduled
  running,    \* the CPU that runs the expiry function of a timer
  cancelled   \* timers cancelled and not scheduled since

vars == <<scheduled, running, cancelled>>

Init ==
  /\ scheduled = {}
  /\ running = [t \in Timers |-> NoCpu]
  /\ cancelled = {}

\* "(re)schedule a timer"; also from the expiry function itself.
Schedule(t) ==
  /\ scheduled' = scheduled \cup {t}
  /\ cancelled' = cancelled \ {t}
  /\ UNCHANGED running

\* "cancel_timer() will ensure the timer isn't concurrently running".
Cancel(t) ==
  /\ running[t] = NoCpu
  /\ scheduled' = scheduled \ {t}
  /\ cancelled' = cancelled \cup {t}
  /\ UNCHANGED running

\* "remove the timer from the schedule list without trying to synchronize".
CancelAsync(t) ==
  /\ scheduled' = scheduled \ {t}
  /\ UNCHANGED <<running, cancelled>>

Start(c, t) ==
  /\ t \in scheduled
  /\ running[t] = NoCpu
  /\ scheduled' = scheduled \ {t}
  /\ running' = [running EXCEPT ![t] = c]
  /\ UNCHANGED cancelled

Finish(c, t) ==
  /\ running[t] = c
  /\ running' = [running EXCEPT ![t] = NoCpu]
  /\ UNCHANGED <<scheduled, cancelled>>

Next ==
  \E t \in Timers :
    \/ Schedule(t)
    \/ Cancel(t)
    \/ CancelAsync(t)
    \/ \E c \in CPUs : Start(c, t) \/ Finish(c, t)

Spec == Init /\ [][Next]_vars
=============================================================================
