-------------------------------- MODULE Timer --------------------------------
(***************************************************************************)
(* Timer: Start translates a period in one of eight scales into the        *)
(* seconds and nanoseconds of a POSIX timer; each expiry runs SignalEvent  *)
(* in a thread of the system's, which feeds a dispatcher and a semaphore.  *)
(* Start computes with a 32-bit number of seconds: its product with the    *)
(* units of a second wraps around.  TLC's numbers are too small for the    *)
(* real units, so the ratios and the modulus are constants; what matters   *)
(* is the order Milli < Micro < Nano < 2^32 < Pico < Femto.                *)
(*                                                                         *)
(* The dispatcher is a counter of events (its own module is Dispatch), the *)
(* semaphore m_SemEvent a counter up to 1.                                 *)
(***************************************************************************)
EXTENDS Naturals

CONSTANTS
    PerSec,         \* PerSec[s]: units in a second, for the scales below Sec
    SecsPer,        \* SecsPer[s]: seconds in a unit, for Hour, Min and Sec
    Modulus,        \* 2^32
    Periods,        \* the periods a client sets
    MaxPending      \* bound on callbacks running and on events queued

VARIABLES
    started,        \* [mode, scale, period] of the last Start that succeeded
    armed,          \* [value, interval] of the POSIX timer, in nanoseconds; value 0 is off
    running,        \* m_Running
    callbacks,      \* callbacks[s]: SignalEvents that have yet to "submit" or to "give"
    sem,            \* m_SemEvent
    dispatch,       \* [made, handler, events]: m_PtrDispatch, m_PtrHandler, its queue
    life            \* "alive", "deleting", "deleted", or "crashed"
vars == <<started, armed, running, callbacks, sem, dispatch, life>>

Modes == {"Delay", "Periodic"}
Scales == DOMAIN SecsPer \cup DOMAIN PerSec
Nanos == PerSec["Nano"]         \* nanoseconds in a second
Off == [value |-> 0, interval |-> 0]

\* What is asked of the constants: the units of a second down to nanoseconds divide
\* one another and need 32 bits, the finer ones are parts of a nanosecond and need more.
TimerConstants ==
    /\ Modulus \in Nat \ {0} /\ Periods \subseteq Nat
    /\ "Nano" \in DOMAIN PerSec /\ DOMAIN PerSec \cap DOMAIN SecsPer = {}
    /\ \A s \in DOMAIN SecsPer : SecsPer[s] \in Nat \ {0}
    /\ \A s \in DOMAIN PerSec :
          /\ PerSec[s] \in Nat \ {0}
          /\ IF PerSec[s] <= Nanos THEN PerSec[s] <= Modulus /\ Nanos % PerSec[s] = 0
                                   ELSE PerSec[s] > Modulus /\ PerSec[s] % Nanos = 0

TimerInit ==
    /\ started = [mode |-> "Delay", scale |-> "Sec", period |-> 0]
    /\ armed = Off /\ running = FALSE /\ sem = 0
    /\ callbacks = [submit |-> 0, give |-> 0]
    /\ dispatch = [made |-> FALSE, handler |-> FALSE, events |-> 0]
    /\ life = "alive"

-----------------------------------------------------------------------------
(* Start and Stop.                                                         *)

\* Units to nanoseconds.
ToNanos(n, scale) ==
    IF PerSec[scale] <= Nanos THEN n * (Nanos \div PerSec[scale])
                              ELSE n \div (PerSec[scale] \div Nanos)

\* it_value: secs is a uint32_t, and so is its product with the units of a
\* second, which is taken from the 64-bit period.
TimeSpec(s) ==
    IF s.scale \in DOMAIN SecsPer
    THEN [sec |-> s.period * SecsPer[s.scale], nsec |-> 0]
    ELSE LET unit == PerSec[s.scale]
             secs == (s.period \div unit) % Modulus
         IN [sec |-> secs,
             nsec |-> ToNanos(s.period - ((secs * unit) % Modulus), s.scale)]

\* Mutant: a timer of either mode goes on.
Reload_Always(mode, value) == value

\* it_interval.
Reload(mode, value) == IF mode = "Delay" THEN 0 ELSE value

\* The constructor, ModeSet, ScaleSet and PeriodSet only note what the next Start
\* is to read.
Start(s) ==
    /\ life = "alive"
    /\ LET t == TimeSpec(s)
           value == t.sec * Nanos + t.nsec
       IN IF t.nsec < Nanos       \* timer_settime fails otherwise
          THEN /\ armed' = [value |-> value, interval |-> Reload(s.mode, value)]
               /\ started' = s
               /\ running' = TRUE
          ELSE /\ running' = FALSE
               /\ UNCHANGED <<armed, started>>
    /\ UNCHANGED <<callbacks, sem, dispatch, life>>

Stop ==
    /\ life = "alive"
    /\ armed' = Off
    /\ running' = FALSE
    /\ UNCHANGED <<started, callbacks, sem, dispatch, life>>

-----------------------------------------------------------------------------
(* Expiry.                                                                 *)

Pending == callbacks.submit + callbacks.give

\* The timer reloads itself with the interval.  m_Running does not follow.
Expire ==
    /\ armed.value # 0 /\ Pending < MaxPending
    /\ armed' = [armed EXCEPT !.value = armed.interval]
    /\ callbacks' = [callbacks EXCEPT !.submit = @ + 1]
    /\ UNCHANGED <<started, running, sem, dispatch, life>>

\* SignalEvent: an event for the dispatcher, if there is one, ...
SubmitEvent ==
    /\ callbacks.submit > 0 /\ life = "alive"
    /\ callbacks' = [callbacks EXCEPT !.submit = @ - 1, !.give = @ + 1]
    /\ dispatch' = IF dispatch.made /\ dispatch.events < MaxPending
                   THEN [dispatch EXCEPT !.events = @ + 1] ELSE dispatch
    /\ UNCHANGED <<started, armed, running, sem, life>>

\* ... and a token for WaitEvent, one at most.
Give ==
    /\ callbacks.give > 0 /\ life = "alive"
    /\ callbacks' = [callbacks EXCEPT !.give = @ - 1]
    /\ sem' = 1
    /\ UNCHANGED <<started, armed, running, dispatch, life>>

WaitEvent ==
    /\ life = "alive" /\ sem = 1
    /\ sem' = 0
    /\ UNCHANGED <<started, armed, running, callbacks, dispatch, life>>

-----------------------------------------------------------------------------
(* The dispatcher.                                                         *)

\* RegisterHandler makes the dispatcher first and stores the handler then.
MakeDispatch ==
    /\ life = "alive" /\ ~dispatch.made
    /\ dispatch' = [dispatch EXCEPT !.made = TRUE]
    /\ UNCHANGED <<started, armed, running, callbacks, sem, life>>

RegisterHandler ==
    /\ life = "alive" /\ dispatch.made /\ ~dispatch.handler
    /\ dispatch' = [dispatch EXCEPT !.handler = TRUE]
    /\ UNCHANGED <<started, armed, running, callbacks, sem, life>>

\* An event of a timer without a handler goes nowhere.
TimerEventDispatch ==
    /\ life \in {"alive", "deleting"} /\ dispatch.events > 0
    /\ dispatch' = [dispatch EXCEPT !.events = @ - 1]
    /\ UNCHANGED <<started, armed, running, callbacks, sem, life>>

-----------------------------------------------------------------------------
(* The destructor.                                                         *)

DeleteTimer ==
    /\ life = "alive"
    /\ armed' = Off
    /\ life' = "deleting"
    /\ UNCHANGED <<started, running, callbacks, sem, dispatch>>

\* Dispatch's destructor works off its queue.
DeleteDispatch ==
    /\ life = "deleting" /\ dispatch.events = 0
    /\ life' = "deleted"
    /\ UNCHANGED <<started, armed, running, callbacks, sem, dispatch>>

\* A callback that timer_delete found on its way uses a timer under destruction,
\* or a freed one: anything may happen.
LateCallback ==
    /\ life \in {"deleting", "deleted"} /\ Pending > 0
    /\ life' = "crashed"
    /\ UNCHANGED <<started, armed, running, callbacks, sem, dispatch>>

TimerNext ==
    \/ Stop
    \/ \E mode \in Modes, scale \in Scales, period \in Periods :
          Start([mode |-> mode, scale |-> scale, period |-> period])
    \/ Expire
    \/ SubmitEvent
    \/ Give
    \/ WaitEvent
    \/ MakeDispatch
    \/ RegisterHandler
    \/ TimerEventDispatch
    \/ DeleteTimer
    \/ DeleteDispatch
    \/ LateCallback

TimerSpec == TimerInit /\ [][TimerNext]_vars

-----------------------------------------------------------------------------
Wanted(s) ==
    IF s.scale \in DOMAIN SecsPer THEN s.period * SecsPer[s.scale] * Nanos
                                  ELSE ToNanos(s.period, s.scale)

\* The scales whose units of a second need more than 32 bits.
TooFine(s) == s.scale \in DOMAIN PerSec /\ PerSec[s.scale] > Modulus

\* A timer that runs expires after the period it was started with, and goes on
\* with it or not at all, as its mode says, whatever Start computed: where the
\* product wraps around, Start fails.  Not so from one second of picoseconds or
\* femtoseconds on, where it may be nearly a second late.
ArmedIsPeriod ==
    armed.value # 0 /\ (TooFine(started) => started.period < PerSec[started.scale]) =>
       /\ armed.value = Wanted(started)
       /\ armed.interval = IF started.mode = "Delay" THEN 0 ELSE Wanted(started)
=============================================================================
