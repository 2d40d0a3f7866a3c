------------------------------- MODULE TimerLib -------------------------------
(***************************************************************************)
(* The timer library of test/timer/timerlib.c: a queue of timers, one      *)
(* interval timer, and a ticker thread that arms it for the first timer,   *)
(* sleeps in sigwait and calls the handlers.  Every function works under   *)
(* one mutex from its first access to the queue to its last: one step.     *)
(*                                                                         *)
(* Time is relative: due[t] is what gettimeofday leaves until t expires, 0 *)
(* from then on; a second has Second microseconds, of which usec have      *)
(* passed.  Time may pass between any two steps.                           *)
(***************************************************************************)
EXTENDS Null, Naturals, Sequences, SequencesExt

CONSTANTS
    Timer,      \* the tl_timer_t malloc can return
    Second,     \* MICRO_PER_SEC
    AlmostNow,  \* ALMOST_NOW
    MaxDelay    \* bound: the longest delay asked for
ASSUME TimerLibAssumption == /\ NULL \notin Timer
                             /\ {Second, AlmostNow, MaxDelay} \subseteq Nat \ {0}

VARIABLES
    timerq,     \* timerq.first .. timerq.last
    due,        \* timeout, relative to now
    inUse, cancelled,  \* the timers with that flag
    arg,        \* arg[t]: live, freed by timer_rem, or passed to the handler
    hasArg,     \* the timers whose handler_arg is not NULL
    removed,    \* the queued timers that timer_rem was called for
    tlPc,       \* the ticker: off, boot, top, asleep (in pthread_cond_wait),
                \* sigwait, fire, handler; stuck in timer_init
    run,        \* the timer whose handler runs
    usec,       \* tv_usec of now
    alarm, alarmFor,      \* the interval timer (0: disarmed), and the timer it
                          \* was started for
    pending, pendingFor,  \* SIGALRM is pending, and that timer
    zero        \* TV_MINUS gave 0 when the interval timer was last set
flags  == <<inUse, cancelled, arg, hasArg, removed>>
clock  == <<alarm, alarmFor, zero>>
signal == <<pending, pendingFor>>
tlVars == <<timerq, due, flags, tlPc, run, usec, clock, signal>>

Queued(t) == t \in ToSet(timerq)
First == IF timerq = <<>> THEN NULL ELSE timerq[1]
NotInUse(t) == ~Queued(t) /\ run # t

tlInit == /\ timerq = <<>> /\ due = [t \in Timer |-> 0]
          /\ inUse = {} /\ cancelled = {} /\ hasArg = {} /\ removed = {}
          /\ arg = [t \in Timer |-> "live"]
          /\ tlPc = "off" /\ run = NULL /\ usec = 0
          /\ alarm = 0 /\ alarmFor = NULL /\ zero = FALSE
          /\ pending = FALSE /\ pendingFor = NULL

\* TV_MINUS(timeout, now) for a timeout d ahead: where it has to borrow it adds
\* MAX_USEC, one microsecond less than a second
Minus(d) == IF (usec + d) % Second < usec THEN d - 1 ELSE d

\* Mutant: nothing is added to a time that has come
TimerStartPast(t, d) ==
    LET v == IF d > 0 THEN Minus(d) ELSE 0
    IN alarm' = v /\ alarmFor' = t /\ zero' = (d > 0 /\ v = 0)

\* Mutant: the operands of TV_LESS_THAN are swapped
TimerStartSwapped(t, d) ==
    LET v == IF d > 0 THEN AlmostNow ELSE Minus(d)
    IN alarm' = v /\ alarmFor' = t /\ zero' = (d > 0 /\ v = 0)

\* timer_start for timer t that is d ahead, ALMOST_NOW if its time has come
TimerStart(t, d) ==
    LET v == IF d > 0 THEN Minus(d) ELSE AlmostNow
    IN alarm' = v /\ alarmFor' = t /\ zero' = (d > 0 /\ v = 0)

\* a removed timer is no longer the one an alarm is for
Forget(t) == /\ alarmFor' = IF alarmFor = t THEN NULL ELSE alarmFor
             /\ pendingFor' = IF pendingFor = t THEN NULL ELSE pendingFor

\* timer_dequeue frees t
Dequeue(t) == /\ \E i \in DOMAIN timerq : timerq[i] = t /\ timerq' = RemoveAt(timerq, i)
              /\ due' = [due EXCEPT ![t] = 0]
              /\ inUse' = inUse \ {t} /\ cancelled' = cancelled \ {t}
              /\ hasArg' = hasArg \ {t} /\ removed' = removed \ {t}

-----------------------------------------------------------------------------
(* timer_init and timer_destroy *)

InitCall == /\ tlPc = "off" /\ tlPc' = "boot"
            /\ UNCHANGED <<timerq, due, flags, run, usec, clock, signal>>

\* the ticker signals that it is there, timer_init returns 1
Booted == /\ tlPc = "boot" /\ tlPc' = "top"
          /\ UNCHANGED <<timerq, due, flags, run, usec, clock, signal>>

\* after INIT_WAIT_TIME timer_init cancels the ticker and joins it, with the
\* mutex the ticker has to lock before it reaches a cancellation point
InitTimedOut == /\ tlPc = "boot" /\ tlPc' = "stuck"
                /\ UNCHANGED <<timerq, due, flags, run, usec, clock, signal>>

\* timer_destroy while the ticker is where pthread_cancel reaches it; neither
\* the interval timer nor a pending signal is taken back
Destroy == /\ tlPc \in {"asleep", "sigwait"} /\ tlPc' = "off"
           /\ timerq' = <<>> /\ due' = [t \in Timer |-> 0]
           /\ inUse' = {} /\ cancelled' = {} /\ hasArg' = {} /\ removed' = {}
           /\ alarmFor' = NULL /\ pendingFor' = NULL
           /\ UNCHANGED <<arg, run, usec, alarm, zero, pending>>

-----------------------------------------------------------------------------
(* The users, and handlers that call back *)

Up == tlPc \notin {"off", "boot", "stuck"}

\* the new timer's place: before the first one that expires later
Places(d) == {i \in 1 .. Len(timerq) + 1 : /\ \A j \in 1 .. i - 1 : due[timerq[j]] <= d
                                           /\ i <= Len(timerq) => d < due[timerq[i]]}

\* Mutant: the timer that loses the first place keeps its flag
InUseBoth(t, old) == inUse' = inUse \cup {t}
\* a new first timer takes over the flag of the old one
TakesOver(t, old) == inUse' = (inUse \ {old}) \cup {t}

TimerAdd(t, d) == \E i \in Places(d) :
    /\ Up /\ NotInUse(t)
    /\ timerq' = InsertAt(timerq, i, t)
    /\ due' = [due EXCEPT ![t] = d]
    /\ arg' = [arg EXCEPT ![t] = "live"] /\ hasArg' = hasArg \cup {t}
    /\ IF timerq # <<>> /\ i = 1
       THEN TakesOver(t, First) /\ TimerStart(t, d)
       ELSE UNCHANGED <<inUse, clock>>
    /\ tlPc' = IF timerq = <<>> /\ tlPc = "asleep" THEN "top" ELSE tlPc  \* pthread_cond_signal
    /\ UNCHANGED <<cancelled, removed, run, usec, signal>>

\* Mutant: the argument pointer survives free_arg (before LE-03-02-2010.01)
KeepsArg(t) == hasArg' = hasArg
DropsArg(t) == hasArg' = hasArg \ {t}

\* free_arg(handler_arg); free(NULL) does nothing, a second free is remembered
FreeArg(t) == arg' = [arg EXCEPT ![t] = IF t \notin hasArg THEN @
                                       ELSE IF @ = "live" THEN "freed" ELSE "twice"]

\* timer_rem of the timer the ticker waits for
RemInUse(t, free) ==
    /\ Up /\ t \in inUse
    /\ IF free THEN FreeArg(t) /\ DropsArg(t) ELSE UNCHANGED <<arg, hasArg>>
    /\ cancelled' = cancelled \cup {t} /\ removed' = removed \cup {t}
    /\ UNCHANGED <<timerq, due, inUse, tlPc, run, usec, clock, signal>>

\* timer_rem of another one
RemWaiting(t, free) ==
    /\ Up /\ Queued(t) /\ t \notin inUse
    /\ IF free THEN FreeArg(t) ELSE UNCHANGED arg
    /\ Dequeue(t) /\ Forget(t)
    /\ UNCHANGED <<tlPc, run, usec, alarm, zero, pending>>

-----------------------------------------------------------------------------
(* cronometer *)

Sleep == /\ tlPc = "top" /\ timerq = <<>> /\ tlPc' = "asleep"
         /\ UNCHANGED <<timerq, due, flags, run, usec, clock, signal>>

Arm == /\ tlPc = "top" /\ timerq # <<>> /\ tlPc' = "sigwait"
       /\ TimerStart(First, due[First])
       /\ inUse' = inUse \cup {First}
       /\ UNCHANGED <<timerq, due, cancelled, arg, hasArg, removed, run, usec, signal>>

\* sigwait takes the pending signal; whose it was is remembered for NotEarly
Sigwait == /\ tlPc = "sigwait" /\ pending /\ tlPc' = "fire"
           /\ pending' = FALSE
           /\ UNCHANGED <<timerq, due, flags, run, usec, clock, pendingFor>>

\* Mutant: the flag is not looked at
FireAnyway == /\ tlPc = "fire" /\ tlPc' = "handler" /\ run' = First
              /\ arg' = [arg EXCEPT ![First] = IF First \in hasArg /\ @ = "live" THEN "handled" ELSE @]
              /\ Dequeue(First) /\ Forget(First)
              /\ UNCHANGED <<usec, alarm, zero, pending>>

\* the first timer was cancelled, or its handler is called after it was freed
Fire == /\ tlPc = "fire"
        /\ IF First \in cancelled
           THEN tlPc' = "top" /\ UNCHANGED <<run, arg>>
           ELSE /\ tlPc' = "handler" /\ run' = First
                /\ arg' = [arg EXCEPT ![First] = IF First \in hasArg /\ @ = "live" THEN "handled" ELSE @]
        /\ Dequeue(First) /\ Forget(First)
        /\ UNCHANGED <<usec, alarm, zero, pending>>

HandlerReturns == /\ tlPc = "handler" /\ tlPc' = "top" /\ run' = NULL
                  /\ UNCHANGED <<timerq, due, flags, usec, clock, signal>>

\* a microsecond passes; the interval timer runs out
Tick == /\ usec' = (usec + 1) % Second
        /\ due' = [t \in Timer |-> IF due[t] > 0 THEN due[t] - 1 ELSE 0]
        /\ alarm' = IF alarm > 0 THEN alarm - 1 ELSE 0
        /\ IF alarm = 1 THEN pending' = TRUE /\ pendingFor' = alarmFor ELSE UNCHANGED signal
        /\ UNCHANGED <<timerq, flags, tlPc, run, alarmFor, zero>>

Ticker == Booted \/ Sleep \/ Arm \/ Sigwait \/ Fire \/ HandlerReturns
User == \/ InitCall \/ Destroy
        \/ \E t \in Timer : \/ \E d \in 1 .. MaxDelay : TimerAdd(t, d)
                            \/ \E free \in BOOLEAN : RemInUse(t, free) \/ RemWaiting(t, free)
tlNext == Ticker \/ User \/ InitTimedOut \/ Tick

\* the ticker thread is scheduled, handlers return, time passes
tlFairness == WF_tlVars(Ticker) /\ WF_tlVars(Tick)
tlSpec == tlInit /\ [][tlNext]_tlVars /\ tlFairness

-----------------------------------------------------------------------------
TypeOK == /\ timerq \in Seq(Timer) /\ due \in [Timer -> Nat]
          /\ UNION {inUse, cancelled, hasArg, removed} \subseteq Timer
          /\ arg \in [Timer -> {"live", "freed", "handled", "twice"}]
          /\ {run, alarmFor, pendingFor} \subseteq Timer \cup {NULL}
          /\ usec \in 0 .. Second - 1 /\ alarm \in Nat
          /\ {pending, zero} \subseteq BOOLEAN

\* While the ticker waits for a signal, and when it looks at timerq.first
\* again, there is a first timer, it is the one marked as in use and none
\* expires before it: timer_rem never frees what cronometer is about to read,
\* whoever came or went meanwhile.
FirstInUse == /\ inUse \subseteq {First}
              /\ tlPc \in {"sigwait", "fire"} => timerq # <<>> /\ First \in inUse
              /\ \A t \in ToSet(timerq) : due[First] <= due[t]

\* An argument is freed by timer_rem at most once, and never once the handler
\* has it: LE-03-02-2010.01 and cancelled exclude it in every order of calls.
ArgOnce == \A t \in Timer : arg[t] # "twice" /\ (Queued(t) => arg[t] # "handled")

\* No handler is started for a timer after timer_rem has returned for it.
NeverAfterRemoval == [][run' \notin removed]_tlVars

\* A timer never expires before its time, at most after: when sigwait returns,
\* timerq.first is due, unless it was cancelled (timerlib.c:213-224).
NeverEarly == tlPc = "fire" /\ First \notin cancelled => due[First] = 0

\* A timer is run ahead of its time by more than the microsecond TV_MINUS
\* loses only by an alarm that had been started for another timer: what
\* holds instead of NeverEarly.
NotEarly == tlPc = "fire" /\ pendingFor = First => due[First] <= 1

\* the ticker waits for a signal that no alarm will raise
Deaf == tlPc = "sigwait" /\ alarm = 0 /\ ~pending

\* A queued timer leaves the queue, by its handler, timer_rem or timer_destroy,
\* whatever is added and removed meanwhile and however late the ticker is,
\* unless TV_MINUS made the interval of the alarm 0.
TimersServed == \A t \in Timer : Queued(t) ~> ~Queued(t) \/ (Deaf /\ zero)

=============================================================================
