------------------------------- MODULE MCThreads -------------------------------
(***************************************************************************)
(* The components that have threads of their own or are made for threads:  *)
(* the thread pool, the timer library, the pool of buffers.  They share    *)
(* nothing, so a behaviour exercises one of them, `part'; the others stay  *)
(* as they were initialized.                                               *)
(***************************************************************************)
EXTENDS ThreadPool, TimerLib, CacheStore

VARIABLE part
thVars == <<part, vars, tlVars, csVars>>

ThInit == part \in {"pool", "timer", "cache"} /\ Init /\ tlInit /\ csInit

ThNext == \/ part = "pool"  /\ Next   /\ UNCHANGED <<part, tlVars, csVars>>
          \/ part = "timer" /\ tlNext /\ UNCHANGED <<part, vars, csVars>>
          \/ part = "cache" /\ csNext /\ UNCHANGED <<part, vars, tlVars>>

\* the fairness of FairSpec and of tlSpec, for the part that runs
InPool(A)  == part = "pool"  /\ A /\ UNCHANGED <<part, tlVars, csVars>>
InTimer(A) == part = "timer" /\ A /\ UNCHANGED <<part, vars, csVars>>

ThFairness == /\ \A w \in Worker : WF_thVars(InPool(Routine(w)))
              /\ \A c \in Client : WF_thVars(InPool(Goes(c)))
              /\ WF_thVars(InTimer(Ticker)) /\ WF_thVars(InTimer(Tick))

ThSpec == ThInit /\ [][ThNext]_thVars /\ ThFairness

=============================================================================
