------------------------------- MODULE KeyTable -------------------------------
(***************************************************************************)
(* What the updates of the hash tables and of the tree container promise   *)
(* their callers: the table is a set of keys, and every call takes effect  *)
(* in one step somewhere between its invocation and its return             *)
(* (linearizability).                                                      *)
(***************************************************************************)
EXTENDS FiniteSets

CONSTANTS Thread, Key, NULL

VARIABLES
    present,       \* the keys in the table
    op, arg, ret   \* per thread: the call, its key, its outcome

vars == <<present, op, arg, ret>>

Init ==
    /\ present = {}
    /\ op  = [t \in Thread |-> "none"]
    /\ arg = [t \in Thread |-> NULL]
    /\ ret = [t \in Thread |-> "none"]

Invoke(t) == \E o \in {"add", "del"}, k \in Key :
    /\ op[t] = "none"
    /\ op'  = [op  EXCEPT ![t] = o]
    /\ arg' = [arg EXCEPT ![t] = k]
    /\ ret' = [ret EXCEPT ![t] = "pending"]
    /\ UNCHANGED present

\* the call of t takes effect with outcome r and leaves the keys ks
Effect(t, r, ks) ==
    /\ ret[t] = "pending"
    /\ ret' = [ret EXCEPT ![t] = r]
    /\ present' = ks
    /\ UNCHANGED <<op, arg>>

Add(t) == /\ op[t] = "add"
          /\ IF arg[t] \in present THEN Effect(t, "fail", present)
                                   ELSE Effect(t, "ok", present \cup {arg[t]})

\* an addition may also fail for want of memory
AddNoMem(t) == op[t] = "add" /\ Effect(t, "nomem", present)

Del(t) == /\ op[t] = "del"
          /\ IF arg[t] \in present THEN Effect(t, "ok", present \ {arg[t]})
                                   ELSE Effect(t, "fail", present)

\* a flush that other calls may overlap
InvokeFlush(t) ==
    /\ op[t] = "none"
    /\ op'  = [op  EXCEPT ![t] = "flush"]
    /\ ret' = [ret EXCEPT ![t] = "pending"]
    /\ UNCHANGED <<present, arg>>

FlushNow(t) == op[t] = "flush" /\ Effect(t, "ok", {})

Return(t) ==
    /\ ret[t] \notin {"none", "pending"}
    /\ op'  = [op  EXCEPT ![t] = "none"]
    /\ arg' = [arg EXCEPT ![t] = NULL]
    /\ ret' = [ret EXCEPT ![t] = "none"]
    /\ UNCHANGED present

Flush == /\ \A t \in Thread : op[t] = "none"
         /\ present' = {}
         /\ UNCHANGED <<op, arg, ret>>

Next == \/ \E t \in Thread : \/ Invoke(t) \/ Add(t) \/ AddNoMem(t)
                             \/ Del(t) \/ Return(t)
                             \/ InvokeFlush(t) \/ FlushNow(t)
        \/ Flush

Spec == Init /\ [][Next]_vars

=============================================================================
