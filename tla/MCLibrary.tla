------------------------------- MODULE MCLibrary -------------------------------
(***************************************************************************)
(* The containers of the library side by side: the red-black tree and its  *)
(* users, the kernel's hash table, the walk over the hash table, the       *)
(* dictionary under the INI parser, the linked queue.                      *)
(* They share no memory, so a behaviour exercises one of them, `part', and *)
(* the others stay as they were initialized.                               *)
(***************************************************************************)
EXTENDS TimerQueue, RbClient, RbContainer, KernelHash, MCIniParser, HashWalk, LfQueue,
        TLC

VARIABLE part
Part == {"rbtree", "timerqueue", "container", "kernel", "ini", "walk", "queue"}

libVars == <<rbVars, tqVars, cVars, kVars, iniVars, walkVars, lfVars>>

LibInit == /\ part \in Part
           /\ RbInit /\ TqInit /\ cInit /\ kInit /\ iniInit /\ WalkInit /\ lfInit

LibNext ==
    \/ part = "rbtree"     /\ RbClientNext /\ UNCHANGED <<part, tqVars, cVars, kVars, iniVars, walkVars, lfVars>>
    \/ part = "timerqueue" /\ TqNext       /\ UNCHANGED <<part, rbVars, cVars, kVars, iniVars, walkVars, lfVars>>
    \/ part = "container"  /\ cNext        /\ UNCHANGED <<part, rbVars, tqVars, kVars, iniVars, walkVars, lfVars>>
    \/ part = "kernel"     /\ kNext        /\ UNCHANGED <<part, rbVars, tqVars, cVars, iniVars, walkVars, lfVars>>
    \/ part = "ini"        /\ iniNext      /\ UNCHANGED <<part, rbVars, tqVars, cVars, kVars, walkVars, lfVars>>
    \/ part = "walk"       /\ WalkNext     /\ UNCHANGED <<part, rbVars, tqVars, cVars, kVars, iniVars, lfVars>>
    \/ part = "queue"      /\ lfNext       /\ UNCHANGED <<part, rbVars, tqVars, cVars, kVars, iniVars, walkVars>>

LibSpec == LibInit /\ [][LibNext]_<<part, libVars>>

-----------------------------------------------------------------------------
\* timers and nodes are numbers: ten times the time or key, plus a serial
MCByTens(S) == [n \in S |-> n \div 10]
MCExpires == MCByTens(Timer)
MCRbKey == MCByTens(RbNode)

\* two chains, one of two keys
MCKHash == [k \in KKey |-> k % KSize]

\* two buckets of the table that is walked
MCHash == [k \in WKey |-> k % HashSize]

\* memory blocks are alike
Symmetry == Permutations(Block \cup KNode)

=============================================================================
