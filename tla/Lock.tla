-------------------------------- MODULE Lock ---------------------------------
(***************************************************************************)
(* What a mutex promises its users: a lock that one thread at a time is    *)
(* inside, entered and left only by calls of the thread that runs.         *)
(* inside[t][l] is how often t has entered l and not left it.              *)
(***************************************************************************)
EXTENDS Naturals

CONSTANTS Threads, Locks

VARIABLES inside, current

vars == <<inside, current>>

Init ==
    /\ inside = [t \in Threads |-> [l \in Locks |-> 0]]
    /\ current \in Threads

Enter(l) ==
    /\ \A t \in Threads \ {current} : inside[t][l] = 0
    /\ inside' = [inside EXCEPT ![current][l] = @ + 1]
    /\ UNCHANGED current

Leave(l) ==
    /\ inside[current][l] > 0
    /\ inside' = [inside EXCEPT ![current][l] = @ - 1]
    /\ UNCHANGED current

\* Leaving for the last time lets a thread in that waits.
HandOver(l, t) ==
    /\ inside[current][l] = 1
    /\ inside' = [inside EXCEPT ![current][l] = 0, ![t][l] = 1]
    /\ UNCHANGED current

\* Another thread runs: nobody enters or leaves by that.
Switch == current' \in Threads /\ UNCHANGED inside

Next ==
    \/ Switch
    \/ \E l \in Locks : \/ Enter(l) \/ Leave(l)
                        \/ \E t \in Threads \ {current} : HandOver(l, t)

Spec == Init /\ [][Next]_vars

=============================================================================
