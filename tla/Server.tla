------------------------------- MODULE Server -------------------------------
(***************************************************************************)
(* What the server of every node does with decided values                  *)
(* (lab6/network/server.go, srvHandleDecidedValue and the case of          *)
(* srvHandleThisNodeOutMsg that calls it).  The accounts are a function of *)
(* the sequence of the values applied, so the sequence stands for them.    *)
(* IncrementAllDecidedUpTo is a rendezvous with the proposer's loop: the   *)
(* server waits in "inc" for it and goes on with the pending list after.   *)
(***************************************************************************)
EXTENDS Learner

VARIABLES
    srvAdu,         \* srv.adu
    dcdValInList,   \* decided values of slots above srvAdu + 1
    srvPc,          \* "loop", or "inc" while IncrementAllDecidedUpTo waits
    applied         \* the decided values applied to the accounts, in order

serverVars == <<srvAdu, dcdValInList, srvPc, applied>>

\* Mutant: adu counts from -1, as the README has it, and the slots from 1.
ServerInit_minusOne ==
    /\ srvAdu = [n \in Node |-> -1]
    /\ dcdValInList = [n \in Node |-> <<>>]
    /\ srvPc = [n \in Node |-> "loop"]
    /\ applied = [n \in Node |-> <<>>]

ServerInit ==
    /\ srvAdu = [n \in Node |-> 0]
    /\ dcdValInList = [n \in Node |-> <<>>]
    /\ srvPc = [n \in Node |-> "loop"]
    /\ applied = [n \in Node |-> <<>>]

\* Mutant: the gap before the decided slot is not looked at.
srvHandleDecidedValue_anyOrder(n, d, pending) ==
    /\ dcdValInList' = [dcdValInList EXCEPT ![n] = pending]
    /\ applied' = [applied EXCEPT ![n] = Append(@, d)]
    /\ srvAdu' = [srvAdu EXCEPT ![n] = @ + 1]
    /\ srvPc' = [srvPc EXCEPT ![n] = "inc"]

\* Mutant: a value beyond the next slot is not put in the list.
srvHandleDecidedValue_dropping(n, d, pending) ==
    \/ /\ d.SlotID > srvAdu[n] + 1
       /\ dcdValInList' = [dcdValInList EXCEPT ![n] = pending]
       /\ srvPc' = [srvPc EXCEPT ![n] = "loop"]
       /\ UNCHANGED <<srvAdu, applied>>
    \/ /\ d.SlotID <= srvAdu[n] + 1
       /\ dcdValInList' = [dcdValInList EXCEPT ![n] = pending]
       /\ applied' = [applied EXCEPT ![n] = Append(@, d)]
       /\ srvAdu' = [srvAdu EXCEPT ![n] = @ + 1]
       /\ srvPc' = [srvPc EXCEPT ![n] = "inc"]

\* srvHandleDecidedValue(d) with `pending' as the list: a value beyond the next
\* slot is put at the end of the list, every other one is applied.
srvHandleDecidedValue(n, d, pending) ==
    \/ /\ d.SlotID > srvAdu[n] + 1
       /\ dcdValInList' = [dcdValInList EXCEPT ![n] = Append(pending, d)]
       /\ srvPc' = [srvPc EXCEPT ![n] = "loop"]
       /\ UNCHANGED <<srvAdu, applied>>
    \/ /\ d.SlotID <= srvAdu[n] + 1
       /\ dcdValInList' = [dcdValInList EXCEPT ![n] = pending]
       /\ applied' = [applied EXCEPT ![n] = Append(@, d)]
       /\ srvAdu' = [srvAdu EXCEPT ![n] = @ + 1]
       /\ srvPc' = [srvPc EXCEPT ![n] = "inc"]

\* case dcdVal := <-srv.srvCh.ChosenValOut
TakeDecidedValue(n) ==
    /\ srvPc[n] = "loop"
    /\ chosenValOut[n] # <<>>
    /\ chosenValOut' = [chosenValOut EXCEPT ![n] = Tail(@)]
    /\ srvHandleDecidedValue(n, Head(chosenValOut[n]), dcdValInList[n])
    /\ UNCHANGED <<learns, decisions>>

\* Mutant: the pending list is not looked at.
AfterIncrement_idle(n) ==
    /\ srvPc[n] = "inc"
    /\ srvPc' = [srvPc EXCEPT ![n] = "loop"]
    /\ UNCHANGED <<srvAdu, dcdValInList, applied, learnerVars>>

\* The proposer took the increment.  One pending value is tried, the first.
AfterIncrement(n) ==
    /\ srvPc[n] = "inc"
    /\ \/ /\ dcdValInList[n] # <<>>
          /\ srvHandleDecidedValue(n, Head(dcdValInList[n]), Tail(dcdValInList[n]))
       \/ /\ dcdValInList[n] = <<>>
          /\ srvPc' = [srvPc EXCEPT ![n] = "loop"]
          /\ UNCHANGED <<srvAdu, dcdValInList, applied>>
    /\ UNCHANGED learnerVars

-----------------------------------------------------------------------------
\* Node n applied two values decided for the same slot.
Repeats(n) ==
    \E i, j \in DOMAIN applied[n] : i < j /\ applied[n][i].SlotID = applied[n][j].SlotID
=============================================================================
