---------------------------- MODULE SharedCount ----------------------------
(***************************************************************************)
(* What a counter shared by regions promises: a published count that never *)
(* shrinks and never passes the requests that were admitted, and views of  *)
(* it that are the region's own counting, some count once published, or    *)
(* forgotten.                                                              *)
(***************************************************************************)
EXTENDS Naturals

CONSTANT Region

VARIABLES
    admitted,  \* requests counted, in all regions
    published, \* the count the regions share
    view       \* region -> the count it keeps

countVars == <<admitted, published, view>>

CountInit == admitted = 0 /\ published = 0 /\ view = [r \in Region |-> 0]

Admit(r) ==
    /\ admitted' = admitted + 1
    /\ view' = [view EXCEPT ![r] = @ + 1]
    /\ UNCHANGED published

Publish(r) ==
    /\ published' \in published..admitted /\ published' >= view[r]
    /\ UNCHANGED <<admitted, view>>

Adopt(r) ==
    /\ \E n \in 0..published : view' = [view EXCEPT ![r] = n]
    /\ UNCHANGED <<admitted, published>>

CountNext == \E r \in Region : Admit(r) \/ Publish(r) \/ Adopt(r)

CountSpec == CountInit /\ [][CountNext]_countVars
=============================================================================
