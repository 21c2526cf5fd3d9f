---------------------------- MODULE OwnedGrants ----------------------------
(***************************************************************************)
(* What pkg/crossns promises the operators that use it, without how it     *)
(* gets there: each owns some objects and calls for some; a call works     *)
(* slot by slot towards what it is called for, never touches a slot that   *)
(* is already right, and returns success only when all of them are.  An    *)
(* admin may disturb the objects at any time, which voids what the calls   *)
(* under way and before promise.                                           *)
(***************************************************************************)
CONSTANTS
    Holders,
    Slots,      \* where an object may be
    Objects,
    Absent

VARIABLES
    owned,      \* the objects each holder owns, by slot
    asked,      \* what its call, or its last one, is for
    status      \* of that call

ledger == <<owned, asked, status>>

NothingOwned == [s \in Slots |-> Absent]

Wishes == [Slots -> Objects \cup {Absent}]

Init ==
    /\ owned = [o \in Holders |-> NothingOwned] /\ asked = [o \in Holders |-> NothingOwned]
    /\ status = [o \in Holders |-> "returned"]

Begin(o) ==
    /\ status[o] \in {"returned", "exact"}
    /\ status' = [status EXCEPT ![o] = "working"]
    /\ asked' = [asked EXCEPT ![o] = asked'[o]] /\ asked'[o] \in Wishes
    /\ UNCHANGED owned

(* A slot is made right or cleared; one that is right is left alone, as    *)
(* long as nobody has interfered with what the call has read.              *)
Adjust(o) ==
    \E s \in Slots : \E obj \in {asked[o][s], Absent} :
        /\ status[o] = "working" => owned[o][s] # asked[o][s]
        /\ owned' = [owned EXCEPT ![o][s] = obj]

Return(o) ==
    \/ status' = [status EXCEPT ![o] = "returned"]
    \/ /\ status[o] = "working" /\ owned'[o] = asked[o]
       /\ status' = [status EXCEPT ![o] = "exact"]

Work(o) ==
    /\ status[o] \in {"working", "disturbed"}
    /\ UNCHANGED status \/ Return(o)
    /\ UNCHANGED asked
    /\ UNCHANGED owned \/ Adjust(o)

Disturb ==
    /\ status' = [o \in Holders |-> IF status[o] = "working" THEN "disturbed"
                                    ELSE IF status[o] = "exact" THEN "returned"
                                    ELSE status[o]]
    /\ UNCHANGED asked
    /\ \/ UNCHANGED owned
       \/ \E o \in Holders, s \in Slots :
             /\ owned' = [owned EXCEPT ![o][s] = owned'[o][s]]
             /\ owned'[o][s] \in Objects \cup {Absent}

Next == (\E o \in Holders : Begin(o) \/ Work(o)) \/ Disturb

Spec == Init /\ [][Next]_ledger
============================================================================
