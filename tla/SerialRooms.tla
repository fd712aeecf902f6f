---------------------------- MODULE SerialRooms ----------------------------
(***************************************************************************)
(* What the media server's worker pool promises to its clients: the tasks  *)
(* of one meeting run one at a time, in the order in which Post accepted   *)
(* them, none is skipped and none runs twice.  Tasks of different meetings *)
(* are not ordered with respect to each other.                             *)
(*                                                                         *)
(* The tasks of a meeting are numbered in the order of acceptance, so the  *)
(* state of a meeting is three numbers.                                    *)
(***************************************************************************)
EXTENDS Naturals

CONSTANT Rooms

VARIABLES
    accepted,   \* accepted[r]: number of tasks Post took for meeting r
    begun,      \* begun[r]: number of the last task whose handler started
    ended       \* ended[r]: number of the last task whose handler returned

vars == <<accepted, begun, ended>>

Init ==
    /\ accepted = [r \in Rooms |-> 0]
    /\ begun = [r \in Rooms |-> 0]
    /\ ended = [r \in Rooms |-> 0]

Accept(r) ==
    /\ accepted' = [accepted EXCEPT ![r] = @ + 1]
    /\ UNCHANGED <<begun, ended>>

Begin(r) ==
    /\ begun[r] = ended[r]
    /\ begun[r] < accepted[r]
    /\ begun' = [begun EXCEPT ![r] = @ + 1]
    /\ UNCHANGED <<accepted, ended>>

End(r) ==
    /\ ended[r] < begun[r]
    /\ ended' = [ended EXCEPT ![r] = begun[r]]
    /\ UNCHANGED <<accepted, begun>>

Next == \E r \in Rooms : Accept(r) \/ Begin(r) \/ End(r)

Spec == Init /\ [][Next]_vars
=============================================================================
