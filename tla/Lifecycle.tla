------------------------------ MODULE Lifecycle ------------------------------
(***************************************************************************)
(* What the reservation engine promises about one room, without the        *)
(* occurrence machinery: each reservation has a status (the state machine  *)
(* of the Reservation Lifecycle) and holds slots, the <<date, span>> pairs *)
(* of its valid occurrences.                                               *)
(*  - A reservation is created pending or accepted, holding some slots.     *)
(*  - Only a pending reservation is accepted; cancelled and rejected are    *)
(*    terminal.                                                            *)
(*  - A request on one reservation may take slots only from pending ones;  *)
(*    one left with no slot is rejected.                                    *)
(*  - A live reservation holds a slot, a terminal one none.                *)
(*  - The slots of an accepted reservation overlap no other held slot.     *)
(***************************************************************************)
EXTENDS Naturals, FiniteSets

CONSTANTS Res, Dates, Spans

VARIABLES status, slots

lcVars == <<status, slots>>

Statuses == {"none", "pending", "accepted", "cancelled", "rejected"}
LiveStatuses == {"pending", "accepted"}
Slots == Dates \X Spans

(* Two slots collide: the same date, intersecting half-open time spans *)
Collide(a, b) == a[1] = b[1] /\ a[2][1] < b[2][2] /\ b[2][1] < a[2][2]

Exclusive(st, sl) ==
    \A r1, r2 \in Res :
        r1 # r2 /\ st[r1] = "accepted" =>
            \A a \in sl[r1], b \in sl[r2] : ~Collide(a, b)

LCTypeOK == status \in [Res -> Statuses] /\ slots \in [Res -> SUBSET Slots]

LCInit == status = [r \in Res |-> "none"] /\ slots = [r \in Res |-> {}]

(* Each action relates the state to the next one, st1 and sl1. *)
Unchanged(r2, st1, sl1) == st1[r2] = status[r2] /\ sl1[r2] = slots[r2]

(* The others keep their state, or a pending one yields slots to r and is  *)
(* rejected when it has none left.                                          *)
OthersYield(r, st1, sl1) ==
    \A r2 \in Res \ {r} :
        \/ Unchanged(r2, st1, sl1)
        \/ /\ status[r2] = "pending"
           /\ sl1[r2] \subseteq slots[r2] /\ sl1[r2] # slots[r2]
           /\ st1[r2] = IF sl1[r2] = {} THEN "rejected" ELSE "pending"

OthersUnchanged(r, st1, sl1) == \A r2 \in Res \ {r} : Unchanged(r2, st1, sl1)

Create(r, st1, sl1) ==
    /\ status[r] = "none"
    /\ st1[r] \in LiveStatuses /\ sl1[r] # {}
    /\ OthersYield(r, st1, sl1)

Accept(r, st1, sl1) ==
    /\ status[r] = "pending"
    /\ st1[r] = "accepted" /\ sl1[r] = slots[r]
    /\ OthersUnchanged(r, st1, sl1)

(* Cancel or reject the whole reservation *)
Withdraw(r, st1, sl1) ==
    /\ status[r] \in LiveStatuses
    /\ st1[r] \in {"cancelled", "rejected"} /\ sl1[r] = {}
    /\ OthersUnchanged(r, st1, sl1)

(* Cancel or reject some of its slots; with none left it ends *)
Release(r, st1, sl1) ==
    /\ status[r] \in LiveStatuses
    /\ sl1[r] \subseteq slots[r] /\ sl1[r] # slots[r]
    /\ IF sl1[r] = {} THEN st1[r] \in {"cancelled", "rejected"}
                      ELSE st1[r] = status[r]
    /\ OthersUnchanged(r, st1, sl1)

(* Move a live reservation to new slots *)
Rebook(r, st1, sl1) ==
    /\ status[r] \in LiveStatuses
    /\ st1[r] = status[r] /\ sl1[r] # {}
    /\ OthersYield(r, st1, sl1)

LCNext ==
    LET st1 == status'
        sl1 == slots'
    IN  /\ \E r \in Res : \/ Create(r, st1, sl1) \/ Accept(r, st1, sl1)
                        \/ Withdraw(r, st1, sl1) \/ Release(r, st1, sl1)
                        \/ Rebook(r, st1, sl1)
        /\ Exclusive(st1, sl1)

LCSpec == LCInit /\ [][LCNext]_lcVars
=============================================================================
