------------------------------ MODULE MCRooms ------------------------------
(***************************************************************************)
(* The room catalogue for TLC: four rooms of two locations, one of each   *)
(* label (moderated, basic, not reservable) and an inactive one; the      *)
(* second location does not support allowed booking groups, so           *)
(* set_attribute_value raises there.  Every sequence of attribute writes  *)
(* is explored.                                                            *)
(***************************************************************************)
EXTENDS Rooms, TLC

CONSTANTS r1, r2, r3, r4, l1, l2, admin, owner, member, plain, g1, g2, e1, t1

MCRooms == {r1, r2, r3, r4}
Row(l, act, resv, conf, cap, eq) ==
    [location |-> l, owner |-> owner, is_active |-> act, is_reservable |-> resv,
     reservations_need_confirmation |-> conf, capacity |-> cap, equipment |-> eq]
MCRoomRow ==
    (r1 :> Row(l1, TRUE, TRUE, TRUE, 10, {e1})) @@ (r2 :> Row(l1, TRUE, TRUE, FALSE, 20, {}))
    @@ (r3 :> Row(l2, TRUE, FALSE, FALSE, 8, {e1})) @@ (r4 :> Row(l2, FALSE, TRUE, FALSE, 12, {}))
MCLocationAttrs == (l1 :> AttrNames) @@ (l2 :> {"manager-group"})
MCUsers == {admin, owner, member, plain}
MCMembers == (g1 :> {member}) @@ (g2 :> {member, plain})
\* the details text t1 is in a column of r2; g1 is also typed as a text
MCColumnHits == (t1 :> {r2}) @@ (g1 :> {})
\* searches restricted to public rooms, with every other filter on or off
MCSearchForms ==
    [location : {NoLocation, l1}, capacity : {0, 10}, is_only_public : {TRUE},
     is_auto_confirm : BOOLEAN, is_only_active : BOOLEAN, is_only_my_rooms : BOOLEAN,
     equipment : {{}, {e1}}, available : {-1, 1}, details : {"", g1}]

=============================================================================
