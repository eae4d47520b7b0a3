------------------------------- MODULE Rooms -------------------------------
(***************************************************************************)
(* The room catalogue of src/indico/modules/rb/models/rooms.py: the rooms *)
(* of the locations, their two access attributes ("allowed-booking-group" *)
(* and "manager-group", RoomAttributeAssociation rows written by          *)
(* Room.set_attribute_value), and what is read from them: the label the   *)
(* room list shows (kind, is_public), ownership (is_owned_by), the       *)
(* booking permission (_can_be_booked) and the room search               *)
(* (find_with_filters).                                                   *)
(*                                                                         *)
(* The Room columns are constant (room edits are outside these sources);  *)
(* the attribute rows are the state, changed by set_attribute_value.      *)
(***************************************************************************)
EXTENDS Integers, FiniteSets

CONSTANTS
    Rooms,          \* Room.id
    RoomRow,        \* the Room columns of each room
    Locations,      \* Location.id
    LocationAttrs,  \* the attribute names each location supports
    Users,
    RBAdmins,       \* users for which avatar.isRBAdmin() holds
    Groups,         \* group names an attribute may hold
    Members,        \* avatar.is_member_of_group(g)
    Equipment,      \* EquipmentType ids
    Texts,          \* non-empty texts of the "details" search field
    ColumnHits,     \* rooms whose name, site, ... or comments contain a text
    SearchForms,    \* the search forms users submit
    FreeRooms       \* the rooms Room.filter_available admits for their period

AttrNames == {"allowed-booking-group", "manager-group"}
NoAttr == "none"    \* no RoomAttributeAssociation row of that name

ASSUME /\ RoomRow \in [Rooms -> [location : Locations, owner : Users,
                                 is_active : BOOLEAN, is_reservable : BOOLEAN,
                                 reservations_need_confirmation : BOOLEAN,
                                 capacity : Nat, equipment : SUBSET Equipment]]
       /\ LocationAttrs \in [Locations -> SUBSET AttrNames]
       /\ RBAdmins \subseteq Users /\ Members \in [Groups -> SUBSET Users]
       /\ NoAttr \notin Groups /\ "" \notin Texts
       /\ ColumnHits \in [Texts -> SUBSET Rooms]
       /\ FreeRooms \subseteq Rooms

VARIABLES
    attrs,   \* the attribute rows: attrs[rm][name] is a value or NoAttr
    error    \* how the last set_attribute_value call ended

roomVars == <<attrs, error>>

-----------------------------------------------------------------------------
(* Room.get_attribute_by_name / has_attribute / get_attribute_value *)
HasAttribute(rm, name) == attrs[rm][name] # NoAttr
GetAttributeValue(rm, name) == attrs[rm][name]

(* Room.has_booking_groups, is_public and kind; the last branch of kind   *)
(* ('') is unreachable, as a room that is not reservable is private.      *)
HasBookingGroups(rm) == HasAttribute(rm, "allowed-booking-group")
IsPublic(rm) == RoomRow[rm].is_reservable /\ ~HasBookingGroups(rm)
Kind(rm) ==
    CASE ~RoomRow[rm].is_reservable \/ HasBookingGroups(rm) -> "privateRoom"
      [] RoomRow[rm].reservations_need_confirmation         -> "moderatedRoom"
      [] OTHER                                               -> "basicRoom"

(* Room.is_auto_confirm *)
IsAutoConfirm(rm) == ~RoomRow[rm].reservations_need_confirmation

(* Room.is_owned_by: the owner, or a member of the manager group.  The    *)
(* legacy branch for a room without owner_id is unreachable: the column  *)
(* is not nullable.                                                       *)
IsOwnedBy(rm, u) ==
    \/ RoomRow[rm].owner = u
    \/ HasAttribute(rm, "manager-group") /\ u \in Members[GetAttributeValue(rm, "manager-group")]

(* Room._can_be_booked (rb_check_user_access admits every user here), and *)
(* can_be_booked / can_be_prebooked.                                      *)
CanBeBookedRoom(rm, u, prebook, ignore_admin) ==
    LET row == RoomRow[rm]
        group == GetAttributeValue(rm, "allowed-booking-group")
    IN  \/ ~ignore_admin /\ u \in RBAdmins
        \/ IsOwnedBy(rm, u) /\ row.is_active
        \/ /\ row.is_active /\ row.is_reservable
           /\ prebook \/ ~row.reservations_need_confirmation
           /\ group = NoAttr \/ u \in Members[group]
CanBookRoom(rm, u) == CanBeBookedRoom(rm, u, FALSE, FALSE)
CanPrebookRoom(rm, u) == CanBeBookedRoom(rm, u, TRUE, FALSE)

-----------------------------------------------------------------------------
(* The search form of find_with_filters: location (none: any), capacity   *)
(* (0: none), the flags, the requested equipment, available (-1: any,     *)
(* 0: booked, 1: free) and the details text ("": none).                   *)
NoLocation == "any"
Filters == [location : Locations \cup {NoLocation}, capacity : Nat,
            is_only_public : BOOLEAN, is_auto_confirm : BOOLEAN,
            is_only_active : BOOLEAN, is_only_my_rooms : BOOLEAN,
            equipment : SUBSET Equipment, available : {-1, 0, 1},
            details : Texts \cup {""}]

(* The details text matches a column (ColumnHits) or the value of one of   *)
(* the room's attributes.                                                  *)
DetailsMatch(rm, t) == rm \in ColumnHits[t] \/ \E n \in AttrNames : attrs[rm][n] = t

(* The SQL part of find_with_filters.  The capacity bound c * 0.8 is a     *)
(* double; for integer capacities it orders like the exact 4c/5.  free is  *)
(* the set of rooms Room.filter_available admits for the form's period.   *)
QueryRooms(f, free) ==
    {rm \in Rooms :
        LET row == RoomRow[rm] IN
        /\ f.location = NoLocation \/ row.location = f.location
        /\ f.capacity = 0 \/ 5 * row.capacity >= 4 * f.capacity
        /\ f.is_only_public => row.is_reservable
        /\ f.is_auto_confirm => IsAutoConfirm(rm)
        /\ f.is_only_active => row.is_active
        /\ f.equipment \subseteq row.equipment
        /\ f.available = 1 => rm \in free
        /\ f.available = 0 => rm \notin free
        /\ f.details # "" => DetailsMatch(rm, f.details)}

(* Mutation: the search trusts the SQL is_reservable filter for public rooms *)
FindWithFiltersNoPublic(f, u, free) ==
    LET mine == IF f.is_only_my_rooms THEN {rm \in QueryRooms(f, free) : IsOwnedBy(rm, u)}
                ELSE QueryRooms(f, free)
        fitting == {rm \in mine : 5 * RoomRow[rm].capacity <= 6 * f.capacity}
    IN  IF f.capacity # 0 /\ fitting # {} THEN fitting ELSE mine

(* Room.find_with_filters: the query, then the public and my-rooms filters *)
(* in Python, then the rooms of at most 120% of the capacity, unless none  *)
(* is left.  The result is ordered by capacity; the model keeps the set.   *)
FindWithFilters(f, u, free) ==
    LET rooms == QueryRooms(f, free)
        public == IF f.is_only_public THEN {rm \in rooms : IsPublic(rm)} ELSE rooms
        mine == IF f.is_only_my_rooms THEN {rm \in public : IsOwnedBy(rm, u)} ELSE public
        fitting == {rm \in mine : 5 * RoomRow[rm].capacity <= 6 * f.capacity}
    IN  IF f.capacity # 0 /\ fitting # {} THEN fitting ELSE mine

-----------------------------------------------------------------------------
RoomsInit ==
    /\ attrs = [rm \in Rooms |-> [n \in AttrNames |-> NoAttr]]
    /\ error = "none"

(* Room.set_attribute_value(name, value); value "" is a falsy value.  An  *)
(* existing row is updated, or deleted for a falsy value; a new row needs  *)
(* the location to support the attribute, else ValueError is raised and   *)
(* nothing is written.                                                     *)
SetAttributeValue(rm, name, value) ==
    IF HasAttribute(rm, name)
    THEN /\ attrs' = [attrs EXCEPT ![rm][name] = IF value # "" THEN value ELSE NoAttr]
         /\ error' = "none"
    ELSE IF value = "" \/ name \in LocationAttrs[RoomRow[rm].location]
         THEN /\ attrs' = [attrs EXCEPT ![rm][name] = IF value # "" THEN value ELSE NoAttr]
              /\ error' = "none"
         ELSE /\ error' = "ValueError"
              /\ UNCHANGED attrs

RoomsNext ==
    \E rm \in Rooms, name \in AttrNames, value \in Groups \cup {""} :
        SetAttributeValue(rm, name, value)

RoomsSpec == RoomsInit /\ [][RoomsNext]_roomVars

-----------------------------------------------------------------------------
(* Every active room that a search restricted to public rooms lists, with *)
(* any other filters, accepts a pre-booking from every user: the SQL       *)
(* is_reservable filter of find_with_filters and its Python is_public      *)
(* filter together keep out the rooms of an allowed booking group.         *)
PublicSearchBookable ==
    \A f \in SearchForms, u \in Users :
        f.is_only_public =>
            \A rm \in FindWithFilters(f, u, FreeRooms) :
                RoomRow[rm].is_active => \A v \in Users : CanPrebookRoom(rm, v)

====
