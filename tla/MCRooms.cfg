CONSTANTS
    r1 = r1  r2 = r2  r3 = r3  r4 = r4  l1 = l1  l2 = l2
    admin = admin  owner = owner  member = member  plain = plain
    g1 = g1  g2 = g2  e1 = e1  t1 = t1
    Rooms <- MCRooms
    RoomRow <- MCRoomRow
    Locations = {l1, l2}
    LocationAttrs <- MCLocationAttrs
    Users <- MCUsers
    RBAdmins = {admin}
    Groups = {g1, g2}
    Members <- MCMembers
    Equipment = {e1}
    Texts = {t1, g1}
    ColumnHits <- MCColumnHits
    SearchForms <- MCSearchForms
    FreeRooms = {r1, r2, r4}
SPECIFICATION RoomsSpec
INVARIANT PublicSearchBookable
