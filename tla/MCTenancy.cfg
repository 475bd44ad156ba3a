CONSTANTS
    Handlers = {h1, h2}
    Domains = {d1, d2}
    Installations = {i1, i2}
    Webhooks = {x1}
    MaxWs = 2
    MaxQuota = 2
    MaxReqs = 5
    NoOne = NoOne
    NoDomain = NoDomain
    ann = ann
    ben = ben
    here = here
    there = there
    inside = inside
    outside = outside
    lobby = lobby
    yard = yard
    People <- MCPeople
    Places <- MCPlaces
    Owner <- MCOwner
    ZoneOf <- MCZoneOf
    Codes = {"workspace_owner", "workspace_member"}
    Permissions <- MCPermissions
    SystemRoles <- MCSystemRoles
    PermitRequests = {p1, p2}
    PermitAsks <- MCAsks
    Nobody = Nobody
    Tickets = {t1}
    MaxPermits = 4
    ApiTokens = {k1}
    Incoming = {n1}
    Rooms <- MCRooms
    RoomOf <- MCRoomOf
    Programs = {g1}
    Persons = {o1, o2}
    Devices = {v1}
    PresenceSockets = {s1, s2}
    MaxBeats = 4
    MaxZoneMoves = 1
    NoRoom = NoRoom
    ron = ron
    zoe = zoe
    kim = kim
    post = post
    Readers = {ron, zoe, kim}
    Posts = {post}
    AuthorOf <- MCAuthorOf
    MentionsOf <- MCMentionsOf
    MaxNotices = 2
SPECIFICATION MCSpec
SYMMETRY Symmetry
INVARIANTS ZoneConsistent 
PROPERTIES QuotaHolds
CHECK_DEADLOCK FALSE
