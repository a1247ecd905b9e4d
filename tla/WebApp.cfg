CONSTANTS
    Pages = {"view", "sidebar", "import", "session", "sharing", "tour", "draft", "contents", "channel", "finder"}
    MaxActs = 3
    TourActs = 6
    TourBusy = 1
    DraftActs = 5
    DraftBusy = 1
    Me = "me"
    People = {"me", "you", "guest"}
    Guests = {"guest"}
    FirstRoles <- ShareRoles
    Rules <- ShareRules
    SharingActs = 3
    Crowd = 1
SPECIFICATION Spec
INVARIANTS
    FilterIsMine
    NewCardShown
    GroupsAddUp
    SidebarKept
    ImportKept
    SessionKept
    SharingKept
    TourKept
    DraftsKept
    ContentsKept
    BoardsFound
CHECK_DEADLOCK FALSE
