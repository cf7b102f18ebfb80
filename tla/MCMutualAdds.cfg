SPECIFICATION FriendsSpec
CONSTANTS
    Spirits = {1, 2, 3}
    FriendIds = {1, 2, 3}
    EdgeIds = {11, 12}
    FriendHandlers = {h1, h2}
INVARIANTS MutualAddsAnswered
CHECK_DEADLOCK FALSE
