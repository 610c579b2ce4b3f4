SPECIFICATION WSpec
CONSTANTS
    Threads = {0, 7}
    Scratch = 0
    Users = {1, 2, 3}
    Self = 1
    MaxPosts = 2
    WatchedThread = 7
    WatchedPost = 1
    Limit = 1
    MaxLeft = 2
INVARIANTS
    OneLikePerPerson
    PostIdsTellOrder
PROPERTIES
    PostsWalkMissesNobody
    LikersWalkMissesOnePerUnlike
