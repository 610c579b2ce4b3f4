SPECIFICATION FSpec
CONSTANTS
    Threads = {0, 7}
    Scratch = 0
    Users = {1, 2, 3}
    Self = 1
    MaxPosts = 2
INVARIANT
    AlreadyLikedMeansLiked
