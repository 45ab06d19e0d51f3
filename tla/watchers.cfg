SPECIFICATION Spec
CONSTANTS
    post = post
    first = first
    second = second
    user = user
    p1 = p1
    p2 = p2
    Processes = {p1, p2}
    Number <- Numbered
    Total <- Two
    Accounts = {1, 2}
    ShardSize = 1
    Messages = {post, first, second}
    Sender <- SenderOf
    Inbox <- HeardBy
    None = None
    MaxSightings <- PostExpires
INVARIANT OneOwner
INVARIANT EverySightingIsAccounted
INVARIANT RaceHasAWinner
PROPERTY EmptyShardEnds
