\* Liveness on the small tree, with and without an abort by the user.
CONSTANTS
    mk = mk  a = a  mv = mv  b = b  up = up  rm = rm
    upd = upd  new = new  ren = ren  chg = chg
    Items <- LiveItems
    Dirs <- SmallDirs
    Root = Root
    Subs = Subs
    Deletions = Deletions
    NoItem = NoItem
    Holder <- LiveHolder
    First <- SmallFirst
    Turn <- LiveTurn
    From <- SmallFrom
    Instr <- SmallInstr
    RemovedFrom <- Nothing
    Local <- None
    Exclusive <- SmallExclusive
    Quick <- SmallQuick
    Uploads <- TreeUploads
    Chunked <- TreeUploads
    Requests <- LiveRequests
    Checked <- SmallChecked
    LostReplies <- None
    ParallelNetworkJobs = 3
    NetworkLimited = FALSE
    VfsMayLock = TRUE
    UserMayAbort = TRUE
SPECIFICATION FairSpec
PROPERTY Terminates
