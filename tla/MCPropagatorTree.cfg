\* The large tree with every outcome of every job.
CONSTANTS
    mk = mk  a = a  mv = mv  b = b  up = up  rm = rm
    upd = upd  new = new  ren = ren  chg = chg
    Items <- LargeItems
    Dirs <- LargeDirs
    Root = Root
    Subs = Subs
    Deletions = Deletions
    NoItem = NoItem
    Holder <- LargeHolder
    First <- LargeFirst
    Turn <- LargeTurn
    From <- LargeFrom
    Instr <- LargeInstr
    RemovedFrom <- LargeRemovedFrom
    Local <- TreeLocal
    Exclusive <- LargeExclusive
    Quick <- LargeQuick
    Uploads <- TreeUploads
    Chunked <- TreeUploads
    Requests <- LargeRequests
    Checked <- LargeChecked
    LostReplies <- None
    ParallelNetworkJobs = 3
    NetworkLimited = FALSE
    VfsMayLock = FALSE
    UserMayAbort = FALSE
SPECIFICATION Spec
INVARIANTS TypeOK EtagLast DeletionsLast SuccessIsTrue QuietEnd NeverDoneTwice
PROPERTIES FollowersWait KeepsPromise
