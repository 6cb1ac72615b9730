\* The limits of the scheduler and the inductive invariant, without directories, with aborts.
CONSTANTS
    mk = mk  a = a  mv = mv  b = b  up = up  rm = rm
    upd = upd  new = new  ren = ren  chg = chg
    Items <- FlatItems
    Dirs <- None
    Root = Root
    Subs = Subs
    Deletions = Deletions
    NoItem = NoItem
    Holder <- FlatHolder
    First <- Nothing
    Turn <- FlatTurn
    From <- FlatFrom
    Instr <- Nothing
    RemovedFrom <- Nothing
    Local <- None
    Exclusive <- None
    Quick <- FlatQuick
    Uploads <- TreeUploads
    Chunked <- TreeUploads
    Requests <- FlatRequests
    Checked <- TreeUploads
    LostReplies <- TreeUploads
    ParallelNetworkJobs = 3
    NetworkLimited = FALSE
    VfsMayLock = FALSE
    UserMayAbort = TRUE
SPECIFICATION Spec
INVARIANTS IInvEnds ParallelLimit TransferLimit
