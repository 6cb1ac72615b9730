---------------------------- MODULE MCPropagator ----------------------------
(***************************************************************************)
(* Trees for TLC.  The large one has one of everything: an empty new       *)
(* directory in a changed one, a renamed directory (its move is not        *)
(* parallel) with a changed directory in it, from which a folder is        *)
(* removed, and a chunked upload.                                          *)
(*                                                                         *)
(*   _subJobs:          upd(new(mk))  ren(mv; chg(b))  up                  *)
(*   _dirDeletionJobs:  rm                                                 *)
(*                                                                         *)
(* The wide one has a download in the new directory: upd(new(mk; a)).  The *)
(* small one, without the deletion for liveness, and for lost replies:     *)
(*                                                                         *)
(*   _subJobs:          upd(new(mk; a))  up         _dirDeletionJobs:  rm  *)
(*                                                                         *)
(* The flat one, for the limits, has no directories:                       *)
(*                                                                         *)
(*   _subJobs:          mk  b  up  a              _dirDeletionJobs:        *)
(***************************************************************************)
EXTENDS Propagator

CONSTANTS mk, a, mv, b, up, rm, upd, new, ren, chg

LargeItems == {mk, mv, b, up, rm}
LargeDirs  == {upd, new, ren, chg}
WideItems  == LargeItems \cup {a}
SmallItems == {mk, a, up, rm}
SmallDirs  == {upd, new}

TreeHolder(jobs) ==
    [j \in jobs |->
        CASE j \in {mk, a} -> new
          [] j = new -> upd
          [] j \in {mv, chg} -> ren
          [] j = b -> chg
          [] j \in {upd, ren, up} -> Subs
          [] j = rm -> Deletions]
TreeFirst(dirs) ==
    [d \in dirs |-> CASE d = new -> mk [] d = ren -> mv [] OTHER -> NoItem]
TreeTurn(jobs) ==
    [x \in jobs \cup {Subs, Deletions} |->
        CASE x = mk -> 1 [] x = a -> 2 [] x = new -> 3 [] x = upd -> 4
          [] x = mv -> 5 [] x = b -> 6 [] x = chg -> 7 [] x = ren -> 8
          [] x = up -> 9 [] x = Subs -> 10 [] x = rm -> 11 [] x = Deletions -> 12]
TreeFrom(dirs) ==
    [c \in dirs \cup {Subs, Deletions} |->
        CASE c \in {upd, new, Subs} -> 1 [] c = ren -> 5 [] c = chg -> 6
          [] c = Deletions -> 11]
TreeInstr(dirs) ==
    [d \in dirs |-> CASE d = new -> "NEW" [] d = ren -> "RENAME"
                      [] OTHER -> "UPDATE_METADATA"]

LargeHolder == TreeHolder(LargeItems \cup LargeDirs)
LargeFirst  == TreeFirst(LargeDirs)
LargeTurn   == TreeTurn(LargeItems \cup LargeDirs)
LargeFrom   == TreeFrom(LargeDirs)
LargeInstr  == TreeInstr(LargeDirs)
LargeRemovedFrom == [j \in {rm} |-> chg]
LargeExclusive == {mv}
LargeQuick == {mk, b}

WideHolder == TreeHolder(WideItems \cup LargeDirs)
WideTurn   == TreeTurn(WideItems \cup LargeDirs)
WideRequests == [i \in WideItems |-> 0]

SmallHolder == TreeHolder(SmallItems \cup SmallDirs)
SmallFirst  == TreeFirst(SmallDirs)
SmallTurn   == TreeTurn(SmallItems \cup SmallDirs)
SmallFrom   == TreeFrom(SmallDirs)
SmallInstr  == TreeInstr(SmallDirs)
SmallRemovedFrom == [j \in {rm} |-> Root]
SmallExclusive == {}
SmallQuick == {mk}

LiveItems  == SmallItems \ {rm}
LiveHolder == TreeHolder(LiveItems \cup SmallDirs)
LiveTurn   == TreeTurn(LiveItems \cup SmallDirs)
LiveRequests == [i \in LiveItems |-> CASE i = up -> 2 [] i = mk -> 1 [] OTHER -> 0]

FlatItems  == {mk, b, up, a}
FlatHolder == [j \in FlatItems |-> Subs]
FlatTurn   ==
    [x \in FlatItems \cup {Subs, Deletions} |->
        CASE x = mk -> 1 [] x = b -> 2 [] x = up -> 3 [] x = a -> 4
          [] x = Subs -> 5 [] x = Deletions -> 6]
FlatFrom   == [c \in {Subs, Deletions} |-> IF c = Subs THEN 1 ELSE 6]
FlatRequests == [i \in FlatItems |-> IF i = up THEN 3 ELSE 0]
FlatQuick  == {mk, b}

Nothing == [x \in {} |-> Root]
TreeLocal == {rm}
TreeUploads == {up}
LargeRequests == [i \in LargeItems |-> IF i = up THEN 3 ELSE 0]
LargeChecked == {b, up}
SmallRequests == [i \in SmallItems |-> CASE i = up -> 2 [] i = mk -> 1 [] OTHER -> 0]
SmallChecked == {a, up}
None == {}
=============================================================================
