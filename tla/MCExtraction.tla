---------------------------- MODULE MCExtraction ----------------------------
(***************************************************************************)
(* Extraction for TLC: every tree over five paths, one below another and   *)
(* one with a name that is passed over, with files of up to five bytes     *)
(* where an int64 ends at seven, so that sums overflow, and limits on both *)
(* sides of what the trees hold.                                           *)
(***************************************************************************)
EXTENDS Extraction

CONSTANTS Sizes

dotdot == "..\\x"
MCNames == {"a", "sub", "artifacts", dotdot}
MCDotDotNames == {dotdot}
MCPaths == {<<"a">>, <<"sub">>, <<"sub", "a">>, <<"artifacts">>, <<dotdot>>}
Plain ==
  [kind : {"file"}, size : Sizes] \cup [kind : {"dir", "other"}, size : {0}]
Small == [kind : {"file", "link"}, size : {2}]
MCTrees ==
  {t \in UNION {[D -> Plain \cup Small] : D \in SUBSET MCPaths} :
     /\ IsTree(t)
     /\ <<dotdot>> \in DOMAIN t => t[<<dotdot>>] \in Small}

Limit(total, files, file) ==
  [maxTotalBytes |-> total, maxFiles |-> files, maxFileBytes |-> file]
MCLimits ==
  {Limit(0, 0, -1), Limit(4, 0, 3), Limit(4, 0, 2), Limit(4, 0, 0),
   Limit(7, 3, 5), Limit(0, 2, 0)}
=============================================================================
