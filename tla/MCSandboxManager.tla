-------------------------- MODULE MCSandboxManager --------------------------
(***************************************************************************)
(* SandboxManager for TLC.                                                 *)
(***************************************************************************)
EXTENDS SandboxManager, TLC

CONSTANTS i1, t1, t2, c1, c2

MCIdentifiers1 == {i1}
MCCallers2 == {t1, t2}
MCContainers2 == {c1, c2}

(* One ensures the sandbox that the other deletes or makes anew.           *)
MCCallsAll ==
  t1 :> {<<"Ensure", i1>>} @@ t2 :> {<<"Delete", i1>>, <<"Restart", i1>>}

(* Both ensure it.                                                         *)
MCCallsEnsure == [t \in MCCallers2 |-> {<<"Ensure", i1>>}]
=============================================================================
