------------------------ MODULE MCKubernetesManager -------------------------
(***************************************************************************)
(* KubernetesManager for TLC.                                              *)
(***************************************************************************)
EXTENDS KubernetesManager

CONSTANTS i1, t1, t2

MCIdentifiers == {i1}
MCCallers == {t1, t2}
=============================================================================
