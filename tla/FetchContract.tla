---------------------------- MODULE FetchContract ----------------------------
(***************************************************************************)
(* What a caller of the import may assume of the fetch of one layer: the   *)
(* contract between unencapsulate_base / import (lib/src/container/        *)
(* store.rs) and the machinery of LayerFetch.                              *)
(*                                                                         *)
(* The layer is stored at most once, as a whole or cut short, and possibly *)
(* after the caller gave up; the fetch ends once; and it ends well only    *)
(* with the whole layer stored.  ImageStore has all that this allows: its  *)
(* FetchLayer is Store of a whole layer and Succeed, its FetchFails and    *)
(* LateCommit are Fail with or without a Store, whole or cut.              *)
(***************************************************************************)
VARIABLES stored, outcome

contractVars == <<stored, outcome>>

Init == stored = "none" /\ outcome = "none"

Store ==
    /\ stored = "none"
    /\ stored' \in {"whole", "cut"}
    /\ UNCHANGED outcome

Succeed ==
    /\ outcome = "none"
    /\ stored = "whole"
    /\ outcome' = "ok"
    /\ UNCHANGED stored

Fail ==
    /\ outcome = "none"
    /\ outcome' = "err"
    /\ UNCHANGED stored

Next == Store \/ Succeed \/ Fail

Spec == Init /\ [][Next]_contractVars
=============================================================================
