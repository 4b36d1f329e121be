----------------------------- MODULE MCTarFilter -----------------------------
(***************************************************************************)
(* Two files that stay, two that are moved, an excluded directory with a   *)
(* file, a file that may or may not be kept, and two objects.              *)
(***************************************************************************)
EXTENDS TarFilter

SomePaths ==
    {Path("usr", "a"), Path("usr", "b"), Path("etc", "a"), Path("var", "a"),
     Path("tmp", ""), Path("tmp", "a"), Path("boot", "a"),
     Path("repo", "a"), Path("repo", "b")}
=============================================================================
