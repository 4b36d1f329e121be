---------------------------- MODULE MCImageLayout ----------------------------
(***************************************************************************)
(* Two objects in no, one, two or three chunks: the last one may be the    *)
(* one reserved for new components, and one before it may have lost all of *)
(* its own.                                                                *)
(***************************************************************************)
EXTENDS ImageLayout

SomeChunkings ==
    {<<>>, <<{"x", "y"}>>, <<{"x", "y"}, {}>>, <<{"x"}, {"y"}>>, <<{"x"}, {}, {"y"}>>,
     <<{"x"}, {"y"}, {}>>, <<{"x", "y"}, {}, {}>>, <<{}, {"x", "y"}, {}>>}
=============================================================================
