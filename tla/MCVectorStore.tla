---------------------------- MODULE MCVectorStore ----------------------------
(* An instance of VectorStore for TLC: vectors of dimensions 1 and 2.       *)
EXTENDS VectorStore, TLC

VectorsOfTwoDimensions == {<<0>>, <<2>>, <<1, 1>>}
QueryVectors == {<<1>>}
=============================================================================
