--------------------------- MODULE MCMeshPipeline ---------------------------
(***************************************************************************)
(* The mesh pipeline over a small excerpt of the grid: a set of chunk      *)
(* coordinates, with the neighbours the code computes from them.           *)
(***************************************************************************)
EXTENDS MeshPipeline

MCLine   == {<<0, 0>>, <<1, 0>>, <<2, 0>>}
MCCorner == {<<0, 0>>, <<1, 0>>, <<1, 1>>}
MCPair   == {<<0, 0>>, <<1, 0>>}

\* The neighbour of a column by an offset, when it is in the excerpt.
At(c, offset) ==
  LET n == <<c[1] + offset[1], c[2] + offset[2]>>
  IN  IF n \in Columns THEN n ELSE Nowhere

Around(c, offsets) == [i \in 1 .. 4 |-> At(c, offsets[i])]

MCOrthogonal ==
  [c \in Columns |-> Around(c, <<<<1, 0>>, <<-1, 0>>, <<0, 1>>, <<0, -1>>>>)]

MCDiagonal ==
  [c \in Columns |-> Around(c, <<<<1, 1>>, <<1, -1>>, <<-1, 1>>, <<-1, -1>>>>)]
=============================================================================
