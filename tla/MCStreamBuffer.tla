--------------------------- MODULE MCStreamBuffer ---------------------------
(***************************************************************************)
(* Two byte values tell every cell from its neighbours; five cells let the *)
(* ring double from 1 to 4, hit the bound at 5 (2 * 4 > 5), and wrap.      *)
(***************************************************************************)
EXTENDS StreamBuffer

MCBytes == {"a", "b"}
=============================================================================
