---------------------------- MODULE MCTextSplit -----------------------------
(* Values of the constants of TextSplit for TLC. *)
EXTENDS TextSplit

MCChar == {"a", "b", "c", "d", "e", "f", "t", "%", "F", "R", "A", "M", "E"}

(* No tag, a short one, one with white space around and inside, one of six *)
(* characters, and one that is longer than the mark.                       *)
MCTags ==
  { <<>>, <<"a">>, <<"t", "a", "t", "a", "t">>, <<"t">>,
    <<"a", "b", "c", "d", "e", "f">>,
    <<"a", "b", "c", "d", "e", "f", "a", "b">> }

(* Empty, plain, and with a part of a mark at the start or at the end, or   *)
(* a whole one, as the root frame of tests.cpp:202 has.                    *)
MCPieces ==
  { <<>>, <<"a">>, <<"b", "t">>, <<"%">>, <<"a">> \o Front(Mark), Tail(Mark),
    Mark \o <<"b">> }

MCPrinted ==
  [tag : MCTags, frames : UNION {[1 .. n -> MCPieces] : n \in 0 .. 3}]
=============================================================================
