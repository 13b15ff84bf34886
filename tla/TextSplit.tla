----------------------------- MODULE TextSplit ------------------------------
(***************************************************************************)
(* How CapabilityToken::from_string takes a text apart, character by       *)
(* character: the tag before the first "%FRAME%", trimmed, and the pieces  *)
(* that util::splitString cuts the rest into.  TokenText speaks of texts   *)
(* already in pieces; this module shows when that is right.  Positions     *)
(* count from zero, as those of the code do.                               *)
(***************************************************************************)
EXTENDS Integers, SequencesExt

CONSTANTS
  Char,      \* the characters
  White,     \* the characters that trim removes
  Printed,   \* what the texts were printed from: a tag and frames
  SizeBits   \* the width of std::string::size_type

Mark == <<"%", "F", "R", "A", "M", "E", "%">>

(* The largest size.                                                       *)
npos == 2^SizeBits - 1

(* to_string(true) *)
Joined(frames) == FlattenSeq([i \in DOMAIN frames |-> Mark \o frames[i]])
TextOf(p) == p.tag \o Joined(p.frames)

(* Sizes have room for any text.                                           *)
ASSUME SplitAssumption ==
  /\ Mark \in Seq(Char)
  /\ Printed \subseteq [tag : Seq(Char), frames : Seq(Seq(Char))]
  /\ npos \in Nat /\ Len(Mark) < npos
  /\ \A p \in Printed : Len(TextOf(p)) < npos

VARIABLES
  printed,    \* history: what the text was printed from
  text,       \* the text that from_string is given
  calc_tag,   \* the argument of from_string
  tag,        \* the tag set, empty if it is not taken from the text
  content,    \* the argument of splitString
  prev_pos, next_pos,   \* its two iterators
  str_frames, \* its result
  pc          \* what is to be done next, or how the call ended

vars ==
  <<printed, text, calc_tag, tag, content, prev_pos, next_pos, str_frames, pc>>

-----------------------------------------------------------------------------
(* std::search for Mark: the first place at or after from, or the end. *)
search(s, from) ==
  LET hits == {p \in from .. Len(s) - Len(Mark) :
                 SubSeq(s, p + 1, p + Len(Mark)) = Mark}
  IN  Min(hits \cup {Len(s)})

(* std::string::find *)
find(s) == IF search(s, 0) = Len(s) THEN npos ELSE search(s, 0)

(* ltrim(rtrim(s)): if nothing is kept, erase takes the whole text. *)
trim(s) ==
  LET kept == {i \in DOMAIN s : s[i] \notin White}
  IN  IF kept = {} THEN <<>> ELSE SubSeq(s, Min(kept), Max(kept))

-----------------------------------------------------------------------------
Init ==
  /\ printed \in Printed
  /\ text = TextOf(printed)
  /\ calc_tag \in BOOLEAN
  /\ tag = <<>>
  /\ content = <<>>
  /\ prev_pos = 0
  /\ next_pos = 0
  /\ str_frames = <<>>
  /\ pc = "tag"

(* substr(0, npos) is the whole text. *)
TakeTag ==
  /\ pc = "tag"
  /\ tag' = IF calc_tag THEN tag
            ELSE trim(SubSeq(text, 1, Min({find(text), Len(text)})))
  /\ pc' = "body"
  /\ UNCHANGED <<printed, text, calc_tag, content, prev_pos, next_pos,
                 str_frames>>

(* Mutant of BodyStart: a sum that does not wrap around.                   *)
NoWrap == find(text) + 7

(* find("%FRAME%") + 7 wraps around when there is no mark. *)
BodyStart == (find(text) + 7) % (npos + 1)

(* substr throws if it is to start behind the end. *)
TakeBody ==
  /\ pc = "body"
  /\ IF BodyStart > Len(text)
     THEN pc' = "out_of_range" /\ UNCHANGED <<content, prev_pos, next_pos>>
     ELSE /\ content' = SubSeq(text, BodyStart + 1, Len(text))
          /\ prev_pos' = 0
          /\ next_pos' = search(content', 0)
          /\ pc' = "loop"
  /\ UNCHANGED <<printed, text, calc_tag, tag, str_frames>>

(* Mutant of AfterMark: one character of the mark is left.                 *)
LastOfMark(pos) == pos + Len(Mark) - 1

AfterMark(pos) == pos + Len(Mark)

(* Mutants of Cut: the search goes on where it did before, or one          *)
(* character too far.                                                      *)
SearchFromOld ==
  /\ pc = "loop"
  /\ next_pos # Len(content)
  /\ str_frames' = Append(str_frames, SubSeq(content, prev_pos + 1, next_pos))
  /\ prev_pos' = AfterMark(next_pos)
  /\ next_pos' = search(content, prev_pos)
  /\ UNCHANGED <<printed, text, calc_tag, tag, content, pc>>

SearchFromNext ==
  /\ pc = "loop"
  /\ next_pos # Len(content)
  /\ str_frames' = Append(str_frames, SubSeq(content, prev_pos + 1, next_pos))
  /\ prev_pos' = AfterMark(next_pos)
  /\ next_pos' = search(content, prev_pos' + 1)
  /\ UNCHANGED <<printed, text, calc_tag, tag, content, pc>>

(* One turn of the loop of splitString. *)
Cut ==
  /\ pc = "loop"
  /\ next_pos # Len(content)
  /\ str_frames' = Append(str_frames, SubSeq(content, prev_pos + 1, next_pos))
  /\ prev_pos' = AfterMark(next_pos)
  /\ next_pos' = search(content, prev_pos')
  /\ UNCHANGED <<printed, text, calc_tag, tag, content, pc>>

(* Mutants of LastPiece: the rest is always a piece, or never one.         *)
NoLastPiece ==
  /\ pc = "loop"
  /\ next_pos = Len(content)
  /\ pc' = "request"
  /\ UNCHANGED <<printed, text, calc_tag, tag, content, prev_pos, next_pos,
                 str_frames>>

AlwaysLastPiece ==
  /\ pc = "loop"
  /\ next_pos = Len(content)
  /\ str_frames' =
       Append(str_frames, SubSeq(content, prev_pos + 1, Len(content)))
  /\ pc' = "request"
  /\ UNCHANGED <<printed, text, calc_tag, tag, content, prev_pos, next_pos>>

LastPiece ==
  /\ pc = "loop"
  /\ next_pos = Len(content)
  /\ str_frames' =
       IF prev_pos = Len(content) THEN str_frames
       ELSE Append(str_frames, SubSeq(content, prev_pos + 1, Len(content)))
  /\ pc' = "request"
  /\ UNCHANGED <<printed, text, calc_tag, tag, content, prev_pos, next_pos>>

(* str_frames[str_frames.size() - 1] of an empty vector is undefined. *)
FindRequest ==
  /\ pc = "request"
  /\ pc' = IF str_frames = <<>> THEN "undefined" ELSE "done"
  /\ UNCHANGED <<printed, text, calc_tag, tag, content, prev_pos, next_pos,
                 str_frames>>

Next == TakeTag \/ TakeBody \/ Cut \/ LastPiece \/ FindRequest

(* Sequential code: a call that can go on goes on. *)
Spec == Init /\ [][Next]_vars /\ WF_vars(Next)

-----------------------------------------------------------------------------
(***************************************************************************)
(* Properties.                                                             *)
(***************************************************************************)

(* Texts stay texts, and the iterators inside the content, in order. *)
TypeOK ==
  /\ printed \in Printed /\ text = TextOf(printed)
  /\ calc_tag \in BOOLEAN
  /\ tag \in Seq(Char) /\ content \in Seq(Char)
  /\ next_pos \in 0 .. Len(content) /\ prev_pos \in 0 .. next_pos
  /\ str_frames \in Seq(Seq(Char))
  /\ pc \in {"tag", "body", "loop", "request",
             "done", "out_of_range", "undefined"}

(* Nothing of the text is lost, doubled or moved by splitString, at any    *)
(* turn of its loop: the pieces cut so far, each with a mark behind it,    *)
(* and the rest are the content.                                           *)
PiecesRebuildContent ==
  pc = "loop" =>
    content = FlattenSeq([i \in DOMAIN str_frames |-> str_frames[i] \o Mark])
                \o SubSeq(content, prev_pos + 1, Len(content))

(* The first mark behind a piece is the one that was written behind it. *)
EndsAtMark(piece) == search(piece \o Mark, 0) = Len(piece)

Unmarked(piece) == search(piece, 0) = Len(piece)

(* A piece is cut at the first mark, and no mark is left inside of one.    *)
CutAtFirstMark ==
  \A i \in DOMAIN str_frames :
    /\ Unmarked(str_frames[i])
    /\ pc = "loop" => EndsAtMark(str_frames[i])

(* The texts that can be read: no mark in a frame, or put together by the  *)
(* end of a frame and the start of the mark behind it.                     *)
Separable(p) ==
  /\ EndsAtMark(p.tag)
  /\ \A i \in DOMAIN p.frames :
       IF i < Len(p.frames) THEN EndsAtMark(p.frames[i])
       ELSE Unmarked(p.frames[i])

(* splitString finds no empty last piece. *)
Pieces(frames) ==
  IF frames # <<>> /\ Last(frames) = <<>> THEN Front(frames) ELSE frames

(* A call that ends well has given back the tag, but for the white space   *)
(* around it, and the frames that were printed, but for an empty last one; *)
(* the text of any tag and frames that can be told apart is so read.       *)
ReadsBack ==
  pc = "done" /\ Separable(printed) /\ printed.frames # <<>> =>
    /\ str_frames = Pieces(printed.frames)
    /\ ~calc_tag => tag = trim(printed.tag)

(* Why they hold: the loop starts with no piece, and the second iterator   *)
(* is always at the first mark at or behind the first one.                 *)
AtNextMark ==
  /\ pc \in {"tag", "body"} => str_frames = <<>>
  /\ pc = "loop" => next_pos = search(content, prev_pos)

(* A text that can be told apart is taken apart in step with how it was    *)
(* put together: the pieces so far are the first of its frames, and they   *)
(* took up as much of the text, with a mark before each.                   *)
InStep ==
  Separable(printed) /\ printed.frames # <<>> =>
    LET frames == printed.frames
        sofar  == SubSeq(frames, 1, Len(str_frames))
    IN  /\ ~calc_tag /\ pc # "tag" => tag = trim(printed.tag)
        /\ pc \notin {"tag", "body"} => Mark \o content = Joined(frames)
        /\ pc \in {"tag", "body"} => str_frames = <<>>
        /\ pc = "loop" => /\ Len(str_frames) < Len(frames)
                          /\ str_frames = sofar
                          /\ prev_pos = Len(Joined(sofar))
        /\ pc \in {"request", "done"} => str_frames = Pieces(frames)
        /\ pc # "out_of_range"

(* A text without a mark, which no frame was printed into, has its tag     *)
(* taken for a frame: find gives npos, npos + 7 is 6, and what is behind   *)
(* the first six characters becomes the one piece.  A shorter text ends in *)
(* an exception, one of six characters in undefined behaviour.             *)
TagAlone ==
  Unmarked(text) =>
    /\ pc = "out_of_range" => Len(text) < 6
    /\ pc = "undefined" => Len(text) = 6
    /\ pc = "done" => /\ Len(text) > 6
                      /\ str_frames = <<SubSeq(text, 7, Len(text))>>

(* Why it holds: the loop starts at the seventh character, and its search  *)
(* finds the end.                                                          *)
AlonePiece == IF Len(text) = 6 THEN <<>> ELSE <<SubSeq(text, 7, Len(text))>>

TakenForFrame ==
  Unmarked(text) =>
    /\ pc \in {"tag", "body"} => str_frames = <<>>
    /\ pc = "loop" => /\ content = SubSeq(text, 7, Len(text))
                      /\ prev_pos = 0 /\ next_pos = Len(content)
                      /\ str_frames = <<>>
    /\ pc \in {"loop", "request"} => 6 <= Len(text)
    /\ pc = "request" => str_frames = AlonePiece
    /\ TagAlone

(* splitString comes to an end: if the text has a frame that is not empty, *)
(* the pieces are found, without an exception or an access outside of the  *)
(* vector on the way.  What Frame::from_string then does with a piece is   *)
(* said in TokenText and CapabilityToken.                                  *)
ComesToPieces ==
  (Pieces(printed.frames) # <<>>) ~> (pc = "done")
=============================================================================
