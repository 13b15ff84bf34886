--------------------------- MODULE MCSharedFrames ---------------------------
(* Values of the constants of SharedFrames for TLC. *)
EXTENDS SharedFrames, TLC

(* One capability; a constraint, which also reads as a frame's last piece. *)
CapabilityPiece ==
  [kind |-> "frame", lead |-> FALSE, constraints |-> <<>>,
   capabilities |-> << [resource |-> <<"home">>, type |-> 0,
                        cap_bits |-> 101] >>]
ConstraintPiece ==
  [kind |-> "frame", lead |-> FALSE, capabilities |-> <<>>,
   constraints |-> << [function |-> "identity_constraint",
                       parameters |-> <<"alice">>] >>]

MCPieceTexts == {CapabilityPiece, ConstraintPiece}

(* Addresses are interchangeable, and so are objects. *)
Interchangeable == Permutations(Address) \cup Permutations(Holder)

(* State constraint: tags of at most MaxFrames messages (set_body_frames   *)
(* and add_frame in turn prolong one forever), a few attested chains, and  *)
(* no step once every object was given its body by set_body_frames.        *)
CONSTANT MaxAttested
Bounded ==
  /\ Cardinality(attested) <= MaxAttested
  /\ \A h \in Holder : Len(tag[h].chain) <= MaxFrames
  /\ \E h \in Holder : written[h] # NULL
=============================================================================
