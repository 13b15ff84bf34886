-------------------------- MODULE MCCapabilityToken -------------------------
(* Values of the constants of CapabilityToken for TLC. *)
EXTENDS CapabilityToken, TLC

RootFrame ==
  [kind |-> "frame",
   capabilities |-> << [resource |-> <<"home", "*">>, type |-> "device_cap",
                        cap_bits |-> {0, 1, 2}] >>,
   constraints |-> <<>>]

(* Two capabilities, bits with a hole, a user_cap and a constraint. *)
LogFrame ==
  [kind |-> "frame",
   capabilities |-> << [resource |-> <<"home", "log">>, type |-> "device_cap",
                        cap_bits |-> {0, 2}],
                       [resource |-> <<"home">>, type |-> "user_cap",
                        cap_bits |-> {1}] >>,
   constraints |-> << [function |-> "identity_constraint",
                       parameters |-> <<"alice">>] >>]

(* Frames that do not survive printing: without any piece, and without a   *)
(* capability.                                                             *)
EmptyFrame == [kind |-> "frame", capabilities |-> <<>>, constraints |-> <<>>]
ConstraintFrame == [LogFrame EXCEPT !.capabilities = <<>>]

PutRequest ==
  [kind |-> "request", capabilities |-> <<>>, constraints |-> <<>>,
   capability |-> [resource |-> <<"home", "log">>, type |-> "device_cap",
                   cap_bits |-> {1, 2}]]

MCFrames == {RootFrame, LogFrame}
MCEmptyFrames == {RootFrame, EmptyFrame}
MCOneFrame == {LogFrame}

(* What the text of a request alone and of a whole token look like. *)
MCPlainTexts ==
  { <<request_to_string(PutRequest)>>,
    <<frame_to_string(RootFrame), request_to_string(PutRequest)>> }

(* A text without any frame. *)
MCEmptyTexts == {<<>>}

(* A frame that only constrains, without the "$" that it is printed with.   *)
MCConstraintTexts ==
  { <<[frame_to_string(ConstraintFrame) EXCEPT !.lead = FALSE]>> }

(* A request, and two texts whose reading is undefined. *)
MCOddTexts ==
  { <<request_to_string(PutRequest)>>,
    <<>>, <<frame_to_string(ConstraintFrame)>> }

MCRequests == {PutRequest}

(* Holders run the same code. *)
HolderSymmetry == Permutations(Holder)

(* State constraint: histories of at most MaxAttested chains, tags of at    *)
(* most MaxFrames messages (set_request can prolong a tag forever), and    *)
(* nothing after a crash, which the other holders do not notice.           *)
CONSTANT MaxAttested
Bounded ==
  /\ Cardinality(attested) <= MaxAttested
  /\ \A h \in Holder : Len(token[h].tag.chain) <= MaxFrames
  /\ crashed = {}

(* State constraint: no step is taken once every object has been used      *)
(* otherwise than documented.                                              *)
OneOdd == \E h \in Holder : clean[h]
=============================================================================
