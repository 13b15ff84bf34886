------------------------------ MODULE MCCaplets -----------------------------
(* Values of the constants of Caplets for TLC. *)
EXTENDS Caplets, FiniteSets

Device(bits) ==
  [resource |-> <<"home">>, type |-> "device_cap", cap_bits |-> bits]

(* A frame that lets alice read. *)
AliceFrame ==
  [kind |-> "frame", capabilities |-> <<Device({0})>>,
   constraints |-> << [function   |-> "identity_constraint",
                       parameters |-> <<"alice">>] >>]

RequestFor(bits) ==
  [kind |-> "request", capabilities |-> <<>>, constraints |-> <<>>,
   capability |-> Device(bits)]

(* Two tokens, as main reads them: one asks for what the frame grants, the *)
(* other for more.                                                         *)
MCTokenTexts ==
  { <<frame_to_string(AliceFrame), request_to_string(RequestFor(bits))>> :
      bits \in {{0}, {1}} }

MCOperations == {{0}}

(* State constraint: histories of at most so many chains, and at most so   *)
(* many texts of both kinds together.                                      *)
CONSTANTS MaxAttested, MaxComposed, MaxCirculating
Bounded ==
  /\ Cardinality(attested) <= MaxAttested
  /\ Cardinality(composed) <= MaxComposed
  /\ Cardinality(wire) + Cardinality(id_wire) <= MaxCirculating
=============================================================================
