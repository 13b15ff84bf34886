----------------------------- MODULE TokenText ------------------------------
(***************************************************************************)
(* The text a token travels as, the conversions to_string and from_string  *)
(* of its parts, and the message authentication codes over that text.      *)
(* Text is kept as the pieces the separators "+", "$" and "%FRAME%" cut it *)
(* into.  The two kinds of piece of a frame are kept apart: from_string    *)
(* files them into two vectors, so their mutual order is lost on reading.  *)
(***************************************************************************)
EXTENDS Capability

(* std::to_string of the enumeration, and the decimal number that three    *)
(* binary digits spell when atoi reads them.                               *)
TypeNumeral(type) ==
  CASE type = "device_cap" -> 0
    [] type = "user_cap"   -> 1
    [] type = "owner_cap"  -> 2

Digit(bits, i) == IF i \in bits THEN 1 ELSE 0
BitsNumeral(bits) ==
  100 * Digit(bits, 2) + 10 * Digit(bits, 1) + Digit(bits, 0)

Weight == [i \in 0 .. 2 |-> IF i = 0 THEN 1 ELSE IF i = 1 THEN 2 ELSE 4]

(* Mutant of BitsOfNumeral: positions counted from one.                    *)
BitsFromOne(n) == {i + 1 : i \in {j \in 0 .. 2 : (n \div Weight[j]) % 2 = 1}}

(* std::bitset<3>(int) keeps the three low bits of the number. *)
BitsOfNumeral(n) == {i \in 0 .. 2 : (n \div Weight[i]) % 2 = 1}

CapabilityText == [resource : Path, type : Nat, cap_bits : Nat]

(* A frame's text that starts with the separator "$" begins with an empty  *)
(* piece: lead.  It is what a frame with constraints only is printed as.   *)
FrameText ==
  [kind : {"frame"},
   lead : BOOLEAN,
   capabilities : Seq(CapabilityText),
   constraints  : Seq(Constraint)]

RequestText == [kind : {"request"}, resource : Path, cap_bits : Nat]

ElementText == FrameText \cup RequestText

NoText == [kind |-> "frame", lead |-> FALSE,
           capabilities |-> <<>>, constraints |-> <<>>]

-----------------------------------------------------------------------------
(***************************************************************************)
(* Printing.                                                               *)
(***************************************************************************)
cap_to_string(c) ==
  [resource |-> c.resource,
   type     |-> TypeNumeral(c.type),
   cap_bits |-> BitsNumeral(c.cap_bits)]

(* Mutant of frame_to_string: the constraints come first, each with the    *)
(* separator before it.                                                    *)
ConstraintsFirst(f) ==
  [kind |-> "frame",
   lead |-> f.constraints # <<>>,
   capabilities |-> [j \in DOMAIN f.capabilities |->
                       cap_to_string(f.capabilities[j])],
   constraints  |-> f.constraints]

frame_to_string(f) ==
  [kind |-> "frame",
   lead |-> f.capabilities = <<>> /\ f.constraints # <<>>,
   capabilities |-> [j \in DOMAIN f.capabilities |->
                       cap_to_string(f.capabilities[j])],
   constraints  |-> f.constraints]

(* The type of the capability is not printed. *)
request_to_string(r) ==
  [kind     |-> "request",
   resource |-> r.capability.resource,
   cap_bits |-> BitsNumeral(r.capability.cap_bits)]

(* Frame::to_string is virtual. *)
element_to_string(e) ==
  IF e.kind = "request" THEN request_to_string(e) ELSE frame_to_string(e)

body_to_string(body) == [i \in DOMAIN body |-> element_to_string(body[i])]

-----------------------------------------------------------------------------
(***************************************************************************)
(* Reading.  A type that is neither "0" nor "1" leaves the local variable  *)
(* uninitialised: residue is the value found there ("owner_cap" stands for *)
(* every value that is neither of the first two).                          *)
(***************************************************************************)
cap_from_string(t, residue) ==
  [resource |-> t.resource,
   type     |-> CASE t.type = 0 -> "device_cap"
                  [] t.type = 1 -> "user_cap"
                  [] OTHER      -> residue,
   cap_bits |-> BitsOfNumeral(t.cap_bits)]

(* Mutant of frame_from_string: the constraints are not kept.              *)
WithoutConstraints(t, residue) ==
  [kind |-> "frame",
   capabilities |-> [j \in DOMAIN t.capabilities |->
                       cap_from_string(t.capabilities[j], residue[j])],
   constraints  |-> <<>>]

(* Defined only for a text without an empty piece: reading one takes       *)
(* element 0 of an empty vector.  residue has one value per capability.    *)
frame_from_string(t, residue) ==
  [kind |-> "frame",
   capabilities |-> [j \in DOMAIN t.capabilities |->
                       cap_from_string(t.capabilities[j], residue[j])],
   constraints  |-> t.constraints]

request_from_string(t) ==
  [kind |-> "request",
   capabilities |-> <<>>,
   constraints  |-> <<>>,
   capability   |-> [resource |-> t.resource,
                     type     |-> "device_cap",
                     cap_bits |-> BitsOfNumeral(t.cap_bits)]]

(* splitString drops the last piece when it is empty: a token whose last   *)
(* frame prints as nothing is read back without that frame.                *)
str_frames(frames) ==
  IF frames # <<>> /\ frames[Len(frames)] = NoText
  THEN SubSeq(frames, 1, Len(frames) - 1)
  ELSE frames

-----------------------------------------------------------------------------
(***************************************************************************)
(* Tags.  HMAC(SHA-256) is taken as collision free: the code of a message  *)
(* under a key is the term that remembers both.  A tag is what it was      *)
(* first computed from (the SECRET, the empty tag of an object that never  *)
(* had one, or unrelated text) and the messages added since.               *)
(***************************************************************************)
Tag == [base : {"secret", "empty", "other"}, chain : Seq(ElementText)]

SECRET   == [base |-> "secret", chain |-> <<>>]
EmptyTag == [base |-> "empty",  chain |-> <<>>]
OtherTag == [base |-> "other",  chain |-> <<>>]

compute_mac(msg, key) == [key EXCEPT !.chain = Append(@, msg)]

(* The tag that the loop of is_valid_signature computes for a body. *)
SignatureOf(body) == [base |-> "secret", chain |-> body_to_string(body)]

(* Every message of a tag that comes from the SECRET was added to what is  *)
(* before it by one of the calls that the chains tell of.                  *)
PrefixesIn(tag, chains) ==
  tag.base = "secret" =>
    \A n \in 1 .. Len(tag.chain) : SubSeq(tag.chain, 1, n) \in chains

TokenString == [tag : Tag, frames : Seq(ElementText)]
=============================================================================
