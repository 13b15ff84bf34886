--------------------------- MODULE TokenTextProofs --------------------------
(***************************************************************************)
(* Facts about the comparisons of Capability and the conversions of        *)
(* TokenText, for every value of the constants.                            *)
(***************************************************************************)
EXTENDS TokenText, TLAPS

(* Printing three bits as binary digits and reading them back as a decimal *)
(* number whose low bits are kept, as to_string and from_string do, is the *)
(* identity.                                                               *)
THEOREM BitsRoundTrip ==
  ASSUME NEW b \in Bits
  PROVE  BitsOfNumeral(BitsNumeral(b)) = b
<1> DEFINE n == BitsNumeral(b)
<1>1. \A i \in 0 .. 2 : Digit(b, i) \in {0, 1} /\ (Digit(b, i) = 1 <=> i \in b)
  BY DEF Digit
<1>2. n = 100 * Digit(b, 2) + 10 * Digit(b, 1) + Digit(b, 0)
  BY DEF BitsNumeral
<1>3. /\ (n \div 1) % 2 = Digit(b, 0)
      /\ (n \div 2) % 2 = Digit(b, 1)
      /\ (n \div 4) % 2 = Digit(b, 2)
  <2>1. \A x, y, z \in {0, 1} :
          LET m == 100 * z + 10 * y + x
          IN  (m \div 1) % 2 = x /\ (m \div 2) % 2 = y /\ (m \div 4) % 2 = z
    OBVIOUS
  <2> QED  BY <1>1, <1>2, <2>1
<1>4. /\ Weight[0] = 1 /\ Weight[1] = 2 /\ Weight[2] = 4
  BY DEF Weight
<1>5. \A i \in 0 .. 2 : (n \div Weight[i]) % 2 = 1 <=> i \in b
  <2>1. 0 .. 2 = {0, 1, 2}
    OBVIOUS
  <2> HIDE DEF n
  <2> QED  BY <1>1, <1>3, <1>4, <2>1
<1>6. b \subseteq 0 .. 2
  BY DEF Bits
<1> QED  BY <1>5, <1>6 DEF BitsOfNumeral

(* The text of an element has the type of texts. *)
LEMMA ElementTextType ==
  ASSUME NEW e \in Element
  PROVE  element_to_string(e) \in ElementText
<1>1. \A b \in Bits : BitsNumeral(b) \in Nat
  BY DEF BitsNumeral, Digit
<1>2. \A c \in CapabilityStructure : cap_to_string(c) \in CapabilityText
  BY <1>1 DEF cap_to_string, CapabilityText, CapabilityStructure, TypeNumeral,
              CapabilityType
<1>3. CASE e.kind = "request"
  <2>1. e \in Request
    BY <1>3 DEF Element, Frame
  <2>2. request_to_string(e) \in RequestText
    BY <1>1, <2>1 DEF Request, CapabilityStructure, request_to_string, RequestText
  <2> QED  BY <1>3, <2>2 DEF element_to_string, ElementText
<1>4. CASE e.kind # "request"
  <2>1. e \in Frame
    BY <1>4 DEF Element, Request
  <2>2. [j \in DOMAIN e.capabilities |-> cap_to_string(e.capabilities[j])]
          \in Seq(CapabilityText)
    BY <1>2, <2>1 DEF Frame
  <2>3. frame_to_string(e) \in FrameText
    BY <2>1, <2>2 DEF frame_to_string, FrameText, Frame
  <2> QED  BY <1>4, <2>3 DEF element_to_string, ElementText
<1> QED  BY <1>3, <1>4

(* A body is printed element by element. *)
LEMMA BodyTextType ==
  ASSUME NEW body \in Seq(Element)
  PROVE  /\ body_to_string(body) \in Seq(ElementText)
         /\ Len(body_to_string(body)) = Len(body)
         /\ \A i \in 1 .. Len(body) :
              body_to_string(body)[i] = element_to_string(body[i])
  BY ElementTextType DEF body_to_string

(* What is read from a text has the type of elements. *)
LEMMA ReadCapabilityType ==
  ASSUME NEW t \in CapabilityText, NEW residue \in CapabilityType
  PROVE  cap_from_string(t, residue) \in CapabilityStructure
<1>1. BitsOfNumeral(t.cap_bits) \in Bits
  BY DEF BitsOfNumeral, Bits
<1>2. (CASE t.type = 0 -> "device_cap"
         [] t.type = 1 -> "user_cap"
         [] OTHER      -> residue) \in CapabilityType
  BY DEF CapabilityType
<1> QED  BY <1>1, <1>2 DEF cap_from_string, CapabilityText, CapabilityStructure

LEMMA ReadFrameType ==
  ASSUME NEW t \in FrameText,
         NEW residue \in [DOMAIN t.capabilities -> CapabilityType]
  PROVE  frame_from_string(t, residue) \in Element
<1>1. t.capabilities \in Seq(CapabilityText) /\ t.constraints \in Seq(Constraint)
  BY DEF FrameText
<1>2. [j \in DOMAIN t.capabilities |->
         cap_from_string(t.capabilities[j], residue[j])]
        \in Seq(CapabilityStructure)
  BY <1>1, ReadCapabilityType
<1> QED  BY <1>1, <1>2 DEF frame_from_string, Frame, Element

LEMMA ReadRequestType ==
  ASSUME NEW t \in RequestText
  PROVE  request_from_string(t) \in Request
<1>1. BitsOfNumeral(t.cap_bits) \in Bits
  BY DEF BitsOfNumeral, Bits
<1> QED  BY <1>1 DEF request_from_string, RequestText, Request,
                     CapabilityStructure, CapabilityType

LEMMA StrFramesType ==
  ASSUME NEW s \in Seq(ElementText)
  PROVE  str_frames(s) \in Seq(ElementText)
BY DEF str_frames

LEMMA SecretType == SECRET \in Tag
  BY DEF SECRET, Tag

LEMMA ComputeMacType ==
  ASSUME NEW msg \in ElementText, NEW key \in Tag
  PROVE  compute_mac(msg, key) \in Tag
  BY DEF compute_mac, Tag

LEMMA ComputeMacEffect ==
  ASSUME NEW msg \in ElementText, NEW key \in Tag
  PROVE  compute_mac(msg, key)
           = [base |-> key.base, chain |-> Append(key.chain, msg)]
<1>1. key = [base |-> key.base, chain |-> key.chain]
  BY DEF Tag
<1> DEFINE base   == key.base
           chain  == key.chain
           longer == Append(key.chain, msg)
<1>2. compute_mac(msg, key) = [key EXCEPT !.chain = longer]
  BY DEF compute_mac
<1> HIDE DEF base, chain, longer
<1>3. [[base |-> base, chain |-> chain] EXCEPT !.chain = longer]
        = [base |-> base, chain |-> longer]
  BY SMT
<1>4. compute_mac(msg, key) = [base |-> base, chain |-> longer]
  BY <1>1, <1>2, <1>3, Zenon DEF base, chain
<1> QED  BY <1>4 DEF base, longer

LEMMA TagTypes == EmptyTag \in Tag /\ OtherTag \in Tag
  BY DEF EmptyTag, OtherTag, Tag

LEMMA PrefixOfAppend ==
  ASSUME NEW s \in Seq(ElementText), NEW m \in ElementText,
         NEW n \in 1 .. Len(s) + 1
  PROVE  SubSeq(Append(s, m), 1, n)
           = IF n <= Len(s) THEN SubSeq(s, 1, n) ELSE Append(s, m)
<1>1. Len(Append(s, m)) = Len(s) + 1 /\ Append(s, m) \in Seq(ElementText)
  OBVIOUS
<1>2. CASE n <= Len(s)
  <2>1. SubSeq(Append(s, m), 1, n) = [k \in 1 .. n |-> Append(s, m)[k]]
    BY <1>1
  <2>2. SubSeq(s, 1, n) = [k \in 1 .. n |-> s[k]]
    BY <1>2
  <2>3. \A k \in 1 .. n : Append(s, m)[k] = s[k]
    BY <1>2
  <2> QED  BY <1>2, <2>1, <2>2, <2>3
<1>3. CASE n = Len(s) + 1
  BY <1>1, <1>3
<1> QED  BY <1>2, <1>3

LEMMA BareTags ==
  ASSUME NEW chains
  PROVE  /\ PrefixesIn(SECRET, chains)
         /\ PrefixesIn(EmptyTag, chains)
         /\ PrefixesIn(OtherTag, chains)
BY DEF PrefixesIn, SECRET, EmptyTag, OtherTag

LEMMA PrefixesMonotone ==
  ASSUME NEW tag, NEW chains, NEW more, chains \subseteq more,
         PrefixesIn(tag, chains)
  PROVE  PrefixesIn(tag, more)
BY DEF PrefixesIn

(* A code computed over a tag with attested prefixes has attested prefixes *)
(* as soon as its own chain is recorded.                                   *)
LEMMA ComputeMacPrefixes ==
  ASSUME NEW msg \in ElementText, NEW key \in Tag, NEW chains, NEW more,
         chains \subseteq more, PrefixesIn(key, chains),
         compute_mac(msg, key).base = "secret" =>
           compute_mac(msg, key).chain \in more
  PROVE  PrefixesIn(compute_mac(msg, key), more)
<1>1. /\ key.chain \in Seq(ElementText)
      /\ compute_mac(msg, key).base = key.base
      /\ compute_mac(msg, key).chain = Append(key.chain, msg)
  BY DEF compute_mac, Tag
<1> SUFFICES ASSUME key.base = "secret", NEW n \in 1 .. Len(key.chain) + 1
             PROVE  SubSeq(Append(key.chain, msg), 1, n) \in more
  BY <1>1 DEF PrefixesIn
<1>2. SubSeq(Append(key.chain, msg), 1, n)
        = IF n <= Len(key.chain) THEN SubSeq(key.chain, 1, n)
                                 ELSE Append(key.chain, msg)
  BY <1>1, PrefixOfAppend
<1>3. Append(key.chain, msg) \in more
  BY <1>1
<1>4. n <= Len(key.chain) => SubSeq(key.chain, 1, n) \in more
  BY <1>1 DEF PrefixesIn
<1> QED  BY <1>2, <1>3, <1>4

(* The comparison of paths carries over from the middle path to the less   *)
(* permissive one, provided that the middle path is as long as the more    *)
(* permissive one.                                                         *)
LEMMA PathTransitive ==
  ASSUME NEW a \in Path, NEW b \in Path, NEW c \in Path,
         is_path_subset_of_path(a, b),
         is_path_subset_of_path(b, c),
         Len(b) >= Len(c)
  PROVE  is_path_subset_of_path(a, c)
<1> SUFFICES ASSUME NEW i \in DOMAIN a, i \in DOMAIN c, c[i] # Star
             PROVE  a[i] = c[i]
  BY DEF is_path_subset_of_path
<1>1. i \in DOMAIN b
  BY DEF Path
<1>2. b[i] = c[i]
  BY <1>1 DEF is_path_subset_of_path
<1>3. a[i] = b[i]
  BY <1>1, <1>2 DEF is_path_subset_of_path
<1> QED  BY <1>2, <1>3

LEMMA GrantedByTransitive ==
  ASSUME NEW a \in CapabilityStructure, NEW b \in CapabilityStructure,
         NEW c \in CapabilityStructure,
         GrantedBy(a, b), GrantedBy(b, c), Len(b.resource) >= Len(c.resource)
  PROVE  GrantedBy(a, c)
<1>1. is_path_subset_of_path(a.resource, c.resource)
  BY PathTransitive DEF GrantedBy, CapabilityStructure
<1>2. is_cap_subset_of_cap(a, c)
  BY DEF GrantedBy, is_cap_subset_of_cap, is_cap_bits_valid
<1> QED  BY <1>1, <1>2 DEF GrantedBy
=============================================================================
