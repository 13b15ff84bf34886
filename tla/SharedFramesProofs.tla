-------------------------- MODULE SharedFramesProofs -------------------------
(***************************************************************************)
(* SharedFrames, for any number of frames and objects and any texts read   *)
(* into frames: what holds although frames are shared and edited.          *)
(***************************************************************************)
EXTENDS SharedFrames, TokenTextProofs

LEMMA NullIsNoFrame == NULL \notin Frame /\ NULL \notin Seq(FrameText)
  BY FrameAssumption

LEMMA FrameElement == Frame \subseteq Element
  BY DEF Element

LEMMA FrameTextType ==
  ASSUME NEW f \in Frame
  PROVE  /\ frame_to_string(f) \in FrameText
         /\ frame_to_string(f) \in ElementText
         /\ element_to_string(f) = frame_to_string(f)
<1>1. f \in Element /\ f.kind = "frame"
  BY DEF Element, Frame
<1>2. element_to_string(f) = frame_to_string(f)
  BY <1>1 DEF element_to_string
<1>3. frame_to_string(f) \in ElementText /\ frame_to_string(f).kind = "frame"
  BY <1>1, <1>2, ElementTextType DEF frame_to_string
<1> QED  BY <1>2, <1>3 DEF ElementText, RequestText

(* A frame read into stays a frame.                                        *)
LEMMA AppendedType ==
  ASSUME NEW f \in Frame, NEW t \in FrameText,
         NEW residue \in [DOMAIN t.capabilities -> CapabilityType]
  PROVE  /\ appended(f, t, residue) \in Frame
         /\ appended(f, t, residue).capabilities
              = f.capabilities \o frame_from_string(t, residue).capabilities
         /\ appended(f, t, residue).constraints = f.constraints \o t.constraints
<1> DEFINE caps == f.capabilities \o frame_from_string(t, residue).capabilities
           cons == f.constraints \o t.constraints
<1>1. /\ f.kind = "frame" /\ f.capabilities \in Seq(CapabilityStructure)
      /\ f.constraints \in Seq(Constraint)
      /\ f = [kind |-> f.kind, capabilities |-> f.capabilities,
              constraints |-> f.constraints]
  BY DEF Frame
<1>2. /\ t.capabilities \in Seq(CapabilityText)
      /\ t.constraints \in Seq(Constraint)
  BY DEF FrameText
<1>3. [j \in DOMAIN t.capabilities |->
         cap_from_string(t.capabilities[j], residue[j])]
        \in Seq(CapabilityStructure)
  BY <1>2, ReadCapabilityType
<1>4. frame_from_string(t, residue).capabilities \in Seq(CapabilityStructure)
  BY <1>3 DEF frame_from_string
<1>5. caps \in Seq(CapabilityStructure) /\ cons \in Seq(Constraint)
  BY <1>1, <1>2, <1>4
<1>6. appended(f, t, residue) = [f EXCEPT !.capabilities = caps, !.constraints = cons]
  BY Zenon DEF appended
<1> HIDE DEF caps, cons
<1>7. appended(f, t, residue)
        = [kind |-> "frame", capabilities |-> caps, constraints |-> cons]
  BY <1>1, <1>6
<1> QED  BY <1>5, <1>7 DEF Frame, caps, cons

(* The texts and codes of CapabilityToken are those of this module.        *)
LEMMA SameText ==
  /\ T!SECRET = SECRET /\ T!EmptyTag = EmptyTag
  /\ \A e : T!element_to_string(e) = element_to_string(e)
  /\ \A b : T!body_to_string(b) = body_to_string(b)
  /\ \A b : T!SignatureOf(b) = SignatureOf(b)
  /\ \A m, k : T!compute_mac(m, k) = compute_mac(m, k)
<1>1. T!SECRET = SECRET /\ T!EmptyTag = EmptyTag
  BY DEF T!SECRET, SECRET, T!EmptyTag, EmptyTag
<1>2. \A b : T!BitsNumeral(b) = BitsNumeral(b)
  BY DEF T!BitsNumeral, BitsNumeral, T!Digit, Digit
<1>3. \A t : T!TypeNumeral(t) = TypeNumeral(t)
  BY DEF T!TypeNumeral, TypeNumeral
<1>4. \A c : T!cap_to_string(c) = cap_to_string(c)
  BY <1>2, <1>3 DEF T!cap_to_string, cap_to_string
<1>5. \A e : T!element_to_string(e) = element_to_string(e)
  BY <1>2, <1>4
  DEF T!element_to_string, element_to_string, T!frame_to_string, frame_to_string,
      T!request_to_string, request_to_string
<1>6. \A b : T!body_to_string(b) = body_to_string(b)
  BY <1>5 DEF T!body_to_string, body_to_string
<1>7. \A b : T!SignatureOf(b) = SignatureOf(b)
  BY <1>6 DEF T!SignatureOf, SignatureOf
<1>8. \A m, k : T!compute_mac(m, k) = compute_mac(m, k)
  BY DEF T!compute_mac, compute_mac
<1> QED  BY <1>1, <1>5, <1>6, <1>7, <1>8

LEMMA EmptyFrameType == EmptyFrame \in Frame
  BY DEF EmptyFrame, Frame

Typed == TypeOK /\ Pointers

(* The values of a body whose pointers go to frames are frames.            *)
LEMMA ValuesType ==
  ASSUME Typed, NEW h \in Holder
  PROVE  /\ body[h] \in Seq(Address)
         /\ \A k \in DOMAIN body[h] : heap[body[h][k]] \in Frame
         /\ Values(h) \in Seq(Element)
         /\ Len(Values(h)) = Len(body[h])
         /\ \A k \in 1 .. Len(body[h]) : Values(h)[k] = heap[body[h][k]]
<1>1. body[h] \in Seq(Address)
  BY DEF Typed, Pointers
<1>2. \A k \in DOMAIN body[h] : heap[body[h][k]] \in Frame
  BY <1>1 DEF Typed, TypeOK
<1> QED  BY <1>1, <1>2, FrameElement DEF Values, ValuesOf

(* add_frame: the body's values, and the tag.                              *)
LEMMA AddFrameEffect ==
  ASSUME Typed, NEW h \in Holder, NEW a \in Address, AddFrame(h, a)
  PROVE  /\ heap[a] \in Frame /\ heap' = heap
         /\ body' = [body EXCEPT ![h] = Append(body[h], a)]
         /\ Values(h)' = Append(Values(h), heap[a])
         /\ tag' = [tag EXCEPT
              ![h] = compute_mac(frame_to_string(heap[a]),
                                 IF body[h] = <<>> THEN SECRET ELSE tag[h])]
         /\ attested' = IF tag'[h].base = "secret"
                        THEN attested \cup {tag'[h].chain} ELSE attested
         /\ written' = [written EXCEPT
              ![h] = IF written[h] = NULL THEN NULL
                     ELSE Append(written[h], frame_to_string(heap[a]))]
<1>1. heap[a] \in Frame /\ heap' = heap
  BY DEF AddFrame, Typed, TypeOK
<1>2. body' = [body EXCEPT ![h] = Append(body[h], a)]
  BY DEF AddFrame
<1>3. /\ body[h] \in Seq(Address) /\ body'[h] = Append(body[h], a)
      /\ body'[h] \in Seq(Address) /\ Len(body'[h]) = Len(body[h]) + 1
      /\ body'[h][Len(body[h]) + 1] = a
      /\ \A k \in 1 .. Len(body[h]) : body'[h][k] = body[h][k]
  BY <1>2, ValuesType DEF Typed, Pointers
<1> DEFINE new == ValuesOf(body'[h])
<1>4. /\ DOMAIN new = 1 .. Len(body[h]) + 1
      /\ new[Len(body[h]) + 1] = heap[a]
      /\ \A k \in 1 .. Len(body[h]) : new[k] = heap[body[h][k]]
  BY <1>3 DEF ValuesOf
<1>5. new = Append(Values(h), heap[a])
  <2>1. /\ Values(h) \in Seq(Element) /\ Len(Values(h)) = Len(body[h])
        /\ \A k \in 1 .. Len(body[h]) : Values(h)[k] = heap[body[h][k]]
        /\ heap[a] \in Element
    BY <1>1, ValuesType, FrameElement
  <2>2. new \in Seq(Element)
    <3>1. \A k \in DOMAIN new : new[k] \in Element
      BY <1>4, <2>1
    <3>2. new \in [1 .. Len(body[h]) + 1 -> Element]
      BY <1>4, <3>1 DEF ValuesOf
    <3>3. \A n \in Nat : [1 .. n -> Element] \subseteq Seq(Element)
      OBVIOUS
    <3>4. Len(body[h]) + 1 \in Nat
      BY <1>3
    <3> HIDE DEF new
    <3> QED  BY <3>2, <3>3, <3>4, Zenon
  <2>3. Len(new) = Len(body[h]) + 1
    BY <1>3, <1>4, <2>2
  <2>4. PICK f : f = heap[a]
    OBVIOUS
  <2> DEFINE old == Values(h)
             longer == Append(old, f)
  <2>5. /\ longer \in Seq(Element) /\ Len(longer) = Len(body[h]) + 1
        /\ longer[Len(body[h]) + 1] = f
        /\ \A k \in 1 .. Len(body[h]) : longer[k] = old[k]
    <3> HIDE DEF old
    <3> QED  BY <2>1, <2>4 DEF old
  <2>6. \A k \in 1 .. Len(body[h]) + 1 : new[k] = longer[k]
    <3> HIDE DEF new, longer, old
    <3> QED  BY <1>3, <1>4, <2>1, <2>4, <2>5 DEF old
  <2>7. new = longer
    <3> HIDE DEF new, longer
    <3> QED  BY <2>2, <2>3, <2>5, <2>6
  <2> QED  BY <2>4, <2>7
<1>6. Values(h)' = new
  BY <1>1 DEF Values, ValuesOf
<1>7. /\ Len(new) = Len(body[h]) + 1 /\ new[Len(new)] = heap[a]
      /\ Len(new) = 1 <=> body[h] = <<>>
  <2>1. Len(new) = Len(body[h]) + 1
    BY <1>3, <1>4
  <2>2. Len(body[h]) = 0 <=> body[h] = <<>>
    BY <1>3
  <2> QED  BY <1>3, <1>4, <2>1, <2>2
<1>8. T!update_tag(new, tag[h])
        = compute_mac(frame_to_string(heap[a]),
                      IF body[h] = <<>> THEN SECRET ELSE tag[h])
  <2> HIDE DEF new
  <2> QED  BY <1>1, <1>7, FrameTextType, SameText DEF T!update_tag
<1>9. tag' = [tag EXCEPT ![h] = T!update_tag(new, tag[h])]
  BY DEF AddFrame
<1> HIDE DEF new
<1> QED  BY <1>1, <1>2, <1>5, <1>6, <1>8, <1>9 DEF AddFrame, T!Attest

LEMMA AppendedPointer ==
  ASSUME NEW b \in Seq(Address), NEW a \in Address
  PROVE  \A k \in DOMAIN Append(b, a) :
           Append(b, a)[k] = a \/ (k \in DOMAIN b /\ Append(b, a)[k] = b[k])
<1> DEFINE longer == Append(b, a)
<1>1. /\ DOMAIN longer = 1 .. Len(b) + 1 /\ DOMAIN b = 1 .. Len(b)
      /\ Len(b) \in Nat
      /\ longer[Len(b) + 1] = a
      /\ \A k \in 1 .. Len(b) : longer[k] = b[k]
  OBVIOUS
<1> HIDE DEF longer
<1>2. \A n \in Nat : \A k \in 1 .. n + 1 : k \in 1 .. n \/ k = n + 1
  OBVIOUS
<1>3. \A k \in DOMAIN longer : k \in DOMAIN b \/ k = Len(b) + 1
  BY <1>1, <1>2, Zenon
<1>4. \A k \in DOMAIN longer :
        longer[k] = a \/ (k \in DOMAIN b /\ longer[k] = b[k])
  <2>1. longer[Len(b) + 1] = a
    BY <1>1, Zenon
  <2>2. \A k \in DOMAIN b : longer[k] = b[k]
    BY <1>1, Zenon
  <2> SUFFICES ASSUME NEW k \in DOMAIN longer
               PROVE  longer[k] = a \/ (k \in DOMAIN b /\ longer[k] = b[k])
    OBVIOUS
  <2>3. CASE k \in DOMAIN b
    <3>1. longer[k] = b[k]
      BY <2>2, <2>3, Zenon
    <3> QED  BY <2>3, <3>1, Zenon
  <2>4. CASE k = Len(b) + 1
    BY <2>1, <2>4, Zenon
  <2> QED  BY <1>3, <2>3, <2>4, Zenon
<1> QED  BY <1>4, Zenon DEF longer

-----------------------------------------------------------------------------
(* Pointers go to frames, and frames keep the fields of frames, whatever   *)
(* is read into them.                                                      *)
THEOREM TypeCorrect == Spec => []Typed
<1>1. Init => Typed
  BY TagTypes DEF Init, Typed, TypeOK, Pointers
<1>2. Typed /\ [Next]_vars => Typed'
  <2> SUFFICES ASSUME Typed, [Next]_vars PROVE Typed'
    OBVIOUS
  <2>0. /\ heap \in [Address -> Frame \cup {NULL}]
        /\ body \in [Holder -> Seq(Address)]
        /\ \A h \in Holder : \A k \in DOMAIN body[h] : heap[body[h][k]] # NULL
        /\ tag \in [Holder -> Tag]
        /\ attested \subseteq Seq(ElementText)
        /\ written \in [Holder -> Seq(FrameText) \cup {NULL}]
    BY DEF Typed, TypeOK, Pointers
  <2>1. ASSUME NEW a \in Address, NewFrame(a) PROVE Typed'
    <3>1. heap' \in [Address -> Frame \cup {NULL}]
      BY <2>0, <2>1, EmptyFrameType DEF NewFrame
    <3>2. \A h \in Holder : \A k \in DOMAIN body[h] : heap'[body[h][k]] # NULL
      BY <2>0, <2>1, EmptyFrameType, NullIsNoFrame DEF NewFrame
    <3> QED  BY <2>0, <2>1, <3>1, <3>2 DEF NewFrame, Typed, TypeOK, Pointers
  <2>2. ASSUME NEW a \in Address, NEW t \in PieceText, FrameFromString(a, t)
        PROVE  Typed'
    <3>1. PICK residue \in [DOMAIN t.capabilities -> CapabilityType] :
            heap' = [heap EXCEPT ![a] = appended(heap[a], t, residue)]
      BY <2>2 DEF FrameFromString
    <3>2. appended(heap[a], t, residue) \in Frame
      BY <2>0, <2>2, FrameAssumption, AppendedType DEF FrameFromString
    <3>3. heap' \in [Address -> Frame \cup {NULL}]
      BY <2>0, <3>1, <3>2
    <3>4. \A h \in Holder : \A k \in DOMAIN body[h] : heap'[body[h][k]] # NULL
      BY <2>0, <3>1, <3>2, NullIsNoFrame
    <3> QED  BY <2>0, <2>2, <3>3, <3>4 DEF FrameFromString, Typed, TypeOK, Pointers
  <2>3. ASSUME NEW h \in Holder, NewToken(h) PROVE Typed'
    BY <2>0, <2>3, TagTypes DEF NewToken, Typed, TypeOK, Pointers
  <2>4. ASSUME NEW h \in Holder, NEW a \in Address, AddFrame(h, a) PROVE Typed'
    <3>1. /\ heap[a] \in Frame /\ heap' = heap
          /\ body' = [body EXCEPT ![h] = Append(body[h], a)]
      BY <2>4, AddFrameEffect
    <3> DEFINE old == IF body[h] = <<>> THEN SECRET ELSE tag[h]
               text == frame_to_string(heap[a])
    <3>2. text \in FrameText /\ text \in ElementText /\ old \in Tag
      BY <2>0, <3>1, FrameTextType, SecretType
    <3>3. compute_mac(text, old) \in Tag
      <4> HIDE DEF text, old
      <4> QED  BY <3>2, ComputeMacType
    <3>4. tag' = [tag EXCEPT ![h] = compute_mac(text, old)]
      BY <2>4, AddFrameEffect
    <3>5. tag' \in [Holder -> Tag]
      <4> HIDE DEF text, old
      <4> QED  BY <2>0, <3>3, <3>4
    <3>6. attested' \subseteq Seq(ElementText)
      <4>1. attested' = IF tag'[h].base = "secret"
                        THEN attested \cup {tag'[h].chain} ELSE attested
        BY <2>4, AddFrameEffect
      <4> QED  BY <2>0, <3>5, <4>1 DEF Tag
    <3>7. written' \in [Holder -> Seq(FrameText) \cup {NULL}]
      <4>1. written' = [written EXCEPT
              ![h] = IF written[h] = NULL THEN NULL ELSE Append(written[h], text)]
        BY <2>4, AddFrameEffect
      <4>2. (IF written[h] = NULL THEN NULL ELSE Append(written[h], text))
              \in Seq(FrameText) \cup {NULL}
        <5> HIDE DEF text
        <5>1. CASE written[h] # NULL
          BY <2>0, <3>2, <5>1
        <5> QED  BY <5>1
      <4> HIDE DEF text
      <4> QED  BY <2>0, <4>1, <4>2
    <3>8. body' \in [Holder -> Seq(Address)]
      BY <2>0, <3>1
    <3>9. \A g \in Holder : \A k \in DOMAIN body'[g] : heap'[body'[g][k]] # NULL
      <4> SUFFICES ASSUME NEW g \in Holder, NEW k \in DOMAIN body'[g]
                   PROVE  heap[body'[g][k]] # NULL
        BY <3>1
      <4>1. CASE g = h
        <5>1. body'[g] = Append(body[h], a) /\ body[h] \in Seq(Address)
          BY <2>0, <3>1, <4>1
        <5>2. body'[g][k] = a \/ (k \in DOMAIN body[h] /\ body'[g][k] = body[h][k])
          BY <5>1, AppendedPointer
        <5> QED  BY <2>0, <3>1, <5>2, NullIsNoFrame
      <4>2. CASE g # h
        BY <2>0, <3>1, <4>2
      <4> QED  BY <4>1, <4>2
    <3> HIDE DEF text, old
    <3>10. heap' \in [Address -> Frame \cup {NULL}]
      BY <2>0, <3>1
    <3> QED  BY <3>5, <3>6, <3>7, <3>8, <3>9, <3>10 DEF Typed, TypeOK, Pointers
  <2>5. ASSUME NEW h \in Holder, NEW other \in Holder,
               NEW n \in 0 .. Len(body[other]), SetBodyFrames(h, other, n)
        PROVE  Typed'
    <3>1. body' \in [Holder -> Seq(Address)] /\ heap' = heap
      BY <2>0, <2>5 DEF SetBodyFrames
    <3>2. \A g \in Holder : \A k \in DOMAIN body'[g] : heap[body'[g][k]] # NULL
      BY <2>0, <2>5 DEF SetBodyFrames
    <3>3. written' \in [Holder -> Seq(FrameText) \cup {NULL}]
      BY <2>0, <2>5 DEF SetBodyFrames
    <3> QED  BY <2>0, <2>5, <3>1, <3>2, <3>3 DEF SetBodyFrames, Typed, TypeOK, Pointers
  <2>6. CASE UNCHANGED vars
    BY <2>6, <2>0 DEF vars, Typed, TypeOK, Pointers
  <2> QED  BY <2>1, <2>2, <2>3, <2>4, <2>5, <2>6 DEF Next
<1> QED  BY <1>1, <1>2, PTL DEF Spec

(* The type invariant as the runs state it.                                *)
THEOREM TypeOKHolds == Spec => []TypeOK
  BY TypeCorrect, PTL DEF Typed

-----------------------------------------------------------------------------
(***************************************************************************)
(* What a tag that verifies tells, also of shared frames.                  *)
(***************************************************************************)
(* Whichever frames are edited, every tag computed from the SECRET has its *)
(* whole chain on record.                                                  *)
THEOREM TagsAttestedHolds == Spec => []TagsAttested
<1>1. Init => TagsAttested
  BY BareTags DEF Init, TagsAttested
<1>2. Typed /\ TagsAttested /\ [Next]_vars => TagsAttested'
  <2> SUFFICES ASSUME Typed, TagsAttested, [Next]_vars PROVE TagsAttested'
    OBVIOUS
  <2>0. tag \in [Holder -> Tag]
    BY DEF Typed, TypeOK
  <2>1. ASSUME NEW a \in Address, NewFrame(a) PROVE TagsAttested'
    BY <2>1 DEF NewFrame, TagsAttested
  <2>2. ASSUME NEW a \in Address, NEW t \in PieceText, FrameFromString(a, t)
        PROVE  TagsAttested'
    BY <2>2 DEF FrameFromString, TagsAttested
  <2>3. ASSUME NEW h \in Holder, NewToken(h) PROVE TagsAttested'
    BY <2>0, <2>3, BareTags DEF NewToken, TagsAttested
  <2>4. ASSUME NEW h \in Holder, NEW a \in Address, AddFrame(h, a)
        PROVE  TagsAttested'
    <3>1. PICK msg \in ElementText : msg = frame_to_string(heap[a])
      BY <2>4, AddFrameEffect, FrameTextType
    <3>2. PICK key : key = IF body[h] = <<>> THEN SECRET ELSE tag[h]
      OBVIOUS
    <3>3. key \in Tag /\ PrefixesIn(key, attested)
      BY <2>0, <3>2, SecretType, BareTags DEF TagsAttested
    <3>4. PICK new \in Tag : new = compute_mac(msg, key)
      BY <3>3, ComputeMacType
    <3>5. tag' = [tag EXCEPT ![h] = new]
      BY <2>4, <3>1, <3>2, <3>4, AddFrameEffect
    <3>6. tag'[h] = new /\ \A g \in Holder : g # h => tag'[g] = tag[g]
      BY <2>0, <3>5
    <3>7. attested' = IF new.base = "secret" THEN attested \cup {new.chain}
                                             ELSE attested
      BY <2>4, <3>6, AddFrameEffect
    <3>8. /\ attested \subseteq attested'
          /\ new.base = "secret" => new.chain \in attested'
      BY <3>7
    <3>9. PrefixesIn(new, attested')
      BY <3>3, <3>4, <3>8, ComputeMacPrefixes
    <3>10. \A g \in Holder : g # h => PrefixesIn(tag[g], attested')
      BY <3>8, PrefixesMonotone DEF TagsAttested
    <3> QED  BY <3>6, <3>9, <3>10 DEF TagsAttested
  <2>5. ASSUME NEW h \in Holder, NEW other \in Holder,
               NEW n \in 0 .. Len(body[other]), SetBodyFrames(h, other, n)
        PROVE  TagsAttested'
    BY <2>5 DEF SetBodyFrames, TagsAttested
  <2>6. CASE UNCHANGED vars
    BY <2>6 DEF vars, TagsAttested
  <2> QED  BY <2>1, <2>2, <2>3, <2>4, <2>5, <2>6 DEF Next
<1> QED  BY <1>1, <1>2, TypeCorrect, PTL DEF Spec

(* An object that is_valid_signature accepts holds frames that read, now,  *)
(* as frames that update_tag put there one directly after the other:       *)
(* editing a frame that objects share never makes an unattested body pass. *)
THEOREM VerifiedWasAttestedHolds == Spec => []VerifiedWasAttested
<1>1. Typed /\ TagsAttested => VerifiedWasAttested
  <2> SUFFICES ASSUME Typed, TagsAttested,
                      NEW h \in Holder, T!is_valid_signature(Objects[h]),
                      NEW n \in 1 .. Len(Objects[h].body)
               PROVE  SubSeq(T!body_to_string(Objects[h].body), 1, n) \in attested
    BY DEF VerifiedWasAttested, T!VerifiedWasAttested
  <2>1. Objects[h].body = Values(h) /\ Objects[h].tag = tag[h]
    BY DEF Objects
  <2>2. Values(h) \in Seq(Element)
    BY ValuesType
  <2>3. tag[h] = SignatureOf(Values(h))
    BY <2>1, SameText DEF T!is_valid_signature
  <2>4. /\ tag[h].base = "secret"
        /\ tag[h].chain = body_to_string(Values(h))
    BY <2>3 DEF SignatureOf
  <2>5. n \in 1 .. Len(tag[h].chain)
    BY <2>1, <2>2, <2>4, BodyTextType
  <2>6. SubSeq(tag[h].chain, 1, n) \in attested
    BY <2>4, <2>5 DEF TagsAttested, PrefixesIn
  <2> QED  BY <2>1, <2>4, <2>6, SameText
<1> QED  BY <1>1, TypeCorrect, TagsAttestedHolds, PTL

-----------------------------------------------------------------------------
(***************************************************************************)
(* What an edit does to the objects that hold the frame.                   *)
(***************************************************************************)
LEMMA SecretOfNothing == SECRET = [base |-> "secret", chain |-> <<>>]
  BY DEF SECRET

(* The tag of an object that got its body by add_frame is the code of what *)
(* its frames read as when they were added.                                *)
THEOREM TagsWrittenHolds == Spec => []TagsWritten
<1> DEFINE Of(g) == written[g] # NULL =>
             /\ Len(written[g]) = Len(body[g])
             /\ body[g] # <<>> => tag[g] = [base |-> "secret", chain |-> written[g]]
<1>1. Init => TagsWritten
  BY DEF Init, TagsWritten
<1>2. Typed /\ TagsWritten /\ [Next]_vars => TagsWritten'
  <2> SUFFICES ASSUME Typed, TagsWritten, [Next]_vars PROVE TagsWritten'
    OBVIOUS
  <2>0. /\ tag \in [Holder -> Tag]
        /\ body \in [Holder -> Seq(Address)]
        /\ written \in [Holder -> Seq(FrameText) \cup {NULL}]
    BY DEF Typed, TypeOK, Pointers
  <2>1. \A g \in Holder : Of(g)
    BY DEF TagsWritten
  <2>2. (\A g \in Holder : Of(g)') => TagsWritten'
    BY DEF TagsWritten
  <2>3. ASSUME UNCHANGED <<body, tag, written>> PROVE TagsWritten'
    BY <2>3 DEF TagsWritten
  <2>4. ASSUME NEW h \in Holder, NewToken(h) PROVE TagsWritten'
    <3>1. \A g \in Holder : Of(g)'
      BY <2>0, <2>1, <2>4 DEF NewToken
    <3> HIDE DEF Of
    <3> QED  BY <2>2, <3>1
  <2>5. ASSUME NEW h \in Holder, NEW a \in Address, AddFrame(h, a)
        PROVE  TagsWritten'
    <3>1. PICK msg \in ElementText : msg = frame_to_string(heap[a])
      BY <2>5, AddFrameEffect, FrameTextType
    <3>2. PICK key : key = IF body[h] = <<>> THEN SECRET ELSE tag[h]
      OBVIOUS
    <3>3. key \in Tag
      BY <2>0, <3>2, SecretType
    <3>4. PICK new : new = [base |-> key.base, chain |-> Append(key.chain, msg)]
      OBVIOUS
    <3>5. compute_mac(msg, key) = new
      BY <3>3, <3>4, ComputeMacEffect
    <3>6. tag' = [tag EXCEPT ![h] = new]
      BY <2>5, <3>1, <3>2, <3>5, AddFrameEffect
    <3>7. /\ body' = [body EXCEPT ![h] = Append(body[h], a)]
          /\ written' = [written EXCEPT
               ![h] = IF written[h] = NULL THEN NULL ELSE Append(written[h], msg)]
      BY <2>5, <3>1, AddFrameEffect
    <3>8. \A g \in Holder : g # h => Of(g)'
      BY <2>0, <2>1, <3>6, <3>7
    <3>9. ASSUME written'[h] # NULL
          PROVE  /\ Len(written'[h]) = Len(body'[h])
                 /\ tag'[h] = [base |-> "secret", chain |-> written'[h]]
      <4>1. /\ written[h] # NULL /\ written[h] \in Seq(FrameText)
            /\ written'[h] = Append(written[h], msg)
        BY <2>0, <3>7, <3>9
      <4>2. body[h] \in Seq(Address) /\ body'[h] = Append(body[h], a)
        BY <2>0, <3>7
      <4>3. Len(written[h]) = Len(body[h])
        BY <2>1, <4>1
      <4>4. Len(written'[h]) = Len(body'[h])
        <5>1. PICK w \in Seq(FrameText) : w = written[h]
          BY <4>1
        <5>2. PICK b \in Seq(Address) : b = body[h]
          BY <4>2
        <5>3. Len(Append(w, msg)) = Len(w) + 1 /\ Len(Append(b, a)) = Len(b) + 1
          OBVIOUS
        <5> QED  BY <4>1, <4>2, <4>3, <5>1, <5>2, <5>3
      <4>5. key = [base |-> "secret", chain |-> written[h]]
        <5>1. CASE body[h] = <<>>
          <6>1. \A w \in Seq(FrameText) : Len(w) = 0 => w = <<>>
            OBVIOUS
          <6>2. written[h] = <<>>
            BY <4>1, <4>3, <5>1, <6>1
          <6> QED  BY <3>2, <5>1, <6>2, SecretOfNothing
        <5>2. CASE body[h] # <<>>
          BY <2>1, <3>2, <4>1, <5>2
        <5> QED  BY <5>1, <5>2
      <4>6. new = [base |-> "secret", chain |-> Append(written[h], msg)]
        BY <3>4, <4>5
      <4> QED  BY <2>0, <3>6, <4>1, <4>4, <4>6
    <3>10. Of(h)'
      BY <3>9
    <3> HIDE DEF Of
    <3> QED  BY <2>2, <3>8, <3>10
  <2>6. ASSUME NEW h \in Holder, NEW other \in Holder,
               NEW n \in 0 .. Len(body[other]), SetBodyFrames(h, other, n)
        PROVE  TagsWritten'
    <3>1. \A g \in Holder : Of(g)'
      BY <2>0, <2>1, <2>6 DEF SetBodyFrames
    <3> HIDE DEF Of
    <3> QED  BY <2>2, <3>1
  <2> HIDE DEF Of
  <2> QED  BY <2>3, <2>4, <2>5, <2>6 DEF Next, NewFrame, FrameFromString, vars
<1> QED  BY <1>1, <1>2, TypeCorrect, PTL DEF Spec

(* An object that got its body by add_frame verifies exactly as long as    *)
(* its frames read as they did when they were added, however many objects  *)
(* share them and wherever in the body an edited one is.                   *)
THEOREM VerifiesWhileUneditedHolds == Spec => []VerifiesWhileUnedited
<1>1. TagsWritten => VerifiesWhileUnedited
  <2> SUFFICES ASSUME TagsWritten, NEW h \in Holder,
                      written[h] # NULL, body[h] # <<>>
               PROVE  Valid(h) <=> Text(h) = written[h]
    BY DEF VerifiesWhileUnedited
  <2>1. Objects[h].body = Values(h) /\ Objects[h].tag = tag[h]
    BY DEF Objects
  <2>2. Valid(h) <=> tag[h] = SignatureOf(Values(h))
    BY <2>1, SameText DEF Valid, T!is_valid_signature
  <2>3. SignatureOf(Values(h)) = [base |-> "secret", chain |-> Text(h)]
    BY DEF SignatureOf, Text
  <2>4. tag[h] = [base |-> "secret", chain |-> written[h]]
    BY DEF TagsWritten
  <2>5. \A x, y : [base |-> "secret", chain |-> x] = [base |-> "secret", chain |-> y]
                    <=> x = y
    OBVIOUS
  <2>6. Valid(h) <=> [base |-> "secret", chain |-> written[h]]
                       = [base |-> "secret", chain |-> Text(h)]
    BY <2>2, <2>3, <2>4, Zenon
  <2> QED  BY <2>5, <2>6, Zenon
<1> QED  BY <1>1, TagsWrittenHolds, PTL

-----------------------------------------------------------------------------
(***************************************************************************)
(* Frames grow.                                                            *)
(***************************************************************************)
LEMMA ProlongsItself ==
  ASSUME NEW s, Len(s) \in Nat
  PROVE  Prolongs(s, s)
BY DEF Prolongs

LEMMA ProlongsTransitive ==
  ASSUME NEW S, NEW a \in Seq(S), NEW b \in Seq(S), NEW c \in Seq(S),
         Prolongs(a, b), Prolongs(b, c)
  PROVE  Prolongs(a, c)
BY DEF Prolongs

LEMMA ConcatenationProlongs ==
  ASSUME NEW S, NEW s \in Seq(S), NEW u \in Seq(S)
  PROVE  Prolongs(s \o u, s)
BY DEF Prolongs

(* A sequence that is no longer than the one it prolongs is that one.      *)
LEMMA ProlongsNoLonger ==
  ASSUME NEW S, NEW a \in Seq(S), NEW b \in Seq(S),
         Prolongs(a, b), Len(a) <= Len(b)
  PROVE  a = b
BY DEF Prolongs

LEMMA GrewTransitive ==
  ASSUME NEW a \in FrameText, NEW b \in FrameText, NEW c \in FrameText,
         GrewFrom(a, b), GrewFrom(b, c)
  PROVE  GrewFrom(a, c)
<1>1. \A t \in FrameText : /\ t.capabilities \in Seq(CapabilityText)
                           /\ t.constraints \in Seq(Constraint)
  BY DEF FrameText
<1>2. Prolongs(a.capabilities, c.capabilities)
  BY <1>1, ProlongsTransitive DEF GrewFrom
<1>3. Prolongs(a.constraints, c.constraints)
  BY <1>1, ProlongsTransitive DEF GrewFrom
<1> QED  BY <1>2, <1>3 DEF GrewFrom

LEMMA GrewFromItself ==
  ASSUME NEW a \in FrameText
  PROVE  GrewFrom(a, a)
<1>1. Len(a.capabilities) \in Nat /\ Len(a.constraints) \in Nat
  BY DEF FrameText
<1> QED  BY <1>1, ProlongsItself DEF GrewFrom

LEMMA FrameTextFields ==
  ASSUME NEW f \in Frame
  PROVE  /\ frame_to_string(f).capabilities
              = [j \in DOMAIN f.capabilities |-> cap_to_string(f.capabilities[j])]
         /\ frame_to_string(f).constraints = f.constraints
         /\ Len(frame_to_string(f).capabilities) = Len(f.capabilities)
         /\ LeadIsOwn(frame_to_string(f))
<1> DEFINE caps == [j \in DOMAIN f.capabilities |-> cap_to_string(f.capabilities[j])]
<1>1. f.capabilities \in Seq(CapabilityStructure)
  BY DEF Frame
<1>2. /\ frame_to_string(f).capabilities = caps
      /\ frame_to_string(f).constraints = f.constraints
      /\ frame_to_string(f).lead <=> f.capabilities = <<>> /\ f.constraints # <<>>
  BY DEF frame_to_string
<1>3. frame_to_string(f).capabilities \in Seq(CapabilityText)
  BY FrameTextType DEF FrameText
<1>4. Len(caps) = Len(f.capabilities)
  BY <1>1, <1>2, <1>3
<1>5. caps = <<>> <=> f.capabilities = <<>>
  BY <1>1, <1>2, <1>3, <1>4
<1> HIDE DEF caps
<1>6. frame_to_string(f).lead
        <=> /\ frame_to_string(f).capabilities = <<>>
            /\ frame_to_string(f).constraints # <<>>
  BY <1>2, <1>5
<1> QED  BY <1>2, <1>4, <1>6 DEF LeadIsOwn, caps

(* Frame::from_string makes the text of a frame grow.                      *)
LEMMA AppendedGrows ==
  ASSUME NEW f \in Frame, NEW t \in FrameText,
         NEW residue \in [DOMAIN t.capabilities -> CapabilityType]
  PROVE  GrewFrom(frame_to_string(appended(f, t, residue)), frame_to_string(f))
<1>1. PICK g \in Frame : g = appended(f, t, residue)
  BY AppendedType
<1>2. frame_from_string(t, residue).capabilities \in Seq(CapabilityStructure)
  <2>1. t.capabilities \in Seq(CapabilityText)
    BY DEF FrameText
  <2>2. [j \in DOMAIN t.capabilities |->
           cap_from_string(t.capabilities[j], residue[j])]
          \in Seq(CapabilityStructure)
    BY <2>1, ReadCapabilityType
  <2> QED  BY <2>2 DEF frame_from_string
<1>3. PICK more \in Seq(CapabilityStructure) :
        g.capabilities = f.capabilities \o more
  BY <1>1, <1>2, AppendedType
<1>4. g.constraints = f.constraints \o t.constraints
  BY <1>1, AppendedType
<1>5. /\ f.capabilities \in Seq(CapabilityStructure)
      /\ f.constraints \in Seq(Constraint) /\ t.constraints \in Seq(Constraint)
  BY DEF Frame, FrameText
<1>6. Prolongs(g.constraints, f.constraints)
  BY <1>4, <1>5, ConcatenationProlongs
<1>7. Prolongs(g.capabilities, f.capabilities)
  BY <1>3, <1>5, ConcatenationProlongs
<1>8. Prolongs(frame_to_string(g).capabilities, frame_to_string(f).capabilities)
  <2>1. /\ Len(f.capabilities) <= Len(g.capabilities)
        /\ \A k \in DOMAIN f.capabilities :
             k \in DOMAIN g.capabilities /\ g.capabilities[k] = f.capabilities[k]
    BY <1>3, <1>5
  <2>2. /\ Len(frame_to_string(g).capabilities) = Len(g.capabilities)
        /\ Len(frame_to_string(f).capabilities) = Len(f.capabilities)
    BY FrameTextFields
  <2>3. /\ frame_to_string(g).capabilities
             = [j \in DOMAIN g.capabilities |-> cap_to_string(g.capabilities[j])]
        /\ frame_to_string(f).capabilities
             = [j \in DOMAIN f.capabilities |-> cap_to_string(f.capabilities[j])]
    BY FrameTextFields
  <2>4. \A k \in DOMAIN frame_to_string(f).capabilities :
          frame_to_string(g).capabilities[k] = frame_to_string(f).capabilities[k]
    BY <2>1, <2>3
  <2> QED  BY <2>1, <2>2, <2>4 DEF Prolongs
<1>9. Prolongs(frame_to_string(g).constraints, frame_to_string(f).constraints)
  BY <1>6, FrameTextFields
<1> QED  BY <1>1, <1>8, <1>9 DEF GrewFrom

(* In no step does the text of a frame get shorter or change elsewhere     *)
(* than at the end.                                                        *)
LEMMA HeapGrows ==
  ASSUME Typed, [Next]_vars, NEW a \in Address, heap[a] # NULL
  PROVE  /\ heap[a] \in Frame /\ heap'[a] \in Frame
         /\ GrewFrom(frame_to_string(heap'[a]), frame_to_string(heap[a]))
<1>1. heap \in [Address -> Frame \cup {NULL}] /\ heap[a] \in Frame
  BY DEF Typed, TypeOK
<1>2. CASE heap'[a] = heap[a]
  BY <1>1, <1>2, FrameTextType, GrewFromItself
<1>3. ASSUME NEW b \in Address, NewFrame(b) PROVE heap'[a] = heap[a]
  BY <1>1, <1>3 DEF NewFrame
<1>4. ASSUME NEW b \in Address, NEW t \in PieceText, FrameFromString(b, t),
             heap'[a] # heap[a]
      PROVE  /\ heap'[a] \in Frame
             /\ GrewFrom(frame_to_string(heap'[a]), frame_to_string(heap[a]))
  <2>1. PICK residue \in [DOMAIN t.capabilities -> CapabilityType] :
          heap' = [heap EXCEPT ![b] = appended(heap[b], t, residue)]
    BY <1>4 DEF FrameFromString
  <2>2. b = a /\ heap'[a] = appended(heap[a], t, residue)
    BY <1>1, <1>4, <2>1
  <2>3. t \in FrameText
    BY FrameAssumption
  <2> QED  BY <1>1, <2>2, <2>3, AppendedType, AppendedGrows
<1>5. ASSUME UNCHANGED heap PROVE heap'[a] = heap[a]
  BY <1>5
<1> QED  BY <1>1, <1>2, <1>3, <1>4, <1>5
         DEF Next, NewToken, AddFrame, SetBodyFrames, vars

(* Neither does a position of a body made by add_frame change hands, nor   *)
(* what is remembered of it, until the object gets another body.           *)
LEMMA PositionStays ==
  ASSUME Typed, TagsWritten, [Next]_vars, NEW h \in Holder,
         written[h] # NULL, written'[h] # NULL, body'[h] # <<>>,
         NEW k \in DOMAIN body[h]
  PROVE  /\ k \in DOMAIN body'[h] /\ body'[h][k] = body[h][k]
         /\ written'[h][k] = written[h][k]
<1>0. /\ body \in [Holder -> Seq(Address)]
      /\ written \in [Holder -> Seq(FrameText) \cup {NULL}]
      /\ written[h] \in Seq(FrameText) /\ Len(written[h]) = Len(body[h])
  BY DEF Typed, TypeOK, Pointers, TagsWritten
<1>1. CASE body'[h] = body[h] /\ written'[h] = written[h]
  BY <1>1
<1>2. ASSUME NEW a \in Address, AddFrame(h, a)
      PROVE  /\ k \in DOMAIN body'[h] /\ body'[h][k] = body[h][k]
             /\ written'[h][k] = written[h][k]
  <2>1. PICK text : text = frame_to_string(heap[a])
    OBVIOUS
  <2>2. /\ body' = [body EXCEPT ![h] = Append(body[h], a)]
        /\ written' = [written EXCEPT
             ![h] = IF written[h] = NULL THEN NULL ELSE Append(written[h], text)]
        /\ text \in FrameText
    BY <1>2, <2>1, AddFrameEffect, FrameTextType
  <2>3. body'[h] = Append(body[h], a) /\ written'[h] = Append(written[h], text)
    BY <1>0, <2>2
  <2>4. PICK w \in Seq(FrameText) : w = written[h]
    BY <1>0
  <2>5. PICK b \in Seq(Address) : b = body[h]
    BY <1>0
  <2>6. Len(w) = Len(b) /\ k \in DOMAIN b
    BY <1>0, <2>4, <2>5
  <2>7. /\ k \in DOMAIN Append(b, a) /\ Append(b, a)[k] = b[k]
        /\ Append(w, text)[k] = w[k]
    BY <2>2, <2>6
  <2> QED  BY <2>3, <2>4, <2>5, <2>7
<1>3. ASSUME NEW g \in Holder, g # h,
             NewToken(g) \/ (\E a \in Address : AddFrame(g, a))
               \/ (\E other \in Holder : \E n \in 0 .. Len(body[other]) :
                     SetBodyFrames(g, other, n))
      PROVE  body'[h] = body[h] /\ written'[h] = written[h]
  BY <1>0, <1>3 DEF NewToken, AddFrame, SetBodyFrames
<1>4. ASSUME NewToken(h) PROVE FALSE
  BY <1>0, <1>4 DEF NewToken
<1>5. ASSUME NEW other \in Holder, NEW n \in 0 .. Len(body[other]),
             SetBodyFrames(h, other, n)
      PROVE  FALSE
  BY <1>0, <1>5 DEF SetBodyFrames
<1>6. ASSUME UNCHANGED <<body, tag, attested, written>>
      PROVE  body'[h] = body[h] /\ written'[h] = written[h]
  BY <1>6
<1> QED  BY <1>1, <1>2, <1>3, <1>4, <1>5, <1>6
         DEF Next, NewFrame, FrameFromString, vars

(* What is remembered of a position is either what was remembered before,  *)
(* or what the frame just added reads as.                                  *)
LEMMA PositionAdded ==
  ASSUME Typed, TagsWritten, [Next]_vars, NEW h \in Holder,
         written'[h] # NULL, NEW k \in DOMAIN body'[h]
  PROVE  \/ /\ written[h] # NULL /\ k \in DOMAIN body[h]
            /\ body'[h][k] = body[h][k] /\ written'[h][k] = written[h][k]
         \/ /\ heap'[body'[h][k]] \in Frame
            /\ written'[h][k] = frame_to_string(heap'[body'[h][k]])
<1>0. /\ body \in [Holder -> Seq(Address)]
      /\ written \in [Holder -> Seq(FrameText) \cup {NULL}]
      /\ written[h] # NULL => /\ written[h] \in Seq(FrameText)
                              /\ Len(written[h]) = Len(body[h])
  BY DEF Typed, TypeOK, Pointers, TagsWritten
<1> DEFINE Goal ==
             \/ /\ written[h] # NULL /\ k \in DOMAIN body[h]
                /\ body'[h][k] = body[h][k] /\ written'[h][k] = written[h][k]
             \/ /\ heap'[body'[h][k]] \in Frame
                /\ written'[h][k] = frame_to_string(heap'[body'[h][k]])
<1>1. ASSUME body'[h] = body[h], written'[h] = written[h] PROVE Goal
  BY <1>1
<1>2. ASSUME NEW a \in Address, AddFrame(h, a) PROVE Goal
  <2>1. PICK text : text = frame_to_string(heap[a])
    OBVIOUS
  <2>2. /\ body' = [body EXCEPT ![h] = Append(body[h], a)]
        /\ written' = [written EXCEPT
             ![h] = IF written[h] = NULL THEN NULL ELSE Append(written[h], text)]
        /\ text \in FrameText /\ heap[a] \in Frame /\ heap' = heap
    BY <1>2, <2>1, AddFrameEffect, FrameTextType
  <2>3. /\ written[h] # NULL
        /\ body'[h] = Append(body[h], a) /\ written'[h] = Append(written[h], text)
    BY <1>0, <2>2
  <2>4. PICK w \in Seq(FrameText) : w = written[h]
    BY <1>0, <2>3
  <2>5. PICK b \in Seq(Address) : b = body[h]
    BY <1>0
  <2>6. Len(w) = Len(b) /\ k \in DOMAIN Append(b, a)
    BY <1>0, <2>3, <2>4, <2>5
  <2>7. \/ /\ k \in DOMAIN b /\ Append(b, a)[k] = b[k]
           /\ Append(w, text)[k] = w[k]
        \/ Append(b, a)[k] = a /\ Append(w, text)[k] = text
    BY <2>2, <2>6
  <2>8. CASE Append(b, a)[k] = a /\ Append(w, text)[k] = text
    BY <2>1, <2>2, <2>3, <2>4, <2>5, <2>8
  <2>9. CASE /\ k \in DOMAIN b /\ Append(b, a)[k] = b[k]
             /\ Append(w, text)[k] = w[k]
    BY <2>3, <2>4, <2>5, <2>9
  <2> HIDE DEF Goal
  <2> QED  BY <2>7, <2>8, <2>9
<1>3. ASSUME NEW g \in Holder, g # h,
             NewToken(g) \/ (\E a \in Address : AddFrame(g, a))
               \/ (\E other \in Holder : \E n \in 0 .. Len(body[other]) :
                     SetBodyFrames(g, other, n))
      PROVE  body'[h] = body[h] /\ written'[h] = written[h]
  BY <1>0, <1>3 DEF NewToken, AddFrame, SetBodyFrames
<1>4. ASSUME NewToken(h) PROVE FALSE
  BY <1>0, <1>4 DEF NewToken
<1>5. ASSUME NEW other \in Holder, NEW n \in 0 .. Len(body[other]),
             SetBodyFrames(h, other, n)
      PROVE  FALSE
  BY <1>0, <1>5 DEF SetBodyFrames
<1>6. ASSUME UNCHANGED <<body, tag, attested, written>>
      PROVE  body'[h] = body[h] /\ written'[h] = written[h]
  BY <1>6
<1> HIDE DEF Goal
<1>7. Goal
  BY <1>1, <1>2, <1>3, <1>4, <1>5, <1>6
     DEF Next, NewFrame, FrameFromString, vars
<1> QED  BY <1>7 DEF Goal

(* The text of each frame in a body made by add_frame has grown from what  *)
(* it was when the frame was added.                                        *)
THEOREM GrownHolds == Spec => []Grown
<1>1. Init => Grown
  BY DEF Init, Grown
<1>2. Typed /\ Typed' /\ TagsWritten /\ TagsWritten' /\ Grown /\ [Next]_vars => Grown'
  <2> SUFFICES ASSUME Typed, Typed', TagsWritten, TagsWritten', Grown, [Next]_vars,
                      NEW h \in Holder, written'[h] # NULL,
                      NEW k \in DOMAIN body'[h]
               PROVE  /\ LeadIsOwn(written'[h][k])
                      /\ GrewFrom(frame_to_string(heap'[body'[h][k]]), written'[h][k])
    BY DEF Grown
  <2>1. CASE /\ heap'[body'[h][k]] \in Frame
             /\ written'[h][k] = frame_to_string(heap'[body'[h][k]])
    BY <2>1, FrameTextType, FrameTextFields, GrewFromItself
  <2>2. CASE /\ written[h] # NULL /\ k \in DOMAIN body[h]
             /\ body'[h][k] = body[h][k] /\ written'[h][k] = written[h][k]
    <3>1. /\ LeadIsOwn(written[h][k])
          /\ GrewFrom(frame_to_string(heap[body[h][k]]), written[h][k])
      BY <2>2 DEF Grown
    <3>2. PICK a \in Address : a = body[h][k]
      BY <2>2 DEF Typed, Pointers
    <3>3. heap[a] # NULL
      BY <2>2, <3>2 DEF Typed, TypeOK
    <3>4. /\ heap[a] \in Frame /\ heap'[a] \in Frame
          /\ GrewFrom(frame_to_string(heap'[a]), frame_to_string(heap[a]))
      BY <3>3, HeapGrows
    <3>5. written[h][k] \in FrameText
      <4>1. written[h] \in Seq(FrameText) /\ Len(written[h]) = Len(body[h])
        BY <2>2 DEF Typed, TypeOK, TagsWritten
      <4>2. body[h] \in Seq(Address)
        BY DEF Typed, Pointers
      <4> QED  BY <2>2, <4>1, <4>2
    <3>6. GrewFrom(frame_to_string(heap'[a]), written[h][k])
      BY <3>1, <3>2, <3>4, <3>5, FrameTextType, GrewTransitive
    <3> QED  BY <2>2, <3>1, <3>2, <3>6
  <2> QED  BY <2>1, <2>2, PositionAdded
<1> QED  BY <1>1, <1>2, TypeCorrect, TagsWrittenHolds, PTL DEF Spec

(* A text that has grown from another is that text if neither of its lists *)
(* is longer.                                                              *)
Outgrew(new, old) ==
  \/ Len(new.capabilities) > Len(old.capabilities)
  \/ Len(new.constraints) > Len(old.constraints)

LEMMA GrownIsLonger ==
  ASSUME NEW a \in FrameText, NEW b \in FrameText, GrewFrom(a, b),
         LeadIsOwn(a), LeadIsOwn(b), a # b
  PROVE  Outgrew(a, b)
<1> SUFFICES ASSUME ~Outgrew(a, b) PROVE a = b
  OBVIOUS
<1>1. \A t \in FrameText :
        /\ t.capabilities \in Seq(CapabilityText) /\ t.constraints \in Seq(Constraint)
        /\ t.lead \in BOOLEAN
        /\ t = [kind |-> "frame", lead |-> t.lead,
                capabilities |-> t.capabilities, constraints |-> t.constraints]
  BY DEF FrameText
<1>2. /\ Len(a.capabilities) <= Len(b.capabilities)
      /\ Len(a.constraints) <= Len(b.constraints)
  BY <1>1 DEF Outgrew
<1>3. a.capabilities = b.capabilities
  BY <1>1, <1>2, ProlongsNoLonger DEF GrewFrom
<1>4. a.constraints = b.constraints
  BY <1>1, <1>2, ProlongsNoLonger DEF GrewFrom
<1>5. a.lead = b.lead
  BY <1>1, <1>3, <1>4 DEF LeadIsOwn
<1> QED  BY <1>1, <1>3, <1>4, <1>5

LEMMA OutgrewIsKept ==
  ASSUME NEW a \in FrameText, NEW b \in FrameText, NEW c \in FrameText,
         GrewFrom(a, b), Outgrew(b, c)
  PROVE  a # c
<1>1. \A t \in FrameText :
        /\ Len(t.capabilities) \in Nat /\ Len(t.constraints) \in Nat
  BY DEF FrameText
<1> QED  BY <1>1 DEF GrewFrom, Prolongs, Outgrew

(* The text of an object, frame by frame.                                  *)
LEMMA TextOfBody ==
  ASSUME Typed, NEW h \in Holder
  PROVE  /\ Text(h) \in Seq(ElementText) /\ Len(Text(h)) = Len(body[h])
         /\ \A k \in DOMAIN body[h] : Text(h)[k] = frame_to_string(heap[body[h][k]])
<1>1. /\ body[h] \in Seq(Address)
      /\ \A k \in DOMAIN body[h] : heap[body[h][k]] \in Frame
      /\ Values(h) \in Seq(Element) /\ Len(Values(h)) = Len(body[h])
      /\ \A k \in 1 .. Len(body[h]) : Values(h)[k] = heap[body[h][k]]
  BY ValuesType
<1>2. /\ Text(h) \in Seq(ElementText) /\ Len(Text(h)) = Len(Values(h))
      /\ \A k \in 1 .. Len(Values(h)) : Text(h)[k] = element_to_string(Values(h)[k])
  BY <1>1, BodyTextType DEF Text
<1>3. \A k \in DOMAIN body[h] : Text(h)[k] = frame_to_string(heap[body[h][k]])
  <2> TAKE k \in DOMAIN body[h]
  <2>1. k \in 1 .. Len(body[h])
    BY <1>1
  <2>2. Text(h)[k] = element_to_string(heap[body[h][k]])
    BY <1>1, <1>2, <2>1
  <2> QED  BY <1>1, <2>2, FrameTextType
<1> QED  BY <1>1, <1>2, <1>3

TextByFrame ==
  \A h \in Holder : \A k \in DOMAIN body[h] :
    Text(h)[k] = frame_to_string(heap[body[h][k]])

LEMMA TextByFrameHolds == Spec => []TextByFrame
<1>1. Typed => TextByFrame
  BY TextOfBody DEF TextByFrame
<1> QED  BY <1>1, TypeCorrect, PTL

(* Once a frame has been edited behind the back of an object made with     *)
(* add_frame, no further edit and no further frame makes the object verify *)
(* again.                                                                  *)
THEOREM NeverRepairedHolds == Spec => NeverRepaired
<1> DEFINE Kept(h) ==
             (/\ written[h] # NULL /\ body[h] # <<>> /\ ~Valid(h)
              /\ written'[h] # NULL /\ body'[h] # <<>>)
               => ~Valid(h)'
<1>1. ASSUME Typed, Typed', TagsWritten, TagsWritten', Grown,
             VerifiesWhileUnedited, VerifiesWhileUnedited', TextByFrame',
             [Next]_vars, NEW h \in Holder
      PROVE  Kept(h)
  <2> SUFFICES ASSUME written[h] # NULL, body[h] # <<>>, ~Valid(h),
                      written'[h] # NULL, body'[h] # <<>>
               PROVE  Text(h)' # written'[h]
    BY <1>1 DEF VerifiesWhileUnedited
  <2>1. Text(h) # written[h]
    BY <1>1 DEF VerifiesWhileUnedited
  <2>2. /\ body[h] \in Seq(Address) /\ written[h] \in Seq(FrameText)
        /\ Len(written[h]) = Len(body[h])
    BY <1>1 DEF Typed, TypeOK, Pointers, TagsWritten
  <2>3. PICK k \in DOMAIN body[h] : frame_to_string(heap[body[h][k]]) # written[h][k]
    <3>1. PICK x \in Seq(ElementText) : x = Text(h)
      BY <1>1, TextOfBody
    <3>2. PICK w \in Seq(FrameText) : w = written[h]
      BY <2>2
    <3>3. Len(x) = Len(w) /\ x # w
      BY <1>1, <2>1, <2>2, <3>1, <3>2, TextOfBody
    <3>4. \E k \in 1 .. Len(w) : x[k] # w[k]
      BY <3>3
    <3>5. DOMAIN body[h] = 1 .. Len(w)
      BY <2>2, <3>2
    <3> QED  BY <1>1, <3>1, <3>2, <3>4, <3>5, TextOfBody
  <2>4. PICK a \in Address : a = body[h][k]
    BY <2>2
  <2>5. /\ heap[a] # NULL
        /\ heap[a] \in Frame /\ heap'[a] \in Frame
        /\ GrewFrom(frame_to_string(heap'[a]), frame_to_string(heap[a]))
    <3>1. heap[a] # NULL
      BY <1>1, <2>4 DEF Typed, TypeOK
    <3> QED  BY <1>1, <3>1, HeapGrows
  <2>6. PICK w \in FrameText : w = written[h][k]
    BY <2>2
  <2>7. LeadIsOwn(w) /\ GrewFrom(frame_to_string(heap[a]), w)
    BY <1>1, <2>4, <2>6 DEF Grown
  <2>8. Outgrew(frame_to_string(heap[a]), w)
    BY <2>3, <2>4, <2>5, <2>6, <2>7, FrameTextType, FrameTextFields, GrownIsLonger
  <2>9. frame_to_string(heap'[a]) # w
    BY <2>5, <2>8, FrameTextType, OutgrewIsKept
  <2>10. /\ k \in DOMAIN body'[h] /\ body'[h][k] = a
         /\ written'[h][k] = w
    BY <1>1, <2>4, <2>6, PositionStays
  <2>11. \A i \in DOMAIN body'[h] :
           Text(h)'[i] = frame_to_string(heap'[body'[h][i]])
    BY <1>1 DEF TextByFrame
  <2>12. Text(h)'[k] # written'[h][k]
    BY <2>9, <2>10, <2>11
  <2> QED  BY <2>12
<1>2. Typed /\ Typed' /\ TagsWritten /\ TagsWritten' /\ Grown
        /\ VerifiesWhileUnedited /\ VerifiesWhileUnedited' /\ TextByFrame'
        /\ [Next]_vars
        => [\A h \in Holder : Kept(h)]_vars
  BY <1>1
<1>3. Spec => [][\A h \in Holder : Kept(h)]_vars
  <2> HIDE DEF Kept
  <2> QED  BY <1>2, TypeCorrect, TagsWrittenHolds, GrownHolds,
              VerifiesWhileUneditedHolds, TextByFrameHolds, PTL DEF Spec
<1> QED  BY <1>3 DEF NeverRepaired

-----------------------------------------------------------------------------
(***************************************************************************)
(* Frames as values.                                                       *)
(***************************************************************************)
ObjectOf(values, code) == [body |-> values, tag |-> code, request |-> NULL]

LEMMA ObjectsOf == Objects = [g \in Holder |-> ObjectOf(Values(g), tag[g])]
  BY DEF Objects, ObjectOf

LEMMA ObjectsOfAfter ==
  Objects' = [g \in Holder |-> ObjectOf(Values(g)', tag'[g])]
  BY DEF Objects, ObjectOf

(* Objects that hold no frame between calls of from_string are idle.       *)
LEMMA AlwaysIdle == \A h \in Holder : T!Idle(h)
  BY DEF T!Idle

(* An object whose pointers stay and whose frames stay keeps its values.   *)
LEMMA ValuesStay ==
  ASSUME NEW h \in Holder, body'[h] = body[h],
         \A k \in DOMAIN body[h] : heap'[body[h][k]] = heap[body[h][k]]
  PROVE  Values(h)' = Values(h)
BY DEF Values, ValuesOf

LEMMA NewFrameAsValue ==
  ASSUME Typed, NEW a \in Address, NewFrame(a)
  PROVE  Objects' = Objects
<1>1. \A h \in Holder : Values(h)' = Values(h)
  <2> TAKE h \in Holder
  <2>1. body'[h] = body[h]
    BY DEF NewFrame
  <2>2. \A k \in DOMAIN body[h] : body[h][k] \in Address /\ heap[body[h][k]] # NULL
    BY DEF Typed, TypeOK, Pointers
  <2>3. \A k \in DOMAIN body[h] : heap'[body[h][k]] = heap[body[h][k]]
    BY <2>2 DEF Typed, TypeOK, NewFrame
  <2> QED  BY <2>1, <2>3, ValuesStay
<1>2. tag' = tag
  BY DEF NewFrame
<1> QED  BY <1>1, <1>2, ObjectsOf, ObjectsOfAfter

LEMMA FrameFromStringAsValue ==
  ASSUME Typed, NEW a \in Address, NEW t \in PieceText, FrameFromString(a, t)
  PROVE  Edited \/ Objects' = Objects
<1>1. CASE heap'[a] # heap[a]
  BY <1>1 DEF Edited, FrameFromString
<1>2. CASE heap'[a] = heap[a]
  <2>1. \A b \in Address : heap'[b] = heap[b]
    BY <1>2 DEF FrameFromString, Typed, TypeOK
  <2>2. \A h \in Holder : Values(h)' = Values(h)
    <3> TAKE h \in Holder
    <3>1. \A k \in DOMAIN body[h] : body[h][k] \in Address
      BY DEF Typed, Pointers
    <3>2. body'[h] = body[h]
      BY DEF FrameFromString
    <3> QED  BY <2>1, <3>1, <3>2, ValuesStay
  <2>3. tag' = tag
    BY DEF FrameFromString
  <2> QED  BY <2>2, <2>3, ObjectsOf, ObjectsOfAfter
<1> QED  BY <1>1, <1>2

LEMMA NewTokenAsValue ==
  ASSUME Typed, NEW h \in Holder, NewToken(h)
  PROVE  T!NewToken(h)
<1>1. \A g \in Holder : g # h => Values(g)' = Values(g) /\ tag'[g] = tag[g]
  <2> TAKE g \in Holder
  <2> HAVE g # h
  <2>1. body'[g] = body[g] /\ heap' = heap /\ tag'[g] = tag[g]
    BY DEF Typed, TypeOK, Pointers, NewToken
  <2> QED  BY <2>1, ValuesStay
<1>2. Values(h)' = <<>> /\ tag'[h] = EmptyTag
  <2>1. body'[h] = <<>> /\ tag'[h] = EmptyTag
    BY DEF Typed, TypeOK, Pointers, NewToken
  <2> QED  BY <2>1 DEF Values, ValuesOf
<1>3. T!EmptyToken = ObjectOf(<<>>, EmptyTag)
  BY SameText DEF T!EmptyToken, ObjectOf
<1>4. Objects' = [Objects EXCEPT ![h] = T!EmptyToken]
  BY <1>1, <1>2, <1>3, ObjectsOf, ObjectsOfAfter
<1>5. [g \in Holder |-> written'[g] # NULL]
        = [[g \in Holder |-> written[g] # NULL] EXCEPT ![h] = TRUE]
  <2>1. \A g \in Holder : written'[g] = IF g = h THEN <<>> ELSE written[g]
    BY DEF Typed, TypeOK, NewToken
  <2>2. <<>> # NULL
    <3>1. <<>> \in Seq(FrameText)
      OBVIOUS
    <3> QED  BY <3>1, NullIsNoFrame, Zenon
  <2> QED  BY <2>1, <2>2
<1>6. attested' = attested
  BY DEF NewToken
<1> QED  BY <1>4, <1>5, <1>6, AlwaysIdle DEF T!NewToken

LEMMA AddedAsValue ==
  ASSUME NEW v, NEW c, NEW f
  PROVE  T!add_frame(ObjectOf(v, c), f)
           = ObjectOf(Append(v, f), T!update_tag(Append(v, f), c))
<1> DEFINE o == ObjectOf(v, c)
<1>1. o.body = v /\ o.tag = c
  BY DEF ObjectOf
<1>2. [o EXCEPT !.body = Append(v, f)] = ObjectOf(Append(v, f), c)
  BY DEF ObjectOf
<1> HIDE DEF o
<1>3. T!push_back(o, f) = ObjectOf(Append(v, f), c)
  BY <1>1, <1>2 DEF T!push_back
<1>4. ObjectOf(Append(v, f), c).body = Append(v, f)
  BY DEF ObjectOf
<1>5. \A x, y, z : [ObjectOf(x, y) EXCEPT !.tag = z] = ObjectOf(x, z)
  BY DEF ObjectOf
<1>6. T!add_frame(o, f) = ObjectOf(Append(v, f), T!update_tag(Append(v, f), c))
  BY <1>1, <1>3, <1>4, <1>5 DEF T!add_frame
<1> QED  BY <1>6 DEF o

LEMMA AddFrameAsValue ==
  ASSUME Typed, NEW h \in Holder, NEW a \in Address, AddFrame(h, a)
  PROVE  heap[a] # NULL /\ T!AddFrame(h, heap[a])
<1>1. PICK f : f = heap[a]
  OBVIOUS
<1>2. PICK longer : longer = Append(Values(h), f)
  OBVIOUS
<1>3. heap' = heap /\ Values(h)' = longer
  BY <1>1, <1>2, AddFrameEffect
<1>4. tag' = [tag EXCEPT ![h] = T!update_tag(longer, tag[h])]
  <2>1. Values(h)' = ValuesOf(body'[h])
    BY <1>3 DEF Values, ValuesOf
  <2>2. ValuesOf(body'[h]) = longer
    BY <1>3, <2>1
  <2> QED  BY <2>2 DEF AddFrame
<1>5. \A g \in Holder : g # h => Values(g)' = Values(g) /\ tag'[g] = tag[g]
  <2> TAKE g \in Holder
  <2> HAVE g # h
  <2>1. body'[g] = body[g] /\ tag'[g] = tag[g]
    BY DEF Typed, TypeOK, Pointers, AddFrame
  <2> QED  BY <1>3, <2>1, ValuesStay
<1>6. tag'[h] = T!update_tag(longer, tag[h])
  BY <1>4 DEF Typed, TypeOK
<1>7. Objects[h] = ObjectOf(Values(h), tag[h])
  BY ObjectsOf
<1>8. T!add_frame(Objects[h], f) = ObjectOf(longer, T!update_tag(longer, tag[h]))
  BY <1>2, <1>7, AddedAsValue
<1>9. Objects' = [Objects EXCEPT ![h] = T!add_frame(Objects[h], f)]
  BY <1>3, <1>5, <1>6, <1>8, ObjectsOf, ObjectsOfAfter
<1>10. Len(Objects[h].body) < MaxFrames
  <2>1. Objects[h].body = Values(h)
    BY DEF Objects
  <2>2. Len(Values(h)) = Len(body[h])
    BY ValuesType
  <2> QED  BY <2>1, <2>2 DEF AddFrame
<1>11. T!Attest(Objects'[h].tag)
  <2>1. Objects'[h].tag = tag'[h]
    BY ObjectsOfAfter DEF ObjectOf
  <2>2. T!Attest(tag'[h])
    BY DEF AddFrame
  <2> QED  BY <2>1, <2>2 DEF T!Attest
<1>12. [g \in Holder |-> written'[g] # NULL] = [g \in Holder |-> written[g] # NULL]
  <2>1. \A g \in Holder : (written'[g] # NULL) <=> (written[g] # NULL)
    <3> TAKE g \in Holder
    <3>1. CASE g # h
      BY <3>1 DEF AddFrame, Typed, TypeOK
    <3>2. CASE g = h
      <4>1. CASE written[h] = NULL
        BY <3>2, <4>1 DEF AddFrame, Typed, TypeOK
      <4>2. CASE written[h] # NULL
        <5>1. PICK w \in Seq(FrameText) : w = written[h]
          BY <4>2 DEF Typed, TypeOK
        <5>2. PICK x \in FrameText : x = frame_to_string(heap[a])
          BY AddFrameEffect, FrameTextType
        <5>3. written'[h] = Append(w, x)
          BY <4>2, <5>1, <5>2, AddFrameEffect DEF Typed, TypeOK
        <5>4. Append(w, x) \in Seq(FrameText)
          OBVIOUS
        <5>5. written'[h] # NULL
          BY <5>3, <5>4, NullIsNoFrame
        <5> QED  BY <3>2, <4>2, <5>5
      <4> QED  BY <4>1, <4>2
    <3> QED  BY <3>1, <3>2
  <2> QED  BY <2>1
<1>13. heap[a] # NULL
  BY DEF AddFrame
<1>14. T!Open(h) /\ f.kind = "frame"
  <2>1. f \in Frame /\ Objects[h].body = Values(h)
    BY <1>1, AddFrameEffect DEF Objects
  <2>2. \A e \in Frame : e.kind = "frame"
    BY DEF Frame
  <2>3. \A k \in DOMAIN Values(h) : Values(h)[k] \in Frame
    BY ValuesType
  <2> QED  BY <2>1, <2>2, <2>3 DEF T!Open
<1>15. [g \in Holder |-> written'[g] # NULL]
         = [[g \in Holder |-> written[g] # NULL] EXCEPT
              ![h] = @ /\ T!Open(h) /\ f.kind = "frame"]
  BY <1>12, <1>14
<1> QED  BY <1>1, <1>9, <1>10, <1>11, <1>13, <1>15, AlwaysIdle DEF T!AddFrame

LEMMA SetBodyFramesAsValue ==
  ASSUME Typed, NEW h \in Holder, NEW other \in Holder,
         NEW n \in 0 .. Len(body[other]), SetBodyFrames(h, other, n)
  PROVE  T!SetBodyFrames(h, other, n)
<1>1. \A g \in Holder : g # h => Values(g)' = Values(g)
  <2> TAKE g \in Holder
  <2> HAVE g # h
  <2>1. body'[g] = body[g] /\ heap' = heap
    BY DEF Typed, Pointers, SetBodyFrames
  <2> QED  BY <2>1, ValuesStay
<1>2. Values(h)' = SubSeq(Values(other), 1, n) /\ tag' = tag
  <2>1. PICK b \in Seq(Address) : b = body[other]
    BY DEF Typed, Pointers
  <2>2. body'[h] = SubSeq(b, 1, n) /\ n \in 0 .. Len(b)
    BY <2>1 DEF Typed, Pointers, SetBodyFrames
  <2>3. SubSeq(b, 1, n) \in Seq(Address) /\ Len(SubSeq(b, 1, n)) = n
          /\ \A k \in 1 .. n : SubSeq(b, 1, n)[k] = b[k]
    BY <2>2
  <2>4. Values(h)' = [k \in 1 .. n |-> heap[b[k]]]
    BY <2>2, <2>3 DEF SetBodyFrames, Values, ValuesOf
  <2>5. Values(other) = [k \in 1 .. Len(b) |-> heap[b[k]]]
    BY <2>1 DEF Values, ValuesOf
  <2>6. SubSeq(Values(other), 1, n) = [k \in 1 .. n |-> heap[b[k]]]
    <3>1. Values(other) \in Seq(Element) /\ Len(Values(other)) = Len(b)
      BY <2>1, ValuesType
    <3>2. \A k \in 1 .. n : Values(other)[k] = heap[b[k]]
      BY <2>2, <2>5
    <3> QED  BY <2>2, <3>1, <3>2
  <2> QED  BY <2>4, <2>6 DEF SetBodyFrames
<1>3. PICK values : values = SubSeq(Objects[other].body, 1, n)
                      /\ values = SubSeq(Values(other), 1, n)
  BY DEF Objects
<1>4. \A v, w, c : [ObjectOf(v, c) EXCEPT !.body = w] = ObjectOf(w, c)
  BY DEF ObjectOf
<1>5. Objects' = [Objects EXCEPT ![h] = ObjectOf(values, tag[h])]
  BY <1>1, <1>2, <1>3, ObjectsOf, ObjectsOfAfter
<1>6. [Objects[h] EXCEPT !.body = SubSeq(Objects[other].body, 1, n)]
        = ObjectOf(values, tag[h])
  <2>1. [Objects[h] EXCEPT !.body = values] = ObjectOf(values, tag[h])
    BY <1>4, ObjectsOf
  <2> QED  BY <1>3, <2>1
<1>7. Objects' = [Objects EXCEPT ![h].body = SubSeq(Objects[other].body, 1, n)]
  BY <1>5, <1>6
<1>8. [g \in Holder |-> written'[g] # NULL]
        = [[g \in Holder |-> written[g] # NULL] EXCEPT ![h] = FALSE]
  BY DEF SetBodyFrames, Typed, TypeOK
<1>9. attested' = attested
  BY DEF SetBodyFrames
<1> QED  BY <1>3, <1>7, <1>8, <1>9, AlwaysIdle DEF T!SetBodyFrames

(* Frames may be thought of as values: but for an edit of a frame in use,  *)
(* each step is a call of CapabilityToken on the values the objects hold,  *)
(* or leaves all objects as they are.                                      *)
THEOREM ValuesUnlessEditedHolds == Spec => ValuesUnlessEdited
<1> DEFINE Step ==
             \/ Edited
             \/ Objects' = Objects
             \/ \E h \in Holder :
                  \/ T!NewToken(h)
                  \/ \E a \in Address : heap[a] # NULL /\ T!AddFrame(h, heap[a])
                  \/ \E other \in Holder : \E n \in 0 .. Len(body[other]) :
                       T!SetBodyFrames(h, other, n)
<1>1. Typed /\ Next => Step
  BY NewFrameAsValue, FrameFromStringAsValue, NewTokenAsValue, AddFrameAsValue,
     SetBodyFramesAsValue DEF Next
<1>2. Typed /\ [Next]_vars => [Step]_vars
  BY <1>1
<1>3. Spec => [][Step]_vars
  <2> HIDE DEF Step
  <2> QED  BY <1>2, TypeCorrect, PTL DEF Spec
<1> QED  BY <1>3 DEF ValuesUnlessEdited
=============================================================================
