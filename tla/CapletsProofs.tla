---------------------------- MODULE CapletsProofs ---------------------------
(***************************************************************************)
(* The programs together, for any users, frames, texts, names and          *)
(* operations.  What is proved of CapabilityToken, IdentityTokens and      *)
(* RequestCheck is used here by INSTANCE: each step of Caplets is a step   *)
(* of every part, or leaves the part alone.                                *)
(***************************************************************************)
EXTENDS Caplets, TLAPS

TP == INSTANCE CapabilityTokenCallsProofs WITH Holder <- Program, NewRequest <- {}
IP == INSTANCE IdentityTokensProofs WITH Party <- Program, RequestTag <- Tag
SP == INSTANCE RequestCheckProofs WITH Inputs <- {}

-----------------------------------------------------------------------------
(***************************************************************************)
(* The parts' definitions and those the theorems about them speak of are   *)
(* the same.                                                               *)
(***************************************************************************)
LEMMA SameTags ==
  /\ T!SECRET = TP!SECRET /\ T!EmptyTag = TP!EmptyTag /\ T!OtherTag = TP!OtherTag
  /\ \A msg, key : T!compute_mac(msg, key) = TP!compute_mac(msg, key)
  /\ \A tag : T!Attest(tag) = TP!Attest(tag)
BY DEF T!SECRET, TP!SECRET, T!EmptyTag, TP!EmptyTag, T!OtherTag, TP!OtherTag,
       T!compute_mac, TP!compute_mac, T!Attest, TP!Attest

LEMMA SamePrinting ==
  /\ \A f : T!frame_to_string(f) = TP!frame_to_string(f)
  /\ \A e : T!element_to_string(e) = TP!element_to_string(e)
  /\ \A b : T!body_to_string(b) = TP!body_to_string(b)
  /\ \A t : T!TextOf(t) = TP!TextOf(t)
<1>1. \A f : T!frame_to_string(f) = TP!frame_to_string(f)
  BY DEF T!frame_to_string, TP!frame_to_string, T!cap_to_string, TP!cap_to_string,
         T!TypeNumeral, TP!TypeNumeral, T!BitsNumeral, TP!BitsNumeral,
         T!Digit, TP!Digit
<1>2. \A e : T!element_to_string(e) = TP!element_to_string(e)
  BY <1>1 DEF T!element_to_string, TP!element_to_string,
              T!request_to_string, TP!request_to_string,
              T!BitsNumeral, TP!BitsNumeral, T!Digit, TP!Digit
<1>3. \A b : T!body_to_string(b) = TP!body_to_string(b)
  BY <1>2 DEF T!body_to_string, TP!body_to_string
<1>4. \A t : T!TextOf(t) = TP!TextOf(t)
  BY <1>3 DEF T!TextOf, TP!TextOf
<1> QED  BY <1>1, <1>2, <1>3, <1>4

LEMMA SameReading ==
  /\ \A t : T!request_from_string(t) = TP!request_from_string(t)
  /\ \A t, residue : T!frame_from_string(t, residue)
                     = TP!frame_from_string(t, residue)
  /\ \A s : T!str_frames(s) = TP!str_frames(s)
  /\ \A s : T!Readable(s) = TP!Readable(s)
  /\ \A p : T!Advance(p) = TP!Advance(p)
<1>1. \A t : T!request_from_string(t) = TP!request_from_string(t)
  BY DEF T!request_from_string, TP!request_from_string,
         T!BitsOfNumeral, TP!BitsOfNumeral, T!Weight, TP!Weight
<1>2. \A t, residue : T!frame_from_string(t, residue)
                      = TP!frame_from_string(t, residue)
  BY DEF T!frame_from_string, TP!frame_from_string,
         T!cap_from_string, TP!cap_from_string,
         T!BitsOfNumeral, TP!BitsOfNumeral, T!Weight, TP!Weight
<1>3. \A s : T!str_frames(s) = TP!str_frames(s)
  BY DEF T!str_frames, TP!str_frames, T!NoText, TP!NoText
<1>4. \A s : T!Readable(s) = TP!Readable(s)
  BY DEF T!Readable, TP!Readable
<1>5. \A p : T!Advance(p) = TP!Advance(p)
  BY DEF T!Advance, TP!Advance, T!NotParsing, TP!NotParsing
<1> QED  BY <1>1, <1>2, <1>3, <1>4, <1>5

LEMMA SameMethods ==
  /\ \A t, e : T!push_back(t, e) = TP!push_back(t, e)
  /\ \A t, e : T!add_frame(t, e) = TP!add_frame(t, e)
  /\ \A t, r : T!set_read_request(t, r) = TP!set_read_request(t, r)
<1>1. \A t, e : T!push_back(t, e) = TP!push_back(t, e)
  BY DEF T!push_back, TP!push_back
<1>2. \A b, tag : T!update_tag(b, tag) = TP!update_tag(b, tag)
  BY SameTags, SamePrinting DEF T!update_tag, TP!update_tag
<1>3. \A t, e : T!add_frame(t, e) = TP!add_frame(t, e)
  BY <1>1, <1>2 DEF T!add_frame, TP!add_frame
<1>4. \A t, r : T!set_read_request(t, r) = TP!set_read_request(t, r)
  BY DEF T!set_read_request, TP!set_read_request
<1> QED  BY <1>1, <1>3, <1>4

LEMMA SameCardinality == \A s : T!Cardinality(s) = TP!Cardinality(s)
BY DEF T!Cardinality, TP!Cardinality

(* What users and the server do with capability tokens are calls of        *)
(* CapabilityToken.                                                        *)
LEMMA SameCalls ==
  ASSUME NEW h
  PROVE  /\ T!Idle(h) <=> TP!Idle(h)
         /\ T!NewToken(h) <=> TP!NewToken(h)
         /\ \A t : T!FromString(h, t) <=> TP!FromString(h, t)
         /\ T!PushFrame(h) <=> TP!PushFrame(h)
         /\ T!HolderNext(h) <=> TP!HolderNext(h)
<1>0. T!EmptyToken = TP!EmptyToken
  BY SameTags DEF T!EmptyToken, TP!EmptyToken
<1>1. T!Idle(h) <=> TP!Idle(h)
  BY DEF T!Idle, TP!Idle
<1>2. T!NewToken(h) <=> TP!NewToken(h)
  BY <1>0, <1>1 DEF T!NewToken, TP!NewToken
<1>3. \A f : T!AddFrame(h, f) <=> TP!AddFrame(h, f)
  BY <1>1, SameMethods, SameTags DEF T!AddFrame, TP!AddFrame, T!Open, TP!Open
<1>4. \A s, c : T!StartParsing(h, s, c) <=> TP!StartParsing(h, s, c)
  BY SameReading DEF T!StartParsing, TP!StartParsing
<1>5. \A t : T!FromString(h, t) <=> TP!FromString(h, t)
  BY <1>0, <1>1, <1>4 DEF T!FromString, TP!FromString
<1>6. \A s : T!FromPlainText(h, s) <=> TP!FromPlainText(h, s)
  <2>1. T!Open(h) <=> TP!Open(h)
    BY DEF T!Open, TP!Open
  <2>2. \A frames : T!ReadableText(frames) <=> TP!ReadableText(frames)
    BY SameReading DEF T!ReadableText, TP!ReadableText
  <2> QED  BY <1>1, <1>4, <2>1, <2>2 DEF T!FromPlainText, TP!FromPlainText
<1>7. T!PushFrame(h) <=> TP!PushFrame(h)
  BY SameMethods, SameReading, SameTags
     DEF T!PushFrame, TP!PushFrame, T!CapabilityType, TP!CapabilityType
<1>8. T!PrintToken(h) <=> TP!PrintToken(h)
  BY <1>1, SamePrinting, SameCardinality
     DEF T!PrintToken, TP!PrintToken, T!TextOf, TP!TextOf
<1>9. T!HolderNext(h) <=> TP!HolderNext(h)
  BY <1>0, <1>2, <1>3, <1>5, <1>6, <1>7, <1>8
     DEF T!HolderNext, TP!HolderNext, T!Open, TP!Open
<1> QED  BY <1>1, <1>2, <1>5, <1>7, <1>9

LEMMA SameAlterText == T!AlterText <=> TP!AlterText
<1>1. \A t : T!Altered(t) = TP!Altered(t)
  BY SameTags, SamePrinting
     DEF T!Altered, TP!Altered, T!AlteredFrames, TP!AlteredFrames
<1> QED  BY <1>1, SameCardinality DEF T!AlterText, TP!AlterText

(* The calls of the programs, seen on capability tokens alone, are those   *)
(* of CapabilityToken.                                                     *)
THEOREM TokensAreTokens == Spec => TP!Spec
<1>1. Init => TP!Init
  BY SameTags DEF Init, T!Init, TP!Init, T!EmptyToken, TP!EmptyToken,
                  T!NotParsing, TP!NotParsing
<1>2. [Next]_vars => [TP!Next]_TP!vars
  <2> SUFFICES ASSUME [Next]_vars PROVE TP!Next \/ UNCHANGED tokenVars
    BY DEF tokenVars, TP!vars
  <2>1. ASSUME NEW h \in Program, T!HolderNext(h) PROVE TP!Next
    BY <2>1, SameCalls DEF TP!Next
  <2>2. ASSUME NEW u \in User, UserToken(u) PROVE TP!Next
    BY <2>1, <2>2 DEF UserToken, Program
  <2>3. CASE AlterToken
    BY <2>3, SameAlterText DEF AlterToken, TP!Next
  <2>4. CASE ReadToken
    <3>1. T!HolderNext(Server)
      BY <2>4 DEF ReadToken, T!HolderNext
    <3> QED  BY <2>1, <3>1 DEF Program
  <2>5. CASE NextQuestion
    <3>1. T!HolderNext(Server)
      BY <2>5 DEF NextQuestion, T!HolderNext
    <3> QED  BY <2>1, <3>1 DEF Program
  <2>6. ASSUME UNCHANGED tokenVars PROVE UNCHANGED tokenVars
    BY <2>6
  <2> QED
    BY <2>2, <2>3, <2>4, <2>5, <2>6
       DEF Next, UserIdentity, AlterIdentity, ReadIdentity, Call, CheckStep, vars
<1> QED  BY <1>1, <1>2, PTL DEF Spec, TP!Spec

-----------------------------------------------------------------------------
(* The tags of the parts are those of the whole.                           *)
LEMMA SameTexts ==
  /\ TP!Bits = Bits /\ TP!CapabilityStructure = CapabilityStructure
  /\ TP!Frame = Frame /\ TP!Request = Request /\ TP!Element = Element
  /\ TP!ElementText = ElementText /\ TP!Tag = Tag
<1>1. TP!Bits = Bits
  BY DEF TP!Bits, Bits
<1>2. TP!Path = Path /\ TP!CapabilityType = CapabilityType
  BY DEF TP!Path, Path, TP!Star, Star, TP!CapabilityType, CapabilityType
<1>3. TP!CapabilityStructure = CapabilityStructure
  BY <1>1, <1>2 DEF TP!CapabilityStructure, CapabilityStructure
<1>4. TP!Constraint = Constraint
  BY DEF TP!Constraint, Constraint, TP!FunctionName, FunctionName
<1>5. TP!Frame = Frame
  BY <1>3, <1>4 DEF TP!Frame, Frame
<1>6. TP!Request = Request
  BY <1>3 DEF TP!Request, Request
<1>7. TP!Element = Element
  BY <1>5, <1>6 DEF TP!Element, Element
<1>8. TP!FrameText = FrameText
  BY <1>2, <1>4 DEF TP!FrameText, FrameText, TP!CapabilityText, CapabilityText
<1>9. TP!ElementText = ElementText
  BY <1>2, <1>8 DEF TP!ElementText, ElementText, TP!RequestText, RequestText
<1>10. TP!Tag = Tag
  BY <1>9 DEF TP!Tag, Tag
<1> QED  BY <1>1, <1>3, <1>5, <1>6, <1>7, <1>9, <1>10

TokenObject ==
  [body : Seq(Element), tag : Tag, request : Request \cup {NULL}]

LEMMA SameObject == TP!Object = TokenObject
  BY SameTexts DEF TP!Object, TokenObject

LEMMA SameIdentityMethods ==
  /\ I!EmptyTag = IP!EmptyTag /\ I!InitialTag = IP!InitialTag
  /\ I!InitialText = IP!InitialText /\ I!EmptyIdentity = IP!EmptyIdentity
  /\ \A id : I!create_initial_token(id) = IP!create_initial_token(id)
  /\ \A id, name : I!add_identity_token(id, name) = IP!add_identity_token(id, name)
  /\ \A id, r : I!add_request_tag(id, r) = IP!add_request_tag(id, r)
  /\ \A id, t : I!identity_from_string(id, t) = IP!identity_from_string(id, t)
  /\ \A tag : I!Compose(tag) = IP!Compose(tag)
<1>1. I!EmptyTag = IP!EmptyTag /\ I!SECRET = IP!SECRET
  BY DEF I!EmptyTag, IP!EmptyTag, I!SECRET, IP!SECRET
<1>2. \A msg, key : I!compute_mac(msg, key) = IP!compute_mac(msg, key)
  BY DEF I!compute_mac, IP!compute_mac
<1>3. \A name : I!IdentityMessage(name) = IP!IdentityMessage(name)
  BY DEF I!IdentityMessage, IP!IdentityMessage
<1>4. \A r : I!RequestTagMessage(r) = IP!RequestTagMessage(r)
  BY <1>1, <1>3 DEF I!RequestTagMessage, IP!RequestTagMessage
<1>5. \A tag, n, name, r : I!IdText(tag, n, name, r) = IP!IdText(tag, n, name, r)
  BY DEF I!IdText, IP!IdText
<1>6. I!InitialTag = IP!InitialTag
  BY <1>1, <1>2 DEF I!InitialTag, IP!InitialTag,
     I!IDENTITY_TOKEN_DUMMY_BODY, IP!IDENTITY_TOKEN_DUMMY_BODY
<1>7. I!InitialText = IP!InitialText /\ I!EmptyIdentity = IP!EmptyIdentity
  BY <1>1, <1>5, <1>6 DEF I!InitialText, IP!InitialText,
     I!EmptyIdentity, IP!EmptyIdentity
<1>8. \A id : I!create_initial_token(id) = IP!create_initial_token(id)
  BY <1>6 DEF I!create_initial_token, IP!create_initial_token
<1>9. \A id, name : I!add_identity_token(id, name) = IP!add_identity_token(id, name)
  BY <1>2, <1>3 DEF I!add_identity_token, IP!add_identity_token
<1>10. \A id, r : I!add_request_tag(id, r) = IP!add_request_tag(id, r)
  BY <1>1, <1>2, <1>4, <1>5 DEF I!add_request_tag, IP!add_request_tag
<1>11. \A id, t : I!identity_from_string(id, t) = IP!identity_from_string(id, t)
  BY DEF I!identity_from_string, IP!identity_from_string
<1>12. \A tag : I!Compose(tag) = IP!Compose(tag)
  BY DEF I!Compose, IP!Compose
<1> QED  BY <1>1, <1>6, <1>7, <1>8, <1>9, <1>10, <1>11, <1>12

LEMMA SameIdentityCalls ==
  ASSUME NEW p
  PROVE  /\ I!NewIdentity(p) => IP!NewIdentity(p)
         /\ I!CreateInitialToken(p) => IP!CreateInitialToken(p)
         /\ \A name : I!AddIdentityToken(p, name) => IP!AddIdentityToken(p, name)
         /\ \A r : I!AddRequestTag(p, r) => IP!AddRequestTag(p, r)
         /\ \A t : I!ReadIdentity(p, t) => IP!ReadIdentity(p, t)
<1>0. \A s : I!Cardinality(s) = IP!Cardinality(s)
  BY DEF I!Cardinality, IP!Cardinality
<1>1. \A t, d : I!Publish(t, d) = IP!Publish(t, d)
  BY <1>0 DEF I!Publish, IP!Publish
<1>2. I!NewIdentity(p) => IP!NewIdentity(p)
  BY SameIdentityMethods DEF I!NewIdentity, IP!NewIdentity
<1>3. I!CreateInitialToken(p) => IP!CreateInitialToken(p)
  BY <1>1, SameIdentityMethods DEF I!CreateInitialToken, IP!CreateInitialToken
<1>4. \A name : I!AddIdentityToken(p, name) => IP!AddIdentityToken(p, name)
  BY SameIdentityMethods DEF I!AddIdentityToken, IP!AddIdentityToken
<1>5. \A r : I!AddRequestTag(p, r) => IP!AddRequestTag(p, r)
  BY <1>1, SameIdentityMethods DEF I!AddRequestTag, IP!AddRequestTag
<1>6. \A t : I!StageOf(t) = IP!StageOf(t)
  BY DEF I!StageOf, IP!StageOf
<1>7. \A t : I!ReadIdentity(p, t) => IP!ReadIdentity(p, t)
  BY <1>6, SameIdentityMethods DEF I!ReadIdentity, IP!ReadIdentity
<1> QED  BY <1>2, <1>3, <1>4, <1>5, <1>7

(* The texts that IdentityTokens may alter are altered here in fewer ways: *)
(* no request tag is put in but the text's own.                            *)
LEMMA SameAlterIdentity == I!AlterIdentity => IP!AlterIdentity
<1>0. \A s : I!Cardinality(s) = IP!Cardinality(s)
  BY DEF I!Cardinality, IP!Cardinality
<1>1. \A tag, n, name, r : I!IdText(tag, n, name, r) = IP!IdText(tag, n, name, r)
  BY DEF I!IdText, IP!IdText
<1>2. I!OtherTag = IP!OtherTag /\ I!EmptyTag = IP!EmptyTag /\ I!Name = IP!Name
  BY DEF I!OtherTag, IP!OtherTag, I!EmptyTag, IP!EmptyTag, I!Name, IP!Name
<1> SUFFICES ASSUME I!AlterIdentity PROVE IP!AlterIdentity
  OBVIOUS
<1>3. PICK t \in id_wire :
        \/ id_wire' = id_wire \cup
                        {I!IdText(I!OtherTag, t.pieces, t.name, t.request_tag)}
        \/ \E pieces \in 0 .. 2, n \in I!Name, r \in {} \cup {t.request_tag, I!EmptyTag} :
             /\ pieces = 0 <=> n = ""
             /\ pieces < 2 <=> r = I!EmptyTag
             /\ id_wire' = id_wire \cup {I!IdText(t.tag, pieces, n, r)}
  BY DEF I!AlterIdentity
<1>4. IP!Cardinality(id_wire) < MaxIdTexts
      /\ UNCHANGED <<identity, stage, issued, composed>>
  BY <1>0 DEF I!AlterIdentity
<1>5. CASE id_wire' = id_wire \cup
                       {I!IdText(I!OtherTag, t.pieces, t.name, t.request_tag)}
  BY <1>1, <1>2, <1>4, <1>5 DEF IP!AlterIdentity
<1>6. ASSUME NEW pieces \in 0 .. 2, NEW n \in I!Name,
             NEW r \in {} \cup {t.request_tag, I!EmptyTag},
             pieces = 0 <=> n = "", pieces < 2 <=> r = I!EmptyTag,
             id_wire' = id_wire \cup {I!IdText(t.tag, pieces, n, r)}
      PROVE  IP!AlterIdentity
  <2>1. n \in IP!Name /\ r \in Tag \cup {t.request_tag, IP!EmptyTag}
    BY <1>2
  <2>2. /\ pieces < 2 <=> r = IP!EmptyTag
        /\ id_wire' = id_wire \cup {IP!IdText(t.tag, pieces, n, r)}
    BY <1>1, <1>2, <1>6
  <2> QED  BY <1>4, <1>6, <2>1, <2>2 DEF IP!AlterIdentity
<1> QED  BY <1>3, <1>5, <1>6

LEMMA SameIdentityTexts ==
  /\ IP!Request = Request /\ IP!Tag = Tag /\ IP!IdTag = IdTag
  /\ IP!IdentityToken = IdentityToken
<1>1. IP!Path = Path /\ IP!CapabilityType = CapabilityType /\ IP!Bits = Bits
  BY DEF IP!Path, Path, IP!Star, Star, IP!CapabilityType, CapabilityType,
         IP!Bits, Bits
<1>2. IP!Request = Request
  BY <1>1 DEF IP!Request, Request, IP!CapabilityStructure, CapabilityStructure
<1>3. IP!Constraint = Constraint
  BY DEF IP!Constraint, Constraint, IP!FunctionName, FunctionName
<1>4. IP!FrameText = FrameText
  BY <1>1, <1>3 DEF IP!FrameText, FrameText, IP!CapabilityText, CapabilityText
<1>5. IP!ElementText = ElementText
  BY <1>1, <1>4 DEF IP!ElementText, ElementText, IP!RequestText, RequestText
<1>6. IP!Tag = Tag
  BY <1>5 DEF IP!Tag, Tag
<1>7. IP!IdTag = IdTag
  <2>1. IP!IdMessage = IdMessage
    BY <1>6 DEF IP!IdMessage, IdMessage
  <2> QED  BY <2>1 DEF IP!IdTag, IdTag
<1>8. IP!IdentityToken = IdentityToken
  BY <1>6, <1>7 DEF IP!IdentityToken, IdentityToken
<1> QED  BY <1>2, <1>6, <1>7, <1>8

LEMMA SameCheckTexts ==
  /\ SP!Element = Element /\ SP!Request = Request
  /\ SP!Tag = Tag /\ SP!IdentityToken = IdentityToken /\ SP!Calls = Calls
<1>1. SP!Path = Path /\ SP!CapabilityType = CapabilityType /\ SP!Bits = Bits
  BY DEF SP!Path, Path, SP!Star, Star, SP!CapabilityType, CapabilityType,
         SP!Bits, Bits
<1>2. SP!Constraint = Constraint
  BY DEF SP!Constraint, Constraint, SP!FunctionName, FunctionName
<1>3. SP!Request = Request /\ SP!Frame = Frame
  BY <1>1, <1>2 DEF SP!Request, Request, SP!Frame, Frame,
                    SP!CapabilityStructure, CapabilityStructure
<1>4. SP!Element = Element
  BY <1>3 DEF SP!Element, Element
<1>5. SP!FrameText = FrameText
  BY <1>1, <1>2 DEF SP!FrameText, FrameText, SP!CapabilityText, CapabilityText
<1>6. SP!ElementText = ElementText
  BY <1>1, <1>5 DEF SP!ElementText, ElementText, SP!RequestText, RequestText
<1>7. SP!Tag = Tag
  BY <1>6 DEF SP!Tag, Tag
<1>8. SP!IdTag = IdTag
  <2>1. SP!IdMessage = IdMessage
    BY <1>7 DEF SP!IdMessage, IdMessage
  <2> QED  BY <2>1 DEF SP!IdTag, IdTag
<1>9. SP!IdentityToken = IdentityToken
  BY <1>7, <1>8 DEF SP!IdentityToken, IdentityToken
<1>10. \A b, r : SP!RequestAtEnd(b, r) <=> RequestAtEnd(b, r)
  BY DEF SP!RequestAtEnd, RequestAtEnd
<1>11. SP!Calls = Calls
  <2>1. SP!TokenRead = TokenRead
    BY <1>3, <1>4, <1>7, <1>10 DEF SP!TokenRead, TokenRead
  <2> QED  BY <1>1, <1>9, <2>1 DEF SP!Calls, Calls
<1> QED  BY <1>3, <1>4, <1>7, <1>9, <1>11

LEMMA SameCallTexts == S!Tag = Tag /\ S!Calls = Calls
<1>1. S!Path = Path /\ S!CapabilityType = CapabilityType /\ S!Bits = Bits
  BY DEF S!Path, Path, S!Star, Star, S!CapabilityType, CapabilityType,
         S!Bits, Bits
<1>2. S!Constraint = Constraint
  BY DEF S!Constraint, Constraint, S!FunctionName, FunctionName
<1>3. S!Request = Request /\ S!Frame = Frame
  BY <1>1, <1>2 DEF S!Request, Request, S!Frame, Frame,
                    S!CapabilityStructure, CapabilityStructure
<1>4. S!Element = Element
  BY <1>3 DEF S!Element, Element
<1>5. S!FrameText = FrameText
  BY <1>1, <1>2 DEF S!FrameText, FrameText, S!CapabilityText, CapabilityText
<1>6. S!ElementText = ElementText
  BY <1>1, <1>5 DEF S!ElementText, ElementText, S!RequestText, RequestText
<1>7. S!Tag = Tag
  BY <1>6 DEF S!Tag, Tag
<1>8. S!IdTag = IdTag
  <2>1. S!IdMessage = IdMessage
    BY <1>7 DEF S!IdMessage, IdMessage
  <2> QED  BY <2>1 DEF S!IdTag, IdTag
<1>9. S!IdentityToken = IdentityToken
  BY <1>7, <1>8 DEF S!IdentityToken, IdentityToken
<1>10. \A b, r : S!RequestAtEnd(b, r) <=> RequestAtEnd(b, r)
  BY DEF S!RequestAtEnd, RequestAtEnd
<1>11. S!Calls = Calls
  <2>1. S!TokenRead = TokenRead
    BY <1>3, <1>4, <1>7, <1>10 DEF S!TokenRead, TokenRead
  <2> QED  BY <1>1, <1>9, <2>1 DEF S!Calls, Calls
<1> QED  BY <1>7, <1>11

-----------------------------------------------------------------------------
(* The assumptions of the parts follow from those of the whole.            *)
LEMMA PartsAssume ==
  /\ TP!StarIsNoComponent /\ TP!TokenAssumption
  /\ IP!StarIsNoComponent /\ IP!NullIsNoObject /\ IP!IdentityAssumption
  /\ SP!StarIsNoComponent /\ SP!NullIsNoObject /\ SP!InputAssumption
<1>1. TP!StarIsNoComponent /\ IP!StarIsNoComponent /\ SP!StarIsNoComponent
  BY StarIsNoComponent
     DEF TP!StarIsNoComponent, IP!StarIsNoComponent, SP!StarIsNoComponent
<1>2. TP!TokenAssumption
  BY CapletsAssumption, NullIsNoObject, SameTexts DEF TP!TokenAssumption
<1>3. IP!NullIsNoObject /\ IP!IdentityAssumption
  BY CapletsAssumption, NullIsNoObject, SameIdentityTexts
     DEF IP!NullIsNoObject, IP!IdentityAssumption
<1>4. SP!NullIsNoObject
  BY NullIsNoObject, SameCheckTexts DEF SP!NullIsNoObject
<1>5. SP!InputAssumption
  BY DEF SP!InputAssumption
<1> QED  BY <1>1, <1>2, <1>3, <1>4, <1>5

LEMMA TokenTypes == Spec => []TP!TypeOK
<1>1. TP!Spec => []TP!TypeOK
  BY TP!CallersTypeCorrect, PartsAssume
<1> QED  BY <1>1, TokensAreTokens, PTL

(* The calls of the programs, seen on identity tokens alone, are calls of  *)
(* IdentityTokens with the tags of capability tokens for request tags.     *)
THEOREM IdentitiesAreIdentities == Spec => IP!Spec
<1>1. Init => IP!Init
  BY SameIdentityMethods DEF Init, I!Init, IP!Init
<1>2. TP!TypeOK /\ [Next]_vars => [IP!Next]_IP!vars
  <2> SUFFICES ASSUME TP!TypeOK, [Next]_vars
               PROVE  IP!Next \/ UNCHANGED identityVars
    BY DEF identityVars, IP!vars
  <2>1. ASSUME NEW u \in User, UserIdentity(u) PROVE IP!Next
    <3>0. u \in Program
      BY DEF Program
    <3>1. CASE I!CreateInitialToken(u)
      BY <3>0, <3>1, SameIdentityCalls DEF IP!Next, IP!PartyNext
    <3>2. ASSUME NEW name \in Principal, I!AddIdentityToken(u, name)
          PROVE  IP!Next
      BY <3>0, <3>2, SameIdentityCalls DEF IP!Next, IP!PartyNext, IP!Name
    <3>3. CASE I!AddRequestTag(u, token[u].tag)
      <4>1. token[u].tag \in Tag
        BY <3>0, SameTexts DEF TP!TypeOK, TP!Object
      <4> QED  BY <3>0, <3>3, <4>1, SameIdentityCalls DEF IP!Next, IP!PartyNext
    <3> QED  BY <2>1, <3>1, <3>2, <3>3 DEF UserIdentity
  <2>2. CASE AlterIdentity
    BY <2>2, SameAlterIdentity DEF AlterIdentity, IP!Next
  <2>3. CASE ReadIdentity
    BY <2>3, SameIdentityCalls DEF ReadIdentity, IP!Next, IP!PartyNext, Program
  <2>4. CASE NextQuestion
    BY <2>4, SameIdentityCalls DEF NextQuestion, IP!Next, IP!PartyNext, Program
  <2>5. ASSUME UNCHANGED identityVars PROVE UNCHANGED identityVars
    BY <2>5
  <2> QED
    BY <2>1, <2>2, <2>3, <2>4, <2>5
       DEF Next, UserToken, AlterToken, ReadToken, Call, CheckStep, vars
<1> QED  BY <1>1, <1>2, TokenTypes, PTL DEF Spec, IP!Spec

-----------------------------------------------------------------------------
(***************************************************************************)
(* The decision is the same in the check, in what is proved of it, in the  *)
(* abstract service and here.                                              *)
(***************************************************************************)
LEMMA SameComparisons ==
  /\ \A c, d : /\ S!GrantedBy(c, d) <=> GrantedBy(c, d)
               /\ SP!GrantedBy(c, d) <=> GrantedBy(c, d)
               /\ A!GrantedBy(c, d) <=> GrantedBy(c, d)
  /\ \A c, caps : /\ S!GrantedBySome(c, caps) <=> GrantedBySome(c, caps)
                  /\ SP!GrantedBySome(c, caps) <=> GrantedBySome(c, caps)
                  /\ A!GrantedBySome(c, caps) <=> GrantedBySome(c, caps)
  /\ \A e, f : /\ S!CapabilitiesDerived(e, f) <=> CapabilitiesDerived(e, f)
               /\ SP!CapabilitiesDerived(e, f) <=> CapabilitiesDerived(e, f)
               /\ A!CapabilitiesDerived(e, f) <=> CapabilitiesDerived(e, f)
  /\ \A e, id : /\ S!ConstraintsHold(e, id) <=> ConstraintsHold(e, id)
                /\ SP!ConstraintsHold(e, id) <=> ConstraintsHold(e, id)
                /\ A!ConstraintsHold(e, id) <=> ConstraintsHold(e, id)
  /\ \A p, q : /\ S!is_cap_bits_valid(p, q) <=> is_cap_bits_valid(p, q)
               /\ SP!is_cap_bits_valid(p, q) <=> is_cap_bits_valid(p, q)
               /\ A!is_cap_bits_valid(p, q) <=> is_cap_bits_valid(p, q)
<1>1. \A p, q : /\ S!is_cap_bits_valid(p, q) <=> is_cap_bits_valid(p, q)
                /\ SP!is_cap_bits_valid(p, q) <=> is_cap_bits_valid(p, q)
                /\ A!is_cap_bits_valid(p, q) <=> is_cap_bits_valid(p, q)
  BY DEF S!is_cap_bits_valid, SP!is_cap_bits_valid, A!is_cap_bits_valid,
         is_cap_bits_valid
<1>2. \A p, q : /\ S!is_path_subset_of_path(p, q) <=> is_path_subset_of_path(p, q)
                /\ SP!is_path_subset_of_path(p, q) <=> is_path_subset_of_path(p, q)
                /\ A!is_path_subset_of_path(p, q) <=> is_path_subset_of_path(p, q)
  BY DEF S!is_path_subset_of_path, SP!is_path_subset_of_path,
         A!is_path_subset_of_path, is_path_subset_of_path,
         S!Star, SP!Star, A!Star, Star
<1>3. \A c, d : /\ S!is_cap_subset_of_cap(c, d) <=> is_cap_subset_of_cap(c, d)
                /\ SP!is_cap_subset_of_cap(c, d) <=> is_cap_subset_of_cap(c, d)
                /\ A!is_cap_subset_of_cap(c, d) <=> is_cap_subset_of_cap(c, d)
  BY <1>1 DEF S!is_cap_subset_of_cap, SP!is_cap_subset_of_cap,
              A!is_cap_subset_of_cap, is_cap_subset_of_cap
<1>4. \A c, d : /\ S!GrantedBy(c, d) <=> GrantedBy(c, d)
                /\ SP!GrantedBy(c, d) <=> GrantedBy(c, d)
                /\ A!GrantedBy(c, d) <=> GrantedBy(c, d)
  BY <1>2, <1>3 DEF S!GrantedBy, SP!GrantedBy, A!GrantedBy, GrantedBy
<1>5. \A c, caps : /\ S!GrantedBySome(c, caps) <=> GrantedBySome(c, caps)
                   /\ SP!GrantedBySome(c, caps) <=> GrantedBySome(c, caps)
                   /\ A!GrantedBySome(c, caps) <=> GrantedBySome(c, caps)
  BY <1>4 DEF S!GrantedBySome, SP!GrantedBySome, A!GrantedBySome, GrantedBySome
<1>6. \A e, f : /\ S!CapabilitiesDerived(e, f) <=> CapabilitiesDerived(e, f)
                /\ SP!CapabilitiesDerived(e, f) <=> CapabilitiesDerived(e, f)
                /\ A!CapabilitiesDerived(e, f) <=> CapabilitiesDerived(e, f)
  BY <1>5 DEF S!CapabilitiesDerived, SP!CapabilitiesDerived,
              A!CapabilitiesDerived, CapabilitiesDerived
<1>7. \A c, id : /\ S!is_valid_constraint(c, id) <=> is_valid_constraint(c, id)
                 /\ SP!is_valid_constraint(c, id) <=> is_valid_constraint(c, id)
                 /\ A!is_valid_constraint(c, id) <=> is_valid_constraint(c, id)
  BY DEF S!is_valid_constraint, SP!is_valid_constraint, A!is_valid_constraint,
         is_valid_constraint
<1>8. \A e, id : /\ S!ConstraintsHold(e, id) <=> ConstraintsHold(e, id)
                 /\ SP!ConstraintsHold(e, id) <=> ConstraintsHold(e, id)
                 /\ A!ConstraintsHold(e, id) <=> ConstraintsHold(e, id)
  BY <1>7 DEF S!ConstraintsHold, SP!ConstraintsHold, A!ConstraintsHold,
              ConstraintsHold
<1> QED  BY <1>1, <1>4, <1>5, <1>6, <1>8

LEMMA SameCodes ==
  /\ S!SECRET = SECRET /\ SP!SECRET = SECRET
  /\ S!EmptyTag = EmptyTag /\ SP!EmptyTag = EmptyTag
  /\ \A e : /\ S!element_to_string(e) = element_to_string(e)
            /\ SP!element_to_string(e) = element_to_string(e)
            /\ TP!element_to_string(e) = element_to_string(e)
            /\ A!element_to_string(e) = element_to_string(e)
  /\ \A b : /\ S!SignatureOf(b) = SignatureOf(b)
            /\ SP!SignatureOf(b) = SignatureOf(b)
            /\ TP!SignatureOf(b) = SignatureOf(b)
  /\ \A b : /\ TP!body_to_string(b) = body_to_string(b)
            /\ A!body_to_string(b) = body_to_string(b)
            /\ SP!body_to_string(b) = body_to_string(b)
  /\ \A msg, key : /\ S!compute_mac(msg, key) = compute_mac(msg, key)
                   /\ SP!compute_mac(msg, key) = compute_mac(msg, key)
<1>1. /\ S!SECRET = SECRET /\ SP!SECRET = SECRET
      /\ S!EmptyTag = EmptyTag /\ SP!EmptyTag = EmptyTag
  BY DEF S!SECRET, SP!SECRET, SECRET, S!EmptyTag, SP!EmptyTag, EmptyTag
<1>2. \A msg, key : /\ S!compute_mac(msg, key) = compute_mac(msg, key)
                    /\ SP!compute_mac(msg, key) = compute_mac(msg, key)
  BY DEF S!compute_mac, SP!compute_mac, compute_mac
<1>3. \A n : /\ S!BitsNumeral(n) = BitsNumeral(n) /\ SP!BitsNumeral(n) = BitsNumeral(n)
             /\ TP!BitsNumeral(n) = BitsNumeral(n) /\ A!BitsNumeral(n) = BitsNumeral(n)
  BY DEF S!BitsNumeral, SP!BitsNumeral, TP!BitsNumeral, A!BitsNumeral, BitsNumeral,
         S!Digit, SP!Digit, TP!Digit, A!Digit, Digit
<1>4. \A c : /\ S!cap_to_string(c) = cap_to_string(c)
             /\ SP!cap_to_string(c) = cap_to_string(c)
             /\ TP!cap_to_string(c) = cap_to_string(c)
             /\ A!cap_to_string(c) = cap_to_string(c)
  BY <1>3 DEF S!cap_to_string, SP!cap_to_string, TP!cap_to_string,
     A!cap_to_string, cap_to_string,
     S!TypeNumeral, SP!TypeNumeral, TP!TypeNumeral, A!TypeNumeral, TypeNumeral
<1>5. \A f : /\ S!frame_to_string(f) = frame_to_string(f)
             /\ SP!frame_to_string(f) = frame_to_string(f)
             /\ TP!frame_to_string(f) = frame_to_string(f)
             /\ A!frame_to_string(f) = frame_to_string(f)
  BY <1>4 DEF S!frame_to_string, SP!frame_to_string, TP!frame_to_string,
     A!frame_to_string, frame_to_string
<1>6. \A r : /\ S!request_to_string(r) = request_to_string(r)
             /\ SP!request_to_string(r) = request_to_string(r)
             /\ TP!request_to_string(r) = request_to_string(r)
             /\ A!request_to_string(r) = request_to_string(r)
  BY <1>3 DEF S!request_to_string, SP!request_to_string, TP!request_to_string,
     A!request_to_string, request_to_string
<1>7. \A e : /\ S!element_to_string(e) = element_to_string(e)
             /\ SP!element_to_string(e) = element_to_string(e)
             /\ TP!element_to_string(e) = element_to_string(e)
             /\ A!element_to_string(e) = element_to_string(e)
  BY <1>5, <1>6 DEF S!element_to_string, SP!element_to_string,
     TP!element_to_string, A!element_to_string, element_to_string
<1>8. \A b : /\ S!body_to_string(b) = body_to_string(b)
             /\ SP!body_to_string(b) = body_to_string(b)
             /\ TP!body_to_string(b) = body_to_string(b)
             /\ A!body_to_string(b) = body_to_string(b)
  BY <1>7 DEF S!body_to_string, SP!body_to_string, TP!body_to_string,
     A!body_to_string, body_to_string
<1>9. \A b : /\ S!SignatureOf(b) = SignatureOf(b)
             /\ SP!SignatureOf(b) = SignatureOf(b)
             /\ TP!SignatureOf(b) = SignatureOf(b)
  BY <1>8 DEF S!SignatureOf, SP!SignatureOf, TP!SignatureOf, SignatureOf
<1> QED  BY <1>1, <1>2, <1>7, <1>8, <1>9

LEMMA SameIdentityCodes ==
  /\ \A n, r : /\ S!IdSignatureOf(n, r) = IdSignatureOf(n, r)
               /\ SP!IdSignatureOf(n, r) = IdSignatureOf(n, r)
               /\ IP!IdSignatureOf(n, r) = IdSignatureOf(n, r)
  /\ \A tag, id : /\ S!is_valid_identity_token(tag, id)
                       <=> is_valid_identity_token(tag, id)
                  /\ SP!is_valid_identity_token(tag, id)
                       <=> is_valid_identity_token(tag, id)
                  /\ IP!is_valid_identity_token(tag, id)
                       <=> is_valid_identity_token(tag, id)
  /\ IP!EmptyTag = EmptyTag
<1>0. IP!EmptyTag = EmptyTag /\ IP!SECRET = SECRET
  BY DEF IP!EmptyTag, EmptyTag, IP!SECRET, SECRET
<1>1. \A msg, key : IP!compute_mac(msg, key) = compute_mac(msg, key)
  BY DEF IP!compute_mac, compute_mac
<1>2. \A name : /\ S!IdentityMessage(name) = IdentityMessage(name)
                /\ SP!IdentityMessage(name) = IdentityMessage(name)
                /\ IP!IdentityMessage(name) = IdentityMessage(name)
  BY DEF S!IdentityMessage, SP!IdentityMessage, IP!IdentityMessage, IdentityMessage
<1>3. \A r : /\ S!RequestTagMessage(r) = RequestTagMessage(r)
             /\ SP!RequestTagMessage(r) = RequestTagMessage(r)
             /\ IP!RequestTagMessage(r) = RequestTagMessage(r)
  BY <1>0, <1>2, SameCodes DEF S!RequestTagMessage, SP!RequestTagMessage,
     IP!RequestTagMessage, RequestTagMessage
<1>4. \A n, r : /\ S!IdSignatureOf(n, r) = IdSignatureOf(n, r)
                /\ SP!IdSignatureOf(n, r) = IdSignatureOf(n, r)
                /\ IP!IdSignatureOf(n, r) = IdSignatureOf(n, r)
  BY <1>0, <1>1, <1>2, <1>3, SameCodes
     DEF S!IdSignatureOf, SP!IdSignatureOf, IP!IdSignatureOf, IdSignatureOf,
         S!IDENTITY_TOKEN_DUMMY_BODY, SP!IDENTITY_TOKEN_DUMMY_BODY,
         IP!IDENTITY_TOKEN_DUMMY_BODY, IDENTITY_TOKEN_DUMMY_BODY
<1>5. \A id : /\ S!is_valid_id_signature(id) <=> is_valid_id_signature(id)
              /\ SP!is_valid_id_signature(id) <=> is_valid_id_signature(id)
              /\ IP!is_valid_id_signature(id) <=> is_valid_id_signature(id)
  BY <1>4 DEF S!is_valid_id_signature, SP!is_valid_id_signature,
     IP!is_valid_id_signature, is_valid_id_signature
<1>6. \A tag, id : /\ S!is_valid_identity_token(tag, id)
                        <=> is_valid_identity_token(tag, id)
                   /\ SP!is_valid_identity_token(tag, id)
                        <=> is_valid_identity_token(tag, id)
                   /\ IP!is_valid_identity_token(tag, id)
                        <=> is_valid_identity_token(tag, id)
  BY <1>0, <1>5, SameCodes DEF S!is_valid_identity_token,
     SP!is_valid_identity_token, IP!is_valid_identity_token, is_valid_identity_token
<1> QED  BY <1>0, <1>4, <1>6

LEMMA SameDecision ==
  /\ \A t : (S!Signed(t) <=> Signed(t)) /\ (SP!Signed(t) <=> Signed(t))
  /\ \A b : /\ S!Derived(b) <=> Derived(b)
            /\ SP!Derived(b) <=> Derived(b)
            /\ A!Derived(b) <=> Derived(b)
  /\ \A b, k : /\ S!FirstConstrained(b, k) <=> FirstConstrained(b, k)
               /\ SP!FirstConstrained(b, k) <=> FirstConstrained(b, k)
  /\ \A b, id : /\ S!IdentityAccepted(b, id) <=> IdentityAccepted(b, id)
                /\ SP!IdentityAccepted(b, id) <=> IdentityAccepted(b, id)
                /\ A!IdentityAccepted(b, id) <=> IdentityAccepted(b, id)
  /\ \A in : (SP!Granted(in) <=> Granted(in)) /\ (A!Granted(in) <=> Granted(in))
  /\ \A in : SP!Verdicts(in) = Verdicts(in)
<1>1. \A t : (S!Signed(t) <=> Signed(t)) /\ (SP!Signed(t) <=> Signed(t))
  BY SameCodes DEF S!Signed, SP!Signed, Signed
<1>2. \A b : /\ S!Derived(b) <=> Derived(b)
             /\ SP!Derived(b) <=> Derived(b)
             /\ A!Derived(b) <=> Derived(b)
  BY SameComparisons DEF S!Derived, SP!Derived, A!Derived, Derived
<1>3. \A b, k : /\ S!FirstConstrained(b, k) <=> FirstConstrained(b, k)
                /\ SP!FirstConstrained(b, k) <=> FirstConstrained(b, k)
                /\ A!FirstConstrained(b, k) <=> FirstConstrained(b, k)
  BY DEF S!FirstConstrained, SP!FirstConstrained, A!FirstConstrained,
         FirstConstrained
<1>4. \A b, id : /\ S!IdentityAccepted(b, id) <=> IdentityAccepted(b, id)
                 /\ SP!IdentityAccepted(b, id) <=> IdentityAccepted(b, id)
                 /\ A!IdentityAccepted(b, id) <=> IdentityAccepted(b, id)
  BY <1>3, SameComparisons DEF S!IdentityAccepted, SP!IdentityAccepted,
     A!IdentityAccepted, IdentityAccepted
<1>5. \A in : (SP!Granted(in) <=> Granted(in)) /\ (A!Granted(in) <=> Granted(in))
  BY SameComparisons DEF SP!Granted, A!Granted, Granted
<1>6. \A in : SP!Trusted(in) <=> Trusted(in)
  BY <1>1, <1>2, <1>4, SameIdentityCodes DEF SP!Trusted, Trusted
<1>7. \A in : SP!Verdicts(in) = Verdicts(in)
  BY <1>5, <1>6 DEF SP!Verdicts, Verdicts
<1> QED  BY <1>1, <1>2, <1>3, <1>4, <1>5, <1>7

(* A step of the check here is a step of RequestCheck, and what is kept    *)
(* true along it is the same.                                              *)
LEMMA SameChecks ==
  /\ S!Step => SP!Next
  /\ S!TypeOK <=> SP!TypeOK
  /\ S!Established <=> SP!Established
<1>0. S!body = SP!body /\ S!id = SP!id
  BY DEF S!body, SP!body, S!id, SP!id
<1>1. /\ \A v : S!Return(v) <=> SP!Return(v)
      /\ \A v : S!Goto(v) <=> SP!Goto(v)
  BY DEF S!Return, SP!Return, S!Goto, SP!Goto
<1>2. S!Step => SP!Next
  <2>1. S!CheckIdentity => SP!CheckIdentity
    BY <1>0, <1>1, SameIdentityCodes DEF S!CheckIdentity, SP!CheckIdentity
  <2>2. S!ExtendTag => SP!ExtendTag
    BY <1>0, SameCodes DEF S!ExtendTag, SP!ExtendTag
  <2>3. S!CompareTag => SP!CompareTag
    BY <1>0, <1>1 DEF S!CompareTag, SP!CompareTag
  <2>4. S!DeriveNext => SP!DeriveNext
    BY <1>0, <1>1, SameComparisons DEF S!DeriveNext, SP!DeriveNext
  <2>5. S!DerivationPassed => SP!DerivationPassed
    BY <1>0, <1>1 DEF S!DerivationPassed, SP!DerivationPassed
  <2>6. S!CompareRequest => SP!CompareRequest
    BY <1>0, <1>1, SameComparisons DEF S!CompareRequest, SP!CompareRequest
  <2>7. S!CompareGarbage => SP!CompareGarbage
    BY <1>0, <1>1 DEF S!CompareGarbage, SP!CompareGarbage
  <2>8. S!CompareOperation => SP!CompareOperation
    BY <1>1, SameComparisons DEF S!CompareOperation, SP!CompareOperation
  <2> QED
    BY <2>1, <2>2, <2>3, <2>4, <2>5, <2>6, <2>7, <2>8
       DEF S!Step, SP!Step, SP!Next
<1>3. S!TypeOK <=> SP!TypeOK
  <2>1. S!Tag = SP!Tag /\ S!Calls = SP!Calls
    BY SameCheckTexts, SameCallTexts
  <2> QED  BY <1>0, <2>1 DEF S!TypeOK, SP!TypeOK
<1>4. S!Established <=> SP!Established
  <2>1. S!BoundToIdentity <=> SP!BoundToIdentity
    BY <1>0, SameDecision, SameCodes, SameIdentityCodes
       DEF S!BoundToIdentity, SP!BoundToIdentity, S!Accepted, SP!Accepted,
           S!HasRequest, SP!HasRequest
  <2>2. \A b, n : /\ S!SignedUpTo(b, n) <=> SP!SignedUpTo(b, n)
                  /\ S!DerivedUpTo(b, n) <=> SP!DerivedUpTo(b, n)
                  /\ S!ConstraintsUpTo(b, n) <=> SP!ConstraintsUpTo(b, n)
    BY <1>0, SameComparisons, SameDecision, SameCodes
       DEF S!SignedUpTo, SP!SignedUpTo, S!DerivedUpTo, SP!DerivedUpTo,
           S!ConstraintsUpTo, SP!ConstraintsUpTo
  <2>3. S!HasRequest <=> SP!HasRequest
    BY <1>0 DEF S!HasRequest, SP!HasRequest
  <2> QED
    BY <1>0, <2>1, <2>2, <2>3, SameComparisons, SameDecision, SameIdentityCodes
       DEF S!Established, SP!Established
<1> QED  BY <1>2, <1>3, <1>4

-----------------------------------------------------------------------------
(***************************************************************************)
(* What the server reads.                                                  *)
(***************************************************************************)

(* A call of one user leaves the server's objects alone.                   *)
LEMMA ServerUntouched ==
  ASSUME TP!TypeOK, NEW u \in User, T!HolderNext(u)
  PROVE  /\ token'[Server] = token[Server] /\ parsing'[Server] = parsing[Server]
         /\ clean'[Server] = clean[Server]
         /\ Server \in crashed' <=> Server \in crashed
<1>1. u \in Program /\ Server \in Program /\ Server # u
  BY CapletsAssumption DEF Program
<1>2. TP!HolderNext(u)
  BY SameCalls
<1> QED  BY <1>1, <1>2, TP!OthersUntouched, PartsAssume

LEMMA ServerIdentityUntouched ==
  ASSUME IP!TypeOK, NEW u \in User, UserIdentity(u)
  PROVE  identity'[Server] = identity[Server] /\ stage'[Server] = stage[Server]
<1>1. u \in Program /\ Server \in Program /\ Server # u
  BY CapletsAssumption DEF Program
<1> QED
  BY <1>1 DEF UserIdentity, I!CreateInitialToken, I!AddIdentityToken,
              I!AddRequestTag, IP!TypeOK

(* An identity text that the documented calls gave, with both its pieces,  *)
(* is read as an identity token that verifies.                             *)
LEMMA PresentedVerifies ==
  ASSUME IP!TypeOK, IP!Stages, NEW t \in issued, I!StageOf(t) = "presented",
         NEW e, NEW id, id = I!identity_from_string(e, t)
  PROVE  is_valid_identity_token(id.request_tag, id)
<1>1. t.pieces = 2
  <2>1. t.pieces \in 0 .. 2
    BY DEF IP!TypeOK, IP!IdString
  <2> QED  BY <2>1 DEF I!StageOf
<1>2. /\ t.name # "" /\ t.request_tag # EmptyTag
      /\ t.tag = IdSignatureOf(t.name, t.request_tag)
  BY <1>1, SameIdentityCodes DEF IP!Stages, IP!StageText
<1>3. t.tag # EmptyTag
  <2>1. t.tag.base = "secret"
    BY <1>2 DEF IdSignatureOf, compute_mac, SECRET
  <2> QED  BY <2>1 DEF EmptyTag
<1>4. id = [identity_token |-> t.name, request_tag |-> t.request_tag,
            tag |-> t.tag]
  BY <1>1 DEF I!identity_from_string
<1>5. /\ id.identity_token = t.name /\ id.request_tag = t.request_tag
      /\ id.tag = t.tag
  BY <1>4
<1> QED  BY <1>2, <1>3, <1>5 DEF is_valid_identity_token, is_valid_id_signature

LEMMA ServerReadsStep ==
  ASSUME TP!TypeOK, IP!TypeOK, IP!Stages, ServerReads, [Next]_vars
  PROVE  ServerReads'
<1> DEFINE Body == T!Idle(Server) =>
                     token[Server] = T!EmptyToken \/ token[Server].body # <<>>
           Ident == stage[Server] = "presented" =>
                      is_valid_identity_token(identity[Server].request_tag,
                                              identity[Server])
<1>0. /\ Server \in Program
      /\ token \in [Program -> TP!Object]
      /\ DOMAIN identity = Program /\ DOMAIN stage = Program
      /\ DOMAIN parsing = Program
      /\ parsing[Server].calc_tag \in BOOLEAN
  <2>1. Server \in Program
    BY DEF Program
  <2>2. /\ token \in [Program -> TP!Object]
        /\ DOMAIN parsing = Program /\ parsing[Server].calc_tag \in BOOLEAN
    BY <2>1 DEF TP!TypeOK
  <2>3. DOMAIN identity = Program /\ DOMAIN stage = Program
    BY DEF IP!TypeOK
  <2> QED  BY <2>1, <2>2, <2>3
<1>1. Body /\ Ident
  BY DEF ServerReads
<1>2. ASSUME token'[Server] = token[Server], parsing'[Server] = parsing[Server],
             Server \in crashed' <=> Server \in crashed
      PROVE  Body'
  BY <1>1, <1>2 DEF T!Idle, T!EmptyToken, T!EmptyTag
<1>3. ASSUME identity'[Server] = identity[Server], stage'[Server] = stage[Server]
      PROVE  Ident'
  BY <1>1, <1>3
<1>4. ASSUME NEW u \in User, UserToken(u) PROVE Body' /\ Ident'
  <2>1. Body'
    BY <1>2, <1>4, ServerUntouched DEF UserToken
  <2> QED  BY <1>3, <1>4, <2>1 DEF UserToken, identityVars
<1>5. ASSUME NEW u \in User, UserIdentity(u) PROVE Body' /\ Ident'
  <2>1. Ident'
    BY <1>3, <1>5, ServerIdentityUntouched
  <2> QED  BY <1>2, <1>5, <2>1 DEF UserIdentity, tokenVars
<1>6. ASSUME ReadToken PROVE Body' /\ Ident'
  <2>1. Ident'
    BY <1>3, <1>6 DEF ReadToken, identityVars
  <2>2. ASSUME NEW t \in wire, T!FromString(Server, t) PROVE Body'
    BY <1>0, <2>2 DEF T!FromString, T!StartParsing, T!Idle, TP!TypeOK
  <2>3. ASSUME T!PushFrame(Server) PROVE Body'
    <3>1. TP!PushFrame(Server)
      BY <2>3, SameCalls
    <3>2. \/ Server \in crashed'
          \/ \E e, base : /\ TP!ReadInto(token[Server], Head(parsing[Server].rest), e, base)
                          /\ token' = [token EXCEPT
                               ![Server] = TP!Pushing(base, e, parsing[Server].calc_tag)]
      BY <1>0, <3>1, TP!PushFrameStep, PartsAssume
    <3>3. ASSUME NEW e, NEW base,
                 TP!ReadInto(token[Server], Head(parsing[Server].rest), e, base),
                 token' = [token EXCEPT
                   ![Server] = TP!Pushing(base, e, parsing[Server].calc_tag)]
          PROVE  token'[Server].body # <<>>
      <4>1. e \in TP!Element /\ base \in TP!Object
        BY <1>0, <3>3, SameObject, TP!ReadIntoType, PartsAssume
      <4>2. parsing[Server].calc_tag \in BOOLEAN
        BY <1>0 DEF TP!TypeOK
      <4>3. TP!Pushing(base, e, parsing[Server].calc_tag).body = Append(base.body, e)
        BY <4>1, <4>2, TP!PushingEffect, PartsAssume
      <4>4. Append(base.body, e) # <<>>
        BY <4>1 DEF TP!Object
      <4> QED  BY <1>0, <3>3, <4>3, <4>4
    <3> QED  BY <3>2, <3>3 DEF T!Idle
  <2> QED  BY <1>6, <2>1, <2>2, <2>3 DEF ReadToken
<1>7. ASSUME ReadIdentity PROVE Body' /\ Ident'
  <2>1. Body'
    BY <1>2, <1>7 DEF ReadIdentity, tokenVars
  <2>2. PICK t \in id_wire : I!ReadIdentity(Server, t)
    BY <1>7 DEF ReadIdentity
  <2>3. /\ identity'[Server] = I!identity_from_string(identity[Server], t)
        /\ stage'[Server] = I!StageOf(t)
    BY <1>0, <2>2 DEF I!ReadIdentity
  <2>4. I!StageOf(t) = "presented" => t \in issued
    BY DEF I!StageOf
  <2> QED  BY <2>1, <2>3, <2>4, PresentedVerifies
<1>8. ASSUME NextQuestion PROVE Body' /\ Ident'
  <2>1. token'[Server] = T!EmptyToken /\ stage'[Server] = "none"
    BY <1>0, <1>8 DEF NextQuestion, T!NewToken, I!NewIdentity
  <2> QED  BY <2>1 DEF T!EmptyToken, T!EmptyTag
<1>9. ASSUME UNCHANGED <<token, parsing, crashed, identity, stage>> PROVE Body' /\ Ident'
  BY <1>2, <1>3, <1>9
<1>10. Body' /\ Ident'
  BY <1>4, <1>5, <1>6, <1>7, <1>8, <1>9
     DEF Next, AlterToken, AlterIdentity, Call, CheckStep, vars, tokenVars,
         identityVars, T!AlterText, I!AlterIdentity
<1> QED  BY <1>10 DEF ServerReads

(* What the server has read before it calls: a token with an element, and  *)
(* an identity that verifies if the documented calls made it.              *)
THEOREM ServerReadsHolds == Spec => []ServerReads
<1>1. Init => ServerReads
  BY DEF Init, T!Init, I!Init, ServerReads, Program
<1>2. TP!TypeOK /\ IP!TypeOK /\ IP!Stages /\ ServerReads /\ [Next]_vars
        => ServerReads'
  BY ServerReadsStep
<1>3. IP!Spec => []IP!TypeOK
  BY IP!TypeCorrect, PartsAssume
<1>4. IP!Spec => []IP!Stages
  BY IP!StagesHold, PartsAssume
<1> QED
  BY <1>1, <1>2, <1>3, <1>4, TokenTypes, IdentitiesAreIdentities, PTL DEF Spec

-----------------------------------------------------------------------------
(***************************************************************************)
(* What the server answers.                                                *)
(***************************************************************************)
ServedCall ==
  /\ T!Idle(Server) /\ token[Server] # T!EmptyToken
  /\ input.token = token[Server]
  /\ input.id \in {NULL, identity[Server]}

(* Serves, with the definitions of RequestCheck that the theorems about it *)
(* speak of.                                                               *)
ServesChecked ==
  IF verdict = "none" THEN pc = "done"
  ELSE /\ ServedCall
       /\ SP!TypeOK /\ SP!Established
       /\ verdict # "pending" => verdict \in Verdicts(input)

LEMMA ServesIsServesChecked == ServesChecked => Serves
  BY SameChecks DEF Serves, ServesChecked, ServedCall

(* What a call is given is what CapabilityToken and IdentityTokens make.   *)
LEMMA CallGiven ==
  ASSUME TP!TypeOK, IP!TypeOK, TP!RequestIsLast, T!Idle(Server),
         NEW id \in {NULL, identity[Server]}, NEW operation \in Operation
  PROVE  [token |-> token[Server], id |-> id, operation |-> operation] \in Calls
<1>1. Server \in Program
  BY DEF Program
<1>2. token[Server] \in TokenObject
  BY <1>1, SameObject DEF TP!TypeOK
<1>3. RequestAtEnd(token[Server].body, token[Server].request)
  <2>1. TP!Idle(Server)
    BY SameCalls
  <2>2. TP!RequestAtEnd(token[Server].body, token[Server].request)
    BY <1>1, <2>1 DEF TP!RequestIsLast
  <2> QED  BY <2>2 DEF TP!RequestAtEnd, RequestAtEnd
<1>4. token[Server] \in TokenRead
  BY <1>2, <1>3 DEF TokenRead, TokenObject
<1>5. id \in IdentityToken \cup {NULL}
  BY <1>1, SameIdentityTexts DEF IP!TypeOK
<1>6. operation \in Bits
  BY CapletsAssumption
<1> QED  BY <1>4, <1>5, <1>6 DEF Calls

LEMMA CallServes ==
  ASSUME TP!TypeOK, IP!TypeOK, TP!RequestIsLast,
         NEW id \in {NULL, identity[Server]}, NEW operation \in Operation,
         Call(id, operation)
  PROVE  ServesChecked'
<1> DEFINE in == [token |-> token[Server], id |-> id, operation |-> operation]
           b == in.token.body
<1>1. /\ T!Idle(Server) /\ token[Server] # T!EmptyToken
      /\ input' = in /\ pc' = "identity" /\ i' = 1
      /\ calculated_tag' = SECRET
      /\ identity_constraint_checked' = FALSE /\ verdict' = "pending"
      /\ UNCHANGED <<tokenVars, identityVars>>
  BY DEF Call, Serving
<1>2. in \in SP!Calls
  BY <1>1, CallGiven, SameCheckTexts
<1>3. b \in Seq(SP!Element)
  BY <1>2 DEF SP!Calls, SP!TokenRead
<1>4. /\ in.token = token[Server] /\ in.id = id
  OBVIOUS
<1> HIDE DEF in, b
<1>5. ServedCall'
  BY <1>1, <1>4 DEF ServedCall, tokenVars, identityVars, T!Idle,
                    T!EmptyToken, T!EmptyTag
<1>6. SP!body' = b
  BY <1>1 DEF SP!body, b
<1>7. SP!TypeOK'
  <2>1. SECRET \in SP!Tag
    BY SP!SecretType, PartsAssume, SameCodes
  <2>2. 1 \in 1 .. Len(b) + 1
    BY <1>3
  <2> QED  BY <1>1, <1>2, <1>6, <2>1, <2>2 DEF SP!TypeOK
<1>8. SP!Established'
  <2>1. SP!SECRET = SP!SignatureOf(SubSeq(b, 1, 0))
    BY <1>3, SP!SignedStart, PartsAssume
  <2>2. (SP!SignedUpTo(SP!body, i - 1))'
    BY <1>1, <1>6, <2>1, SameCodes DEF SP!SignedUpTo
  <2>3. SP!BoundToIdentity'
    BY <1>1 DEF SP!BoundToIdentity, SP!Accepted
  <2> QED  BY <1>1, <2>2, <2>3 DEF SP!Established
<1> QED  BY <1>1, <1>5, <1>7, <1>8 DEF ServesChecked

LEMMA CheckStepServes ==
  ASSUME ServesChecked, CheckStep
  PROVE  ServesChecked'
<1>1. S!Step /\ SP!Next /\ UNCHANGED <<tokenVars, identityVars>>
  BY SameChecks DEF CheckStep
<1>2. verdict # "none"
  <2>1. pc # "done"
    BY <1>1 DEF S!Step, S!CheckIdentity, S!ExtendTag, S!CompareTag, S!DeriveNext,
      S!DerivationPassed, S!CompareRequest, S!CompareGarbage, S!CompareOperation
  <2> QED  BY <2>1 DEF ServesChecked
<1>3. /\ ServedCall /\ SP!TypeOK /\ SP!Established
      /\ verdict # "pending" => verdict \in Verdicts(input)
  BY <1>2 DEF ServesChecked
<1>4. [SP!Next]_SP!vars
  BY <1>1
<1>5. SP!TypeOK'
  BY <1>3, <1>4, SP!TypeStep, PartsAssume
<1>6. SP!Established'
  BY <1>3, <1>4, SP!EstablishedStep, PartsAssume
<1>7. \/ verdict = "pending" /\ verdict' \in SP!Verdicts(input) /\ input' = input
      \/ UNCHANGED <<input, verdict>>
  BY <1>3, <1>4, SP!AnswerStep, PartsAssume
<1>8. /\ input' = input /\ verdict' # "none"
      /\ verdict' # "pending" => verdict' \in Verdicts(input')
  <2>1. verdict' # "none"
    BY <1>5 DEF SP!TypeOK
  <2> QED  BY <1>3, <1>7, <2>1, SameDecision
<1>9. ServedCall'
  BY <1>1, <1>3, <1>8 DEF ServedCall, tokenVars, identityVars, T!Idle,
                          T!EmptyToken, T!EmptyTag
<1> QED  BY <1>5, <1>6, <1>8, <1>9 DEF ServesChecked

(* Steps that leave alone what the server has read and how far it is.      *)
LEMMA AloneServes ==
  ASSUME ServesChecked, UNCHANGED checkVars,
         token'[Server] = token[Server], parsing'[Server] = parsing[Server],
         Server \in crashed' <=> Server \in crashed,
         identity'[Server] = identity[Server]
  PROVE  ServesChecked'
<1>1. UNCHANGED <<input, pc, i, calculated_tag, identity_constraint_checked,
                  verdict>>
  BY DEF checkVars
<1>2. CASE verdict = "none"
  BY <1>1, <1>2 DEF ServesChecked
<1>3. CASE verdict # "none"
  <2>1. /\ ServedCall /\ SP!TypeOK /\ SP!Established
        /\ verdict # "pending" => verdict \in Verdicts(input)
    BY <1>3 DEF ServesChecked
  <2>2. [SP!Next]_SP!vars
    BY <1>1 DEF SP!vars
  <2>3. SP!TypeOK'
    BY <2>1, <2>2, SP!TypeStep, PartsAssume
  <2>4. SP!Established'
    BY <2>1, <2>2, SP!EstablishedStep, PartsAssume
  <2>5. ServedCall'
    BY <1>1, <2>1 DEF ServedCall, T!Idle, T!EmptyToken, T!EmptyTag
  <2> QED  BY <1>1, <1>3, <2>1, <2>3, <2>4, <2>5 DEF ServesChecked
<1> QED  BY <1>2, <1>3

LEMMA ServesStep ==
  ASSUME TP!TypeOK, IP!TypeOK, TP!RequestIsLast, ServesChecked, [Next]_vars
  PROVE  ServesChecked'
<1>1. ASSUME NEW u \in User, UserToken(u) PROVE ServesChecked'
  BY <1>1, ServerUntouched, AloneServes DEF UserToken, identityVars
<1>2. ASSUME NEW u \in User, UserIdentity(u) PROVE ServesChecked'
  BY <1>2, ServerIdentityUntouched, AloneServes DEF UserIdentity, tokenVars
<1>3. ASSUME AlterToken \/ AlterIdentity \/ UNCHANGED vars PROVE ServesChecked'
  <2>1. UNCHANGED <<checkVars, token, parsing, crashed, identity>>
    BY <1>3 DEF AlterToken, AlterIdentity, T!AlterText, I!AlterIdentity, vars,
                tokenVars, identityVars
  <2> QED  BY <2>1, AloneServes
<1>4. ASSUME ReadToken \/ ReadIdentity PROVE ServesChecked'
  <2>1. verdict = "none" /\ verdict' = "none" /\ pc' = pc
    BY <1>4 DEF ReadToken, ReadIdentity, Serving, checkVars
  <2> QED  BY <2>1 DEF ServesChecked
<1>5. ASSUME NextQuestion PROVE ServesChecked'
  <2>1. verdict \in {"accepted", "rejected"} /\ verdict' = "none" /\ pc' = pc
    BY <1>5 DEF NextQuestion
  <2>2. pc = "done"
    BY <2>1 DEF ServesChecked, SP!Established
  <2> QED  BY <2>1, <2>2 DEF ServesChecked
<1> QED
  BY <1>1, <1>2, <1>3, <1>4, <1>5, CallServes, CheckStepServes DEF Next

LEMMA ServesCheckedHolds == Spec => []ServesChecked
<1>1. Init => ServesChecked
  BY DEF Init, ServesChecked
<1>2. TP!TypeOK /\ IP!TypeOK /\ TP!RequestIsLast /\ ServesChecked /\ [Next]_vars
        => ServesChecked'
  BY ServesStep
<1>3. IP!Spec => []IP!TypeOK
  BY IP!TypeCorrect, PartsAssume
<1>4. TP!Spec => []TP!RequestIsLast
  BY TP!RequestIsLastHolds, PartsAssume
<1> QED
  BY <1>1, <1>2, <1>3, <1>4, TokenTypes, TokensAreTokens,
     IdentitiesAreIdentities, PTL DEF Spec

(* While a call runs, and until the next question, what it was given is    *)
(* what the server has read, its loops keep what they have established,    *)
(* and its answer is right.                                                *)
THEOREM ServesHolds == Spec => []Serves
  BY ServesCheckedHolds, ServesIsServesChecked, PTL

-----------------------------------------------------------------------------
LEMMA SameSurvival == T!FramesSurvive <=> TP!FramesSurvive
BY DEF T!FramesSurvive, TP!FramesSurvive, T!Survives, TP!Survives,
       T!ReadsAsSurviving, TP!ReadsAsSurviving

(* A token made by the documented calls and read from its own text, with   *)
(* an identity made by the documented calls for its tag, is rejected only  *)
(* for what the frames, the constraints, the request and the operation     *)
(* say: whatever other users do, and however texts are altered meanwhile,  *)
(* if every frame survives printing and reading.                           *)
THEOREM HonestRejectedForCauseHolds ==
  ASSUME T!FramesSurvive
  PROVE  Spec => []HonestRejectedForCause
<1>1. TP!CleanTokenVerifies /\ ServerReads /\ Serves
        => HonestRejectedForCause
  <2> SUFFICES ASSUME TP!CleanTokenVerifies, ServerReads, Serves,
                      verdict = "rejected", Honest,
                      Derived(input.token.body),
                      IdentityAccepted(input.token.body, input.id),
                      input.token.request # NULL,
                      Len(input.token.body) # 1
               PROVE  ~Granted(input)
    BY DEF HonestRejectedForCause
  <2>0. Server \in Program
    BY DEF Program
  <2>1. /\ T!Idle(Server) /\ token[Server] # T!EmptyToken
        /\ input.token = token[Server]
        /\ input.id \in {NULL, identity[Server]}
        /\ "rejected" \in Verdicts(input)
    BY DEF Serves
  <2>2. input.token.body # <<>>
    BY <2>1 DEF ServerReads
  <2>3. Signed(input.token)
    <3>1. TP!Idle(Server) /\ clean[Server]
      BY <2>1, SameCalls DEF Honest
    <3>2. TP!is_valid_signature(token[Server])
      BY <2>0, <2>1, <2>2, <3>1 DEF TP!CleanTokenVerifies
    <3> QED  BY <2>1, <3>2, SameCodes DEF TP!is_valid_signature, Signed
  <2>4. input.id # NULL => is_valid_identity_token(input.token.tag, input.id)
    BY <2>1 DEF Honest, ServerReads
  <2>5. Trusted(input)
    BY <2>2, <2>3, <2>4 DEF Trusted
  <2> QED  BY <2>1, <2>5 DEF Verdicts
<1>2. TP!Spec => []TP!CleanTokenVerifies
  BY TP!CleanTokenVerifiesHolds, SameSurvival, PartsAssume
<1> QED
  BY <1>1, <1>2, TokensAreTokens, ServerReadsHolds, ServesHolds, PTL

-----------------------------------------------------------------------------
(***************************************************************************)
(* The service that remembers.                                             *)
(***************************************************************************)
Question == [body      |-> input.token.body,
             name      |-> IF input.id = NULL THEN NULL
                           ELSE input.id.identity_token,
             operation |-> input.operation]

LEMMA SameQuestions ==
  A!Questions = [body : Seq(Element), name : Principal \cup {"", NULL},
                 operation : Bits]
<1>1. A!Path = Path /\ A!CapabilityType = CapabilityType /\ A!Bits = Bits
  BY DEF A!Path, Path, A!Star, Star, A!CapabilityType, CapabilityType,
         A!Bits, Bits
<1>2. A!Constraint = Constraint
  BY DEF A!Constraint, Constraint, A!FunctionName, FunctionName
<1>3. A!Request = Request /\ A!Frame = Frame
  BY <1>1, <1>2 DEF A!Request, Request, A!Frame, Frame,
                    A!CapabilityStructure, CapabilityStructure
<1>4. A!Element = Element
  BY <1>3 DEF A!Element, Element
<1> QED  BY <1>1, <1>4 DEF A!Questions

(* A question is made of what a call is given.                             *)
LEMMA QuestionOfCall ==
  ASSUME NEW in \in Calls
  PROVE  [body |-> in.token.body,
          name |-> IF in.id = NULL THEN NULL ELSE in.id.identity_token,
          operation |-> in.operation] \in A!Questions
<1>1. in.token.body \in Seq(Element) /\ in.operation \in Bits
  BY DEF Calls, TokenRead
<1>2. in.id # NULL => in.id.identity_token \in Principal \cup {""}
  BY DEF Calls, IdentityToken
<1> QED  BY <1>1, <1>2, SameQuestions

LEMMA NoCallIsACall == NoCall \in Calls
<1>1. T!EmptyToken \in TokenObject
  <2>1. TP!EmptyToken \in TP!Object
    BY TP!EmptyTokenType, PartsAssume
  <2> QED  BY <2>1, SameObject, SameTags DEF T!EmptyToken, TP!EmptyToken
<1>2. RequestAtEnd(T!EmptyToken.body, T!EmptyToken.request)
  BY DEF T!EmptyToken, RequestAtEnd
<1>3. T!EmptyToken \in TokenRead
  BY <1>1, <1>2 DEF TokenRead, TokenObject
<1> QED  BY <1>3 DEF NoCall, Calls, Bits

(* A chain that is computed puts one name behind one body at most.         *)
Vouching(c) ==
  Len(c) = 3 /\ c[3].kind = "request_tag" /\ c[3].tag.base = "secret"

VouchedBy(c) == [name |-> c[2].name, body |-> c[3].tag.chain]

LEMMA VouchesOne ==
  ASSUME composed' = composed \/ \E c : composed' = composed \cup {c}
  PROVE  Vouched' = Vouched \/ \E v \in Vouched' : Vouched' = Vouched \cup {v}
<1>1. CASE composed' = composed
  BY <1>1 DEF Vouched
<1>2. ASSUME NEW c, composed' = composed \cup {c}
      PROVE  Vouched' = Vouched \/ \E v \in Vouched' : Vouched' = Vouched \cup {v}
  <2>1. /\ Vouched  = {VouchedBy(d) : d \in {e \in composed : Vouching(e)}}
        /\ Vouched' = {VouchedBy(d) : d \in {e \in composed' : Vouching(e)}}
    BY DEF Vouched, Vouching, VouchedBy
  <2>2. CASE Vouching(c)
    <3>1. Vouched' = Vouched \cup {VouchedBy(c)}
      BY <1>2, <2>1, <2>2
    <3> QED  BY <3>1
  <2>3. CASE ~Vouching(c)
    <3>1. Vouched' = Vouched
      BY <1>2, <2>1, <2>3
    <3> QED  BY <3>1
  <2> QED  BY <2>2, <2>3
<1> QED  BY <1>1, <1>2

(* What the check trusts, the service permits: the body was put together   *)
(* element by element, as the tag tells, and the name was put behind it.   *)
LEMMA TrustedPermitted ==
  ASSUME TP!TypeOK, IP!TypeOK, TP!VerifiedWasAttested, IP!VerifiedWasComposed,
         ServedCall, input \in Calls, Trusted(input)
  PROVE  A!Permitted(Question)
<1> DEFINE b == input.token.body
           name == Question.name
<1>1. /\ Question.body = b
      /\ name = IF input.id = NULL THEN NULL ELSE input.id.identity_token
  BY DEF Question
<1>2. /\ b \in Seq(Element) /\ b # <<>> /\ Signed(input.token)
      /\ Derived(b) /\ IdentityAccepted(b, input.id)
      /\ input.id # NULL => is_valid_identity_token(input.token.tag, input.id)
  BY DEF Trusted, Calls, TokenRead
<1>3. /\ Server \in Program /\ T!Idle(Server)
      /\ input.token = token[Server]
      /\ input.id \in {NULL, identity[Server]}
  BY DEF ServedCall, Program
<1>4. A!PutTogether(b)
  <2>1. TP!Idle(Server) /\ TP!is_valid_signature(token[Server])
    BY <1>2, <1>3, SameCalls, SameCodes DEF Signed, TP!is_valid_signature
  <2>2. \A n \in 1 .. Len(b) : SubSeq(body_to_string(b), 1, n) \in attested
    BY <1>3, <2>1, SameCodes DEF TP!VerifiedWasAttested
  <2> QED  BY <2>2, SameCodes DEF A!PutTogether
<1>5. CASE input.id = NULL
  <2>1. name = NULL
    BY <1>1, <1>5
  <2>2. A!Presented(Question)
    BY <2>1 DEF A!Presented
  <2> QED  BY <1>1, <1>2, <1>4, <1>5, <2>1, <2>2, SameDecision DEF A!Permitted
<1>6. CASE input.id # NULL
  <2> DEFINE named == input.id.identity_token
             chain == IP!ChainOf(identity[Server])
  <2>1. /\ input.id = identity[Server]
        /\ named \in Principal \cup {""} /\ input.id.request_tag \in Tag
    BY <1>3, <1>6 DEF Calls, IdentityToken
  <2>2. /\ input.id.request_tag = input.token.tag
        /\ input.id.request_tag # EmptyTag
        /\ IP!is_valid_id_signature(identity[Server])
    BY <1>2, <1>6, <2>1, SameIdentityCodes
       DEF is_valid_identity_token, is_valid_id_signature, IP!is_valid_id_signature
  <2>3. /\ chain \in Seq(IP!IdMessage) /\ Len(chain) = 3
        /\ chain[2] = IP!IdentityMessage(named)
        /\ chain[3] = IP!RequestTagMessage(input.token.tag)
    <3>1. named \in IP!Name /\ input.id.request_tag \in IP!Tag
      BY <2>1, SameIdentityTexts DEF IP!Name
    <3>2. chain = IP!IdSignatureOf(named, input.id.request_tag).chain
      BY <2>1 DEF IP!ChainOf
    <3> HIDE DEF chain, named
    <3> QED  BY <2>2, <3>1, <3>2, IP!SignatureChain, PartsAssume
  <2> HIDE DEF chain
  <2>4. chain \in composed
    <3>1. SubSeq(chain, 1, 3) \in composed
      BY <1>3, <2>2 DEF IP!VerifiedWasComposed, chain
    <3>2. SubSeq(chain, 1, 3) = chain
      BY <2>3
    <3> QED  BY <3>1, <3>2
  <2>5. /\ input.token.tag.base = "secret"
        /\ input.token.tag.chain = body_to_string(b)
    BY <1>2 DEF Signed, SignatureOf
  <2>6. /\ chain[2].name = named
        /\ chain[3].kind = "request_tag" /\ chain[3].tag = input.token.tag
    BY <2>2, <2>3, SameIdentityCodes DEF IP!IdentityMessage, IP!RequestTagMessage
  <2>7. Vouching(chain)
        /\ VouchedBy(chain) = [name |-> named, body |-> body_to_string(b)]
    BY <2>3, <2>5, <2>6 DEF Vouching, VouchedBy
  <2>8. [name |-> named, body |-> body_to_string(b)] \in Vouched
    BY <2>4, <2>7 DEF Vouched, Vouching, VouchedBy
  <2>9. name = named
    BY <1>1, <1>6
  <2>10. A!Presented(Question)
    BY <1>1, <2>8, <2>9, SameCodes DEF A!Presented
  <2>11. name # NULL /\ [identity_token |-> name] # NULL
    <3>1. [identity_token |-> named] \in [identity_token : Principal \cup {""}]
      BY <2>1
    <3> QED  BY <2>1, <2>9, <3>1, CapletsAssumption
  <2>12. IdentityAccepted(b, [identity_token |-> name])
    BY <1>2, <1>6, <2>9, <2>11 DEF IdentityAccepted, ConstraintsHold,
                                    is_valid_constraint
  <2> QED  BY <1>1, <1>2, <1>4, <2>10, <2>11, <2>12, SameDecision DEF A!Permitted
<1> QED  BY <1>5, <1>6

LEMMA LongerThanOne ==
  ASSUME NEW b \in Seq(Element), b # <<>>, Len(b) # 1
  PROVE  Len(b) > 1
<1>1. Len(b) \in Nat /\ Len(b) # 0
  OBVIOUS
<1> QED  BY <1>1

LEMMA AnswerIsRight ==
  ASSUME TP!TypeOK, IP!TypeOK, TP!VerifiedWasAttested, IP!VerifiedWasComposed,
         ServedCall, input \in Calls, NEW v \in Verdicts(input)
  PROVE  v \in A!Answers(Question)
<1> DEFINE b == input.token.body
<1>0. b \in Seq(Element) /\ RequestAtEnd(b, input.token.request)
      /\ input.token.request \in Request \cup {NULL}
  BY DEF Calls, TokenRead
<1>1. Question.body = b /\ Question.operation = input.operation
  BY DEF Question
<1>2. CASE v = "rejected"
  BY <1>2 DEF A!Answers
<1>3. CASE v # "rejected"
  <2>1. Trusted(input) /\ b # <<>>
    BY <1>3 DEF Verdicts, Trusted
  <2>2. A!Permitted(Question)
    BY <2>1, TrustedPermitted
  <2>3. CASE Len(b) = 1
    <3>1. ~A!Defined(Question.body)
      BY <1>1, <2>3 DEF A!Defined
    <3>2. v \in {"accepted", "crashed"}
      BY <1>3, <2>1, <2>3 DEF Verdicts
    <3> QED  BY <2>2, <3>1, <3>2 DEF A!Answers
  <2>4. CASE Len(b) # 1 /\ input.token.request = NULL
    <3>1. b[Len(b)].kind # "request"
      BY <1>0, <2>1, <2>4 DEF RequestAtEnd
    <3>2. ~A!Defined(Question.body)
      BY <1>1, <3>1 DEF A!Defined
    <3>3. v \in {"accepted", "crashed"}
      BY <1>3, <2>1, <2>4 DEF Verdicts
    <3> QED  BY <2>2, <3>2, <3>3 DEF A!Answers
  <2>5. CASE Len(b) # 1 /\ input.token.request # NULL
    <3>1. v = "accepted" /\ Granted(input)
      BY <1>3, <2>1, <2>5 DEF Verdicts
    <3>2. A!Defined(Question.body)
      <4>1. b[Len(b)] \in Request
        BY <1>0, <2>5 DEF RequestAtEnd
      <4>2. b[Len(b)].kind = "request"
        BY <4>1 DEF Request
      <4>3. Len(b) > 1
        BY <1>0, <2>1, <2>5, LongerThanOne
      <4> HIDE DEF b
      <4> QED  BY <1>1, <4>2, <4>3 DEF A!Defined
    <3>3. A!Granted([token |-> [body |-> Question.body],
                     operation |-> Question.operation])
      <4>1. Granted([token |-> [body |-> b], operation |-> input.operation])
        BY <3>1 DEF Granted
      <4> QED  BY <1>1, <4>1, SameDecision
    <3> QED  BY <2>2, <3>1, <3>2, <3>3 DEF A!Answers
  <2> QED  BY <2>3, <2>4, <2>5
<1> QED  BY <1>2, <1>3

LEMMA ServiceStep ==
  ASSUME TP!TypeOK, TP!TagsAttested, TP!SecretKept, TP!VerifiedWasAttested,
         TP!RequestIsLast, IP!TypeOK, IP!VerifiedWasComposed, ServesChecked,
         [Next]_vars, [TP!Next]_TP!vars, [IP!Next]_IP!vars
  PROVE  A!Next \/ UNCHANGED <<attested, Vouched, Question, verdict>>
<1> DEFINE Same == UNCHANGED <<attested, Vouched, Question, verdict>>
<1>1. \/ attested' = attested
      \/ \E c : /\ attested' = attested \cup {c}
                /\ Len(c) = 1 \/ SubSeq(c, 1, Len(c) - 1) \in attested
  BY TP!AttestsOneMore, PartsAssume
<1>2. Vouched' = Vouched \/ \E v \in Vouched' : Vouched' = Vouched \cup {v}
  BY IP!ComposesOne, PartsAssume, VouchesOne
<1>3. ASSUME composed' = composed PROVE Vouched' = Vouched
  BY <1>3 DEF Vouched
<1>4. ASSUME UNCHANGED <<input, verdict>>
      PROVE  Question' = Question /\ A!Silent
  BY <1>4 DEF Question, A!Silent
(* Texts and objects of capability tokens. *)
<1>5. ASSUME UNCHANGED <<identityVars, checkVars>> PROVE A!Next \/ Same
  <2>1. Vouched' = Vouched /\ UNCHANGED <<input, verdict>>
    BY <1>3, <1>5 DEF identityVars, checkVars
  <2>2. CASE attested' = attested
    BY <1>4, <2>1, <2>2
  <2>3. ASSUME NEW c, attested' = attested \cup {c},
               Len(c) = 1 \/ SubSeq(c, 1, Len(c) - 1) \in attested
        PROVE  A!Extend
    BY <1>4, <2>1, <2>3 DEF A!Extend
  <2> QED  BY <1>1, <2>2, <2>3 DEF A!Next
(* Texts and objects of identity tokens. *)
<1>6. ASSUME UNCHANGED <<tokenVars, checkVars>> PROVE A!Next \/ Same
  <2>1. attested' = attested /\ UNCHANGED <<input, verdict>>
    BY <1>6 DEF tokenVars, checkVars
  <2>2. CASE Vouched' = Vouched
    BY <1>4, <2>1, <2>2
  <2>3. ASSUME NEW v \in Vouched', Vouched' = Vouched \cup {v}
        PROVE  A!Vouch
    BY <1>4, <2>1, <2>3 DEF A!Vouch
  <2> QED  BY <1>2, <2>2, <2>3 DEF A!Next
<1>7. ASSUME NEW id \in {NULL, identity[Server]}, NEW operation \in Operation,
             Call(id, operation)
      PROVE  A!Ask
  <2>1. /\ verdict = "none" /\ verdict' = "pending" /\ T!Idle(Server)
        /\ input' = [token |-> token[Server], id |-> id, operation |-> operation]
        /\ attested' = attested /\ Vouched' = Vouched
    BY <1>3, <1>7 DEF Call, Serving, tokenVars, identityVars
  <2>2. input' \in Calls
    BY <2>1, CallGiven
  <2>3. Question' \in A!Questions
    BY <2>2, QuestionOfCall DEF Question
  <2> QED  BY <2>1, <2>3 DEF A!Ask, Question
<1>8. ASSUME CheckStep PROVE A!Next \/ Same
  <2>1. SP!Next /\ attested' = attested /\ Vouched' = Vouched
    BY <1>3, <1>8, SameChecks DEF CheckStep, tokenVars, identityVars
  <2>2. pc # "done"
    BY <1>8 DEF CheckStep, S!Step, S!CheckIdentity, S!ExtendTag, S!CompareTag,
      S!DeriveNext, S!DerivationPassed, S!CompareRequest, S!CompareGarbage,
      S!CompareOperation
  <2>3. ServedCall /\ SP!TypeOK /\ SP!Established
    BY <2>2 DEF ServesChecked
  <2>4. \/ verdict = "pending" /\ verdict' \in SP!Verdicts(input)
             /\ input' = input
        \/ UNCHANGED <<input, verdict>>
    BY <2>1, <2>3, SP!AnswerStep, PartsAssume
  <2>5. CASE UNCHANGED <<input, verdict>>
    BY <1>4, <2>1, <2>5
  <2>6. CASE verdict = "pending" /\ verdict' \in SP!Verdicts(input)
               /\ input' = input
    <3>1. input \in Calls /\ verdict' \in Verdicts(input)
      BY <2>3, <2>6, SameCheckTexts, SameDecision DEF SP!TypeOK
    <3>2. verdict' \in A!Answers(Question)
      BY <2>3, <3>1, AnswerIsRight
    <3>3. Question' = Question
      BY <2>6 DEF Question
    <3> QED  BY <2>1, <2>6, <3>2, <3>3 DEF A!Answer, A!Next, Question
  <2> QED  BY <2>4, <2>5, <2>6
<1>9. ASSUME NextQuestion PROVE A!Close
  <2>1. /\ verdict \in {"accepted", "rejected"} /\ verdict' = "none"
        /\ input' = NoCall /\ attested' = attested /\ Vouched' = Vouched
    BY <1>3, <1>9 DEF NextQuestion, T!NewToken, I!NewIdentity
  <2>2. Question' \in A!Questions
    BY <2>1, NoCallIsACall, QuestionOfCall DEF Question
  <2> QED  BY <2>1, <2>2 DEF A!Close, Question
<1>10. CASE UNCHANGED vars
  BY <1>5, <1>10 DEF vars
<1> QED
  BY <1>5, <1>6, <1>7, <1>8, <1>9, <1>10
     DEF Next, UserToken, UserIdentity, AlterToken, AlterIdentity, ReadToken,
         ReadIdentity, A!Next

(* The programs together implement the service that remembers, up to its   *)
(* promise to answer: no altered, mixed or reread text, in any number of   *)
(* questions, makes the server accept a body that was not put together     *)
(* element by element, or a name that was not put behind that very body.   *)
THEOREM ServiceRemembers == Spec => A!Safety
<1>1. Init => A!Init
  <2> SUFFICES ASSUME Init PROVE A!Init
    OBVIOUS
  <2>1. attested = {} /\ composed = {} /\ input = NoCall /\ verdict = "none"
    BY DEF Init, T!Init, I!Init
  <2>2. Vouched = {}
    BY <2>1 DEF Vouched
  <2>3. Question \in A!Questions
    BY <2>1, NoCallIsACall, QuestionOfCall DEF Question
  <2> QED  BY <2>1, <2>2, <2>3 DEF A!Init, Question
<1>2. TP!TypeOK /\ TP!TagsAttested /\ TP!SecretKept /\ TP!VerifiedWasAttested
      /\ TP!RequestIsLast /\ IP!TypeOK /\ IP!VerifiedWasComposed
      /\ ServesChecked /\ [Next]_vars /\ [TP!Next]_TP!vars /\ [IP!Next]_IP!vars
        => [A!Next]_A!accessVars
  <2>1. ASSUME UNCHANGED <<attested, Vouched, Question, verdict>>
        PROVE  UNCHANGED A!accessVars
    BY <2>1 DEF A!accessVars, Question
  <2> QED  BY <2>1, ServiceStep
<1>3. TP!Spec => /\ []TP!TagsAttested /\ []TP!SecretKept /\ []TP!RequestIsLast
                 /\ []TP!VerifiedWasAttested
  <2>1. TP!Spec => TP!SetterSpec
    BY TP!CallersUseSetters, PartsAssume
  <2>2. TP!SetterSpec => []TP!TagsAttested
    BY TP!TagsAttestedHolds, PartsAssume
  <2>3. TP!SetterSpec => []TP!VerifiedWasAttested
    BY TP!VerifiedWasAttestedHolds, PartsAssume
  <2>4. TP!Spec => []TP!SecretKept
    BY TP!SecretKeptHolds, PartsAssume
  <2>5. TP!Spec => []TP!RequestIsLast
    BY TP!RequestIsLastHolds, PartsAssume
  <2> QED  BY <2>1, <2>2, <2>3, <2>4, <2>5, PTL
<1>4. IP!Spec => []IP!TypeOK
  BY IP!TypeCorrect, PartsAssume
<1>5. IP!Spec => []IP!VerifiedWasComposed
  BY IP!VerifiedWasComposedHolds, PartsAssume
<1> QED
  BY <1>1, <1>2, <1>3, <1>4, <1>5, TokenTypes, TokensAreTokens,
     IdentitiesAreIdentities, ServesCheckedHolds, PTL
     DEF Spec, TP!Spec, IP!Spec, A!Safety
=============================================================================
