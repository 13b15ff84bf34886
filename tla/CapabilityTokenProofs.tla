------------------------ MODULE CapabilityTokenProofs -----------------------
(***************************************************************************)
(* CapabilityToken under all its public calls (SetterSpec), for any number *)
(* of holders, frames and texts.                                           *)
(***************************************************************************)
EXTENDS CapabilityToken, TokenTextProofs

-----------------------------------------------------------------------------
(***************************************************************************)
(* Types of the methods' results.                                          *)
(***************************************************************************)
LEMMA EmptyTokenType == EmptyToken \in Object
  BY TagTypes DEF EmptyToken, Object

LEMMA UpdateTagType ==
  ASSUME NEW b \in Seq(Element), b # <<>>, NEW tag \in Tag
  PROVE  update_tag(b, tag) \in Tag
<1>1. b[Len(b)] \in Element
  OBVIOUS
<1> QED  BY <1>1, ElementTextType, SecretType, ComputeMacType DEF update_tag

LEMMA PushBackType ==
  ASSUME NEW t \in Object, NEW e \in Element
  PROVE  /\ push_back(t, e) \in Object
         /\ push_back(t, e).body # <<>>
         /\ push_back(t, e).tag = t.tag
<1>1. t.body \in Seq(Element)
  BY DEF Object
<1>2. Append(t.body, e) \in Seq(Element) /\ Append(t.body, e) # <<>>
  BY <1>1
<1> QED  BY <1>2 DEF push_back, Object

LEMMA AddFrameType ==
  ASSUME NEW t \in Object, NEW e \in Element
  PROVE  add_frame(t, e) \in Object
<1> DEFINE longer == push_back(t, e)
<1>1. longer \in Object /\ longer.body \in Seq(Element) /\ longer.body # <<>>
  BY PushBackType DEF Object
<1>2. update_tag(longer.body, t.tag) \in Tag
  BY <1>1, UpdateTagType DEF Object
<1> HIDE DEF longer
<1>3. [longer EXCEPT !.tag = update_tag(longer.body, t.tag)] \in Object
  BY <1>1, <1>2 DEF Object
<1> QED  BY <1>3 DEF add_frame, longer

LEMMA SetReadRequestType ==
  ASSUME NEW t \in Object, NEW r \in Request
  PROVE  set_read_request(t, r) \in Object /\ set_read_request(t, r).tag = t.tag
BY DEF set_read_request, Object

LEMMA RequestElement == Request \subseteq Element /\ Frame \subseteq Element
BY DEF Element

LEMMA TextOfType ==
  ASSUME NEW t \in Object
  PROVE  TextOf(t) \in TokenString
BY BodyTextType DEF TextOf, TokenString, Object

LEMMA AttestType ==
  ASSUME NEW tag \in Tag, Attest(tag), attested \subseteq Seq(ElementText)
  PROVE  attested' \subseteq Seq(ElementText)
BY DEF Attest, Tag

(* What an iteration of from_string_no_tag makes of the object: nothing,   *)
(* or the object with one element more, with or without its tag updated.   *)
Pushed(t, u, calc_tag) ==
  \E base \in Object, e \in Element :
    /\ base.tag = t.tag
    /\ u = IF calc_tag THEN add_frame(base, e) ELSE push_back(base, e)

LEMMA PushFrameEffect ==
  ASSUME TypeOK, NEW h \in Holder, PushFrame(h)
  PROVE  \/ token' = token
         \/ \E u : /\ token' = [token EXCEPT ![h] = u]
                   /\ Pushed(token[h], u, parsing[h].calc_tag)
<1> DEFINE text == Head(parsing[h].rest)
<1>1. /\ text \in ElementText /\ token[h] \in Object
      /\ token \in [Holder -> Object]
  BY DEF TypeOK, PushFrame
<1>2. CASE text.kind = "request" /\ token' # token
  <2> DEFINE r == request_from_string(text)
             base == set_read_request(token[h], r)
             u == IF parsing[h].calc_tag THEN add_frame(base, r)
                                         ELSE push_back(base, r)
  <2>1. text \in RequestText
    BY <1>1, <1>2 DEF ElementText, FrameText
  <2>2. r \in Request
    BY <2>1, ReadRequestType
  <2>3. base \in Object /\ base.tag = token[h].tag
    BY <1>1, <2>2, SetReadRequestType
  <2>4. token' = [token EXCEPT ![h] = u]
    BY <1>1, <1>2 DEF PushFrame
  <2>5. Pushed(token[h], u, parsing[h].calc_tag)
    <3> HIDE DEF r, base
    <3> QED  BY <2>2, <2>3, RequestElement DEF Pushed
  <2> QED  BY <2>4, <2>5
<1>3. CASE text.kind = "frame" /\ token' # token
  <2>1. text \in FrameText
    BY <1>1, <1>3 DEF ElementText, RequestText
  <2>2. PICK residue \in [DOMAIN text.capabilities -> CapabilityType] :
          token' = [token EXCEPT ![h] =
            IF parsing[h].calc_tag
            THEN add_frame(token[h], frame_from_string(text, residue))
            ELSE push_back(token[h], frame_from_string(text, residue))]
    BY <1>1, <1>3 DEF PushFrame
  <2>3. frame_from_string(text, residue) \in Element
    BY <2>1, ReadFrameType
  <2> QED  BY <1>1, <2>2, <2>3 DEF Pushed
<1>4. text.kind \in {"request", "frame"}
  BY <1>1 DEF ElementText, RequestText, FrameText
<1> QED  BY <1>2, <1>3, <1>4

LEMMA PushedType ==
  ASSUME NEW t \in Object, NEW u, NEW c \in BOOLEAN, Pushed(t, u, c)
  PROVE  u \in Object
BY AddFrameType, PushBackType DEF Pushed

(* The guard and the effect of starting to read, as the type invariant     *)
(* needs them.                                                             *)
LEMMA StartParsingType ==
  ASSUME TypeOK, NEW h \in Holder, NEW s \in Seq(ElementText),
         NEW c \in BOOLEAN, StartParsing(h, s, c)
  PROVE  /\ parsing' \in [Holder -> [calc_tag : BOOLEAN, rest : Seq(ElementText),
                                    source : Seq(ElementText)]]
         /\ crashed' \subseteq Holder
<1>1. str_frames(s) \in Seq(ElementText)
  BY StrFramesType
<1>2. [calc_tag |-> c, rest |-> str_frames(s), source |-> s]
        \in [calc_tag : BOOLEAN, rest : Seq(ElementText),
             source : Seq(ElementText)]
  BY <1>1
<1> QED  BY <1>2 DEF StartParsing, TypeOK

(* The history clean is a record of truth values, whatever is recorded.    *)
LEMMA CleanStays ==
  ASSUME clean \in [Holder -> BOOLEAN], NEW h \in Holder, NEW b,
         clean' = [clean EXCEPT ![h] = b], b \in BOOLEAN
  PROVE  clean' \in [Holder -> BOOLEAN]
OBVIOUS

(* An altered text is a text, and its tag is the old one or unrelated.     *)
LEMMA AlteredType ==
  ASSUME NEW t \in TokenString, NEW altered \in Altered(t)
  PROVE  altered \in TokenString /\ altered.tag \in {OtherTag, t.tag}
<1>1. t.tag \in Tag /\ t.frames \in Seq(ElementText)
  BY DEF TokenString
<1>2. ASSUME NEW s \in AlteredFrames(t.frames)
      PROVE  s \in Seq(ElementText)
  <2>1. \A f \in NewFrame : frame_to_string(f) \in ElementText
    <3> SUFFICES ASSUME NEW f \in NewFrame
                 PROVE  frame_to_string(f) \in ElementText
      OBVIOUS
    <3>1. f \in Element /\ f.kind # "request"
      BY TokenAssumption, RequestElement DEF Frame
    <3> QED  BY <3>1, ElementTextType DEF element_to_string
  <2>2. CASE s = SubSeq(t.frames, 1, Len(t.frames) - 1)
    BY <1>1, <2>2
  <2>3. ASSUME NEW f \in NewFrame, s = Append(t.frames, frame_to_string(f))
        PROVE  s \in Seq(ElementText)
    BY <1>1, <2>1, <2>3
  <2>4. ASSUME NEW f \in NewFrame, NEW i \in DOMAIN t.frames,
               s = [t.frames EXCEPT ![i] = frame_to_string(f)]
        PROVE  s \in Seq(ElementText)
    BY <1>1, <2>1, <2>4
  <2> QED  BY <1>2, <2>2, <2>3, <2>4 DEF AlteredFrames
<1>3. CASE altered = [t EXCEPT !.tag = OtherTag]
  BY <1>1, <1>3, TagTypes DEF TokenString
<1>4. ASSUME NEW s \in AlteredFrames(t.frames), altered = [t EXCEPT !.frames = s]
      PROVE  altered \in TokenString /\ altered.tag = t.tag
  BY <1>1, <1>2, <1>4 DEF TokenString
<1> QED  BY <1>3, <1>4, TagTypes DEF Altered, TokenString

(* Every object, text and history keeps its type, whichever public methods *)
(* are called in whichever order: what is read from any text is a frame or *)
(* a request with its fields in range.                                     *)
THEOREM TypeCorrect == SetterSpec => []TypeOK
<1>1. Init => TypeOK
  <2>1. NotParsing \in [calc_tag : BOOLEAN, rest : Seq(ElementText),
                        source : Seq(ElementText)]
    BY DEF NotParsing
  <2> QED  BY <2>1, EmptyTokenType DEF Init, TypeOK
<1>2. TypeOK /\ [SetterNext]_vars => TypeOK'
  <2> SUFFICES ASSUME TypeOK, [SetterNext]_vars PROVE TypeOK'
    OBVIOUS
  <2>0. /\ token \in [Holder -> Object]
        /\ clean \in [Holder -> BOOLEAN]
        /\ wire \subseteq TokenString /\ genuine \subseteq wire
    BY DEF TypeOK
  <2>1. ASSUME NEW h \in Holder, NewToken(h) PROVE TypeOK'
    BY <2>1, EmptyTokenType DEF NewToken, TypeOK
  <2>2. ASSUME NEW h \in Holder, NEW f \in NewFrame \cup NewRequest,
               AddFrame(h, f)
        PROVE  TypeOK'
    <3>1. f \in Element
      BY TokenAssumption, RequestElement
    <3>2. token' \in [Holder -> Object]
      BY <2>0, <2>2, <3>1, AddFrameType DEF AddFrame
    <3>3. attested' \subseteq Seq(ElementText)
      BY <2>2, <3>2, AttestType DEF AddFrame, TypeOK, Object
    <3>4. clean' \in [Holder -> BOOLEAN]
      BY <2>0, <2>2, CleanStays DEF AddFrame
    <3> QED  BY <2>2, <3>2, <3>3, <3>4 DEF AddFrame, TypeOK
  <2>3. ASSUME NEW h \in Holder, NEW t \in wire, FromString(h, t)
        PROVE  TypeOK'
    <3>1. t.tag \in Tag /\ t.frames \in Seq(ElementText)
      BY <2>0 DEF TokenString
    <3>2. token' \in [Holder -> Object]
      BY <2>0, <2>3, <3>1 DEF FromString, Object
    <3>3. clean' \in [Holder -> BOOLEAN]
      BY <2>0, <2>3, CleanStays DEF FromString
    <3> QED  BY <2>3, <3>1, <3>2, <3>3, StartParsingType DEF FromString, TypeOK
  <2>4. ASSUME NEW h \in Holder, NEW s \in PlainText, FromPlainText(h, s)
        PROVE  TypeOK'
    <3>1. s \in Seq(ElementText)
      BY TokenAssumption
    <3>2. clean' \in [Holder -> BOOLEAN]
      BY <2>0, <2>4, CleanStays DEF FromPlainText
    <3> QED  BY <2>4, <3>1, <3>2, StartParsingType DEF FromPlainText, TypeOK
  <2>5. ASSUME NEW h \in Holder, PushFrame(h) PROVE TypeOK'
    <3>1. token' \in [Holder -> Object]
      <4>1. CASE token' = token
        BY <2>0, <4>1
      <4>2. ASSUME NEW u, token' = [token EXCEPT ![h] = u],
                   Pushed(token[h], u, parsing[h].calc_tag)
            PROVE  token' \in [Holder -> Object]
        <5>1. parsing[h].calc_tag \in BOOLEAN
          BY DEF TypeOK
        <5>2. u \in Object
          BY <2>0, <4>2, <5>1, PushedType
        <5> QED  BY <2>0, <4>2, <5>2
      <4> QED  BY <2>5, <4>1, <4>2, PushFrameEffect
    <3>2. parsing' \in [Holder -> [calc_tag : BOOLEAN, rest : Seq(ElementText),
                                  source : Seq(ElementText)]]
      <4>1. parsing[h].rest \in Seq(ElementText) /\ parsing[h].rest # <<>>
        BY <2>5 DEF PushFrame, TypeOK
      <4>2. Tail(parsing[h].rest) \in Seq(ElementText)
        BY <4>1
      <4>3. NotParsing \in [calc_tag : BOOLEAN, rest : Seq(ElementText),
                            source : Seq(ElementText)]
        BY DEF NotParsing
      <4>4. Advance(parsing[h])
              \in [calc_tag : BOOLEAN, rest : Seq(ElementText),
                   source : Seq(ElementText)]
        BY <4>2, <4>3 DEF TypeOK, Advance
      <4> QED  BY <2>5, <4>4 DEF PushFrame, TypeOK
    <3>3. attested' \subseteq Seq(ElementText)
      <4>1. CASE Attest(token'[h].tag)
        BY <3>1, <4>1, AttestType DEF TypeOK, Object
      <4>2. CASE UNCHANGED attested
        BY <4>2 DEF TypeOK
      <4> QED  BY <2>5, <4>1, <4>2 DEF PushFrame
    <3>4. crashed' \subseteq Holder
      BY <2>5 DEF PushFrame, TypeOK
    <3> QED  BY <2>5, <3>1, <3>2, <3>3, <3>4 DEF PushFrame, TypeOK
  <2>6. ASSUME NEW h \in Holder, PrintToken(h) PROVE TypeOK'
    <3>1. TextOf(token[h]) \in TokenString
      BY <2>0, TextOfType
    <3>2. wire' \subseteq TokenString /\ genuine' \subseteq wire'
      BY <2>0, <2>6, <3>1 DEF PrintToken
    <3> QED  BY <2>6, <3>2 DEF PrintToken, TypeOK
  <2>7. CASE AlterText
    <3>1. wire' \subseteq TokenString /\ wire \subseteq wire'
      BY <2>0, <2>7, AlteredType DEF AlterText
    <3> QED  BY <2>7, <3>1 DEF AlterText, TypeOK
  <2>8. ASSUME NEW h \in Holder, NEW r \in NewRequest \cup {NULL},
               NEW update \in BOOLEAN, SetRequest(h, r, update)
        PROVE  TypeOK'
    <3>1. CASE update /\ token[h].body = <<>>
      BY <2>8, <3>1 DEF SetRequest, TypeOK
    <3>2. CASE ~(update /\ token[h].body = <<>>)
      <4>1. r \in Request \cup {NULL}
        BY TokenAssumption
      <4> DEFINE tag == IF update THEN update_tag(token[h].body, token[h].tag)
                                  ELSE token[h].tag
      <4>2. tag \in Tag
        BY <2>0, <3>2, UpdateTagType DEF Object
      <4>3. token' = [token EXCEPT ![h] = [@ EXCEPT !.request = r, !.tag = tag]]
        BY <2>0, <2>8, <3>2 DEF SetRequest, Object
      <4>4. token' \in [Holder -> Object]
        <5> HIDE DEF tag
        <5> QED  BY <2>0, <4>1, <4>2, <4>3 DEF Object
      <4>5. attested' \subseteq Seq(ElementText)
        BY <2>8, <3>2, <4>4, AttestType DEF SetRequest, TypeOK, Object
      <4> QED  BY <2>8, <3>2, <4>4, <4>5 DEF SetRequest, TypeOK
    <3> QED  BY <3>1, <3>2
  <2>9. ASSUME NEW h \in Holder, NEW other \in Holder,
               NEW n \in 0 .. Len(token[other].body), SetBodyFrames(h, other, n)
        PROVE  TypeOK'
    <3>0. SubSeq(token[other].body, 1, n) \in Seq(Element)
      <4>1. token[other].body \in Seq(Element)
        BY <2>0 DEF Object
      <4> QED  BY <4>1
    <3>1. token' \in [Holder -> Object]
      BY <2>0, <2>9, <3>0 DEF SetBodyFrames, Object
    <3> QED  BY <2>9, <3>1 DEF SetBodyFrames, TypeOK
  <2>10. CASE UNCHANGED vars
    BY <2>10 DEF vars, TypeOK
  <2> QED
    BY <2>1, <2>2, <2>3, <2>4, <2>5, <2>6, <2>7, <2>8, <2>9, <2>10
       DEF SetterNext
<1> QED  BY <1>1, <1>2, PTL DEF SetterSpec

-----------------------------------------------------------------------------
(***************************************************************************)
(* What a tag that verifies tells.                                         *)
(***************************************************************************)
LEMMA UpdateTagPrefixes ==
  ASSUME NEW b \in Seq(Element), b # <<>>, NEW tag \in Tag,
         NEW chains, NEW more, chains \subseteq more, PrefixesIn(tag, chains),
         update_tag(b, tag).base = "secret" => update_tag(b, tag).chain \in more
  PROVE  PrefixesIn(update_tag(b, tag), more)
<1> DEFINE key == IF Len(b) = 1 THEN SECRET ELSE tag
           msg == element_to_string(b[Len(b)])
<1>1. b[Len(b)] \in Element
  OBVIOUS
<1>2. msg \in ElementText
  BY <1>1, ElementTextType
<1>3. key \in Tag
  BY SecretType
<1>4. PrefixesIn(SECRET, chains)
  BY DEF PrefixesIn, SECRET
<1>5. PrefixesIn(key, chains)
  BY <1>4
<1>6. update_tag(b, tag) = compute_mac(msg, key)
  BY DEF update_tag
<1> HIDE DEF key, msg
<1> QED  BY <1>2, <1>3, <1>5, <1>6, ComputeMacPrefixes

LEMMA AttestEffect ==
  ASSUME NEW tag, Attest(tag)
  PROVE  /\ attested \subseteq attested'
         /\ tag.base = "secret" => tag.chain \in attested'
BY DEF Attest

LEMMA AddFramePrefixes ==
  ASSUME NEW t \in Object, NEW e \in Element, NEW chains, NEW more,
         chains \subseteq more, PrefixesIn(t.tag, chains),
         add_frame(t, e).tag.base = "secret" => add_frame(t, e).tag.chain \in more
  PROVE  PrefixesIn(add_frame(t, e).tag, more)
<1> DEFINE b == push_back(t, e).body
<1>1. b \in Seq(Element) /\ b # <<>> /\ t.tag \in Tag
  BY PushBackType DEF Object
<1>2. add_frame(t, e).tag = update_tag(b, t.tag)
  BY PushBackType DEF add_frame, Object
<1> HIDE DEF b
<1> QED  BY <1>1, <1>2, UpdateTagPrefixes

(* Whatever texts are read and whatever is altered in circulation, every   *)
(* tag computed from the SECRET has its whole chain on record.             *)
THEOREM TagsAttestedHolds == SetterSpec => []TagsAttested
<1>1. Init => TagsAttested
  BY DEF Init, TagsAttested, PrefixesIn, EmptyToken, EmptyTag
<1>2. TypeOK /\ TagsAttested /\ [SetterNext]_vars => TagsAttested'
  <2> SUFFICES ASSUME TypeOK, TagsAttested, [SetterNext]_vars
               PROVE  TagsAttested'
    OBVIOUS
  <2>0. token \in [Holder -> Object] /\ wire \subseteq TokenString
    BY DEF TypeOK
  (* A step that changes the tag of one object only. *)
  <2>a. ASSUME NEW h \in Holder, NEW u, token' = [token EXCEPT ![h] = u],
               attested \subseteq attested', PrefixesIn(u.tag, attested'),
               wire' = wire
        PROVE  TagsAttested'
    <3>1. \A g \in Holder : PrefixesIn(token'[g].tag, attested')
      <4> SUFFICES ASSUME NEW g \in Holder
                   PROVE  PrefixesIn(token'[g].tag, attested')
        OBVIOUS
      <4>1. CASE g = h
        BY <2>0, <2>a, <4>1
      <4>2. CASE g # h
        <5>1. token'[g] = token[g]
          BY <2>0, <2>a, <4>2
        <5> QED  BY <2>a, <5>1, PrefixesMonotone DEF TagsAttested
      <4> QED  BY <4>1, <4>2
    <3>2. \A t \in wire' : PrefixesIn(t.tag, attested')
      BY <2>a, PrefixesMonotone DEF TagsAttested
    <3> QED  BY <3>1, <3>2 DEF TagsAttested
  <2>1. ASSUME NEW h \in Holder, NewToken(h) PROVE TagsAttested'
    <3>1. PrefixesIn(EmptyToken.tag, attested')
      BY DEF PrefixesIn, EmptyToken, EmptyTag
    <3> QED  BY <2>1, <2>a, <3>1 DEF NewToken
  <2>2. ASSUME NEW h \in Holder, NEW f \in NewFrame \cup NewRequest,
               AddFrame(h, f)
        PROVE  TagsAttested'
    <3> DEFINE u == add_frame(token[h], f)
    <3>1. f \in Element /\ token[h] \in Object
      BY <2>0, TokenAssumption, RequestElement
    <3>2. token' = [token EXCEPT ![h] = u] /\ token'[h] = u
      BY <2>0, <2>2 DEF AddFrame
    <3>3. /\ attested \subseteq attested'
          /\ u.tag.base = "secret" => u.tag.chain \in attested'
      BY <2>2, <3>2, AttestEffect DEF AddFrame
    <3>4. PrefixesIn(u.tag, attested')
      BY <3>1, <3>3, AddFramePrefixes DEF TagsAttested
    <3> HIDE DEF u
    <3> QED  BY <2>2, <2>a, <3>2, <3>3, <3>4 DEF AddFrame
  <2>3. ASSUME NEW h \in Holder, NEW t \in wire, FromString(h, t)
        PROVE  TagsAttested'
    <3> DEFINE u == [token[h] EXCEPT !.tag = t.tag]
    <3>1. token' = [token EXCEPT ![h] = u] /\ u.tag = t.tag
      BY <2>0, <2>3 DEF FromString, Object
    <3>2. PrefixesIn(u.tag, attested') /\ attested' = attested /\ wire' = wire
      BY <2>3, <3>1 DEF FromString, TagsAttested
    <3> HIDE DEF u
    <3> QED  BY <2>a, <3>1, <3>2
  <2>4. ASSUME NEW h \in Holder, NEW s \in PlainText, FromPlainText(h, s)
        PROVE  TagsAttested'
    BY <2>4 DEF FromPlainText, TagsAttested
  <2>5. ASSUME NEW h \in Holder, PushFrame(h) PROVE TagsAttested'
    <3>1. attested \subseteq attested' /\ wire' = wire
      BY <2>5, AttestEffect DEF PushFrame
    <3>2. CASE token' = token
      BY <3>1, <3>2, PrefixesMonotone DEF TagsAttested
    <3>3. ASSUME NEW u, token' = [token EXCEPT ![h] = u],
                 Pushed(token[h], u, parsing[h].calc_tag)
          PROVE  TagsAttested'
      <4>1. PICK base \in Object, e \in Element :
              /\ base.tag = token[h].tag
              /\ u = IF parsing[h].calc_tag THEN add_frame(base, e)
                                            ELSE push_back(base, e)
        BY <3>3 DEF Pushed
      <4>2. PrefixesIn(base.tag, attested)
        BY <4>1 DEF TagsAttested
      <4>3. CASE parsing[h].calc_tag
        <5>1. Attest(token'[h].tag) /\ token'[h] = u /\ u = add_frame(base, e)
          BY <2>0, <2>5, <3>3, <4>1, <4>3 DEF PushFrame
        <5>2. u.tag.base = "secret" => u.tag.chain \in attested'
          BY <5>1, AttestEffect
        <5>3. PrefixesIn(u.tag, attested')
          BY <3>1, <4>2, <5>1, <5>2, AddFramePrefixes
        <5> QED  BY <2>a, <3>1, <3>3, <5>3
      <4>4. CASE ~parsing[h].calc_tag
        <5>1. u.tag = base.tag
          BY <4>1, <4>4, PushBackType
        <5>2. PrefixesIn(u.tag, attested')
          BY <3>1, <4>2, <5>1, PrefixesMonotone
        <5> QED  BY <2>a, <3>1, <3>3, <5>2
      <4> QED  BY <4>3, <4>4
    <3> QED  BY <2>5, <3>2, <3>3, PushFrameEffect
  <2>6. ASSUME NEW h \in Holder, PrintToken(h) PROVE TagsAttested'
    <3>1. TextOf(token[h]).tag = token[h].tag
      BY DEF TextOf
    <3> QED  BY <2>6, <3>1 DEF PrintToken, TagsAttested
  <2>7. CASE AlterText
    <3>0. PICK t \in wire : \E altered \in Altered(t) :
            wire' = wire \cup {altered}
      BY <2>7 DEF AlterText
    <3>1. PICK altered \in Altered(t) : wire' = wire \cup {altered}
      BY <3>0
    <3>2. PrefixesIn(OtherTag, attested)
      BY DEF PrefixesIn, OtherTag
    <3>3. altered.tag \in {OtherTag, t.tag}
      BY <2>0, <3>1, AlteredType
    <3> QED  BY <2>7, <3>1, <3>2, <3>3 DEF AlterText, TagsAttested
  <2>8. ASSUME NEW h \in Holder, NEW r \in NewRequest \cup {NULL},
               NEW update \in BOOLEAN, SetRequest(h, r, update)
        PROVE  TagsAttested'
    <3>1. CASE update /\ token[h].body = <<>>
      BY <2>8, <3>1 DEF SetRequest, TagsAttested
    <3>2. CASE ~(update /\ token[h].body = <<>>)
      <4> DEFINE tag == IF update THEN update_tag(token[h].body, token[h].tag)
                                  ELSE token[h].tag
                 u == [token[h] EXCEPT !.request = r, !.tag = tag]
      <4>1. token' = [token EXCEPT ![h] = u] /\ token'[h] = u /\ u.tag = tag
        BY <2>0, <2>8, <3>2 DEF SetRequest, Object
      <4>2. /\ attested \subseteq attested' /\ wire' = wire
            /\ tag.base = "secret" => tag.chain \in attested'
        BY <2>8, <3>2, <4>1, AttestEffect DEF SetRequest
      <4>3. PrefixesIn(token[h].tag, attested)
        BY DEF TagsAttested
      <4>4. PrefixesIn(tag, attested')
        <5>1. CASE update
          <6>1. /\ token[h].body \in Seq(Element) /\ token[h].body # <<>>
                /\ token[h].tag \in Tag
            BY <2>0, <3>2, <5>1 DEF Object
          <6> QED  BY <4>2, <4>3, <5>1, <6>1, UpdateTagPrefixes
        <5>2. CASE ~update
          BY <4>2, <4>3, <5>2, PrefixesMonotone
        <5> QED  BY <5>1, <5>2
      <4> HIDE DEF u, tag
      <4> QED  BY <2>a, <4>1, <4>2, <4>4
    <3> QED  BY <3>1, <3>2
  <2>9. ASSUME NEW h \in Holder, NEW other \in Holder,
               NEW n \in 0 .. Len(token[other].body), SetBodyFrames(h, other, n)
        PROVE  TagsAttested'
    <3> DEFINE u == [token[h] EXCEPT !.body = SubSeq(token[other].body, 1, n)]
    <3>1. token' = [token EXCEPT ![h] = u] /\ u.tag = token[h].tag
      BY <2>0, <2>9 DEF SetBodyFrames, Object
    <3>2. PrefixesIn(u.tag, attested') /\ attested' = attested /\ wire' = wire
      BY <2>9, <3>1 DEF SetBodyFrames, TagsAttested
    <3> HIDE DEF u
    <3> QED  BY <2>a, <3>1, <3>2
  <2>10. CASE UNCHANGED vars
    BY <2>10 DEF vars, TagsAttested
  <2> QED
    BY <2>1, <2>2, <2>3, <2>4, <2>5, <2>6, <2>7, <2>8, <2>9, <2>10
       DEF SetterNext
<1> QED  BY <1>1, <1>2, TypeCorrect, PTL DEF SetterSpec

(* A token that is_valid_signature accepts consists of frames that         *)
(* update_tag put there, one directly after the other, for any number of   *)
(* holders and any texts, whichever public methods were called.            *)
THEOREM VerifiedWasAttestedHolds == SetterSpec => []VerifiedWasAttested
<1>1. TypeOK /\ TagsAttested => VerifiedWasAttested
  <2> SUFFICES ASSUME TypeOK, TagsAttested,
                      NEW h \in Holder, is_valid_signature(token[h]),
                      NEW n \in 1 .. Len(token[h].body)
               PROVE  SubSeq(body_to_string(token[h].body), 1, n) \in attested
    BY DEF VerifiedWasAttested
  <2>1. token[h].body \in Seq(Element)
    BY DEF TypeOK, Object
  <2>2. /\ token[h].tag.base = "secret"
        /\ token[h].tag.chain = body_to_string(token[h].body)
    BY DEF is_valid_signature, SignatureOf
  <2>3. n \in 1 .. Len(token[h].tag.chain)
    BY <2>1, <2>2, BodyTextType
  <2> QED  BY <2>2, <2>3 DEF TagsAttested, PrefixesIn
<1> QED  BY <1>1, TypeCorrect, TagsAttestedHolds, PTL

(* The same of the calls that the tests and the programs make.             *)
THEOREM CallersUseSetters == Spec => SetterSpec
<1>1. [Next]_vars => [SetterNext]_vars
  BY DEF Next, HolderNext, SetterNext
<1> QED  BY <1>1, PTL DEF Spec, SetterSpec
=============================================================================
