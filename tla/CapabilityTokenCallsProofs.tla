---------------------- MODULE CapabilityTokenCallsProofs ---------------------
(***************************************************************************)
(* CapabilityToken under the calls that the tests and the programs of the  *)
(* repository make (Spec), for any number of holders, frames and texts;    *)
(* at the end, what holds of their readers under all public calls.         *)
(***************************************************************************)
EXTENDS CapabilityTokenProofs

LEMMA CallersTypeCorrect == Spec => []TypeOK
  BY CallersUseSetters, TypeCorrect, PTL

-----------------------------------------------------------------------------
(***************************************************************************)
(* The effect of the calls.                                                *)
(***************************************************************************)

LEMMA AddFrameEffect ==
  ASSUME NEW t \in Object, NEW e \in Element
  PROVE  /\ add_frame(t, e) \in Object
         /\ add_frame(t, e).body = Append(t.body, e)
         /\ add_frame(t, e).request = t.request
         /\ add_frame(t, e).tag = update_tag(Append(t.body, e), t.tag)
<1> DEFINE longer == push_back(t, e)
<1>1. /\ longer \in Object /\ longer.body = Append(t.body, e)
      /\ longer.request = t.request
  BY PushBackType DEF push_back, Object
<1>2. add_frame(t, e) = [longer EXCEPT !.tag = update_tag(longer.body, t.tag)]
  BY DEF add_frame
<1> HIDE DEF longer
<1> QED  BY <1>1, <1>2, AddFrameType DEF Object

(* add_frame, or the push_back of from_string without calc_tag.            *)
Pushing(t, e, calc_tag) == IF calc_tag THEN add_frame(t, e) ELSE push_back(t, e)

LEMMA PushingEffect ==
  ASSUME NEW t \in Object, NEW e \in Element, NEW c \in BOOLEAN
  PROVE  /\ Pushing(t, e, c) \in Object
         /\ Pushing(t, e, c).body = Append(t.body, e)
         /\ Pushing(t, e, c).request = t.request
         /\ Pushing(t, e, c).tag
              = IF c THEN update_tag(Append(t.body, e), t.tag) ELSE t.tag
<1>1. CASE c
  BY <1>1, AddFrameEffect DEF Pushing
<1>2. CASE ~c
  <2>1. /\ push_back(t, e) \in Object /\ push_back(t, e).tag = t.tag
        /\ push_back(t, e).body = Append(t.body, e)
        /\ push_back(t, e).request = t.request
    BY PushBackType DEF push_back, Object
  <2> QED  BY <1>2, <2>1 DEF Pushing
<1> QED  BY <1>1, <1>2

(* The element that an iteration of from_string_no_tag makes of a text,    *)
(* and the object it is put into.                                          *)
ReadInto(t, text, e, base) ==
  \/ /\ text.kind = "request"
     /\ text \in RequestText
     /\ e = request_from_string(text)
     /\ base = set_read_request(t, e)
  \/ /\ text.kind = "frame"
     /\ text \in FrameText
     /\ \E residue \in [DOMAIN text.capabilities -> CapabilityType] :
          e = frame_from_string(text, residue)
     /\ base = t

LEMMA ReadIntoType ==
  ASSUME NEW t \in Object, NEW text, NEW e, NEW base, ReadInto(t, text, e, base)
  PROVE  /\ e \in Element /\ base \in Object
         /\ base.body = t.body /\ base.tag = t.tag
         /\ e.kind = text.kind
         /\ base.request = IF text.kind = "request" THEN e ELSE t.request
<1>1. CASE text.kind = "request"
  <2>1. e \in Request /\ base = set_read_request(t, e)
    BY <1>1, ReadRequestType DEF ReadInto
  <2>2. e.kind = "request"
    BY <2>1 DEF Request
  <2> QED  BY <1>1, <2>1, <2>2, RequestElement DEF set_read_request, Object
<1>2. CASE text.kind = "frame"
  <2>1. e \in Element /\ base = t
    BY <1>2, ReadFrameType DEF ReadInto
  <2>2. e.kind = "frame"
    BY <1>2 DEF ReadInto, frame_from_string
  <2> QED  BY <1>2, <2>1, <2>2
<1> QED  BY <1>1, <1>2 DEF ReadInto

(* An iteration ends the program, or puts one element read into the body.  *)
LEMMA PushFrameStep ==
  ASSUME TypeOK, NEW h \in Holder, PushFrame(h)
  PROVE  \/ h \in crashed' /\ token' = token
         \/ /\ Readable(parsing[h].rest)
            /\ \E e, base :
                 /\ ReadInto(token[h], Head(parsing[h].rest), e, base)
                 /\ token' = [token EXCEPT
                      ![h] = Pushing(base, e, parsing[h].calc_tag)]
<1> DEFINE text == Head(parsing[h].rest)
           c == parsing[h].calc_tag
<1>1. text \in ElementText /\ token \in [Holder -> Object] /\ c \in BOOLEAN
  BY DEF TypeOK, PushFrame
<1>2. CASE /\ text.kind = "request" /\ Readable(parsing[h].rest)
           /\ token' = [token EXCEPT ![h] =
                IF c THEN add_frame(set_read_request(token[h],
                                      request_from_string(text)),
                                    request_from_string(text))
                     ELSE push_back(set_read_request(token[h],
                                      request_from_string(text)),
                                    request_from_string(text))]
  <2>1. text \in RequestText
    BY <1>1, <1>2 DEF ElementText, FrameText
  <2> QED  BY <1>2, <2>1, Zenon DEF ReadInto, Pushing
<1>3. ASSUME text.kind = "frame", Readable(parsing[h].rest),
             NEW residue \in [DOMAIN text.capabilities -> CapabilityType],
             token' = [token EXCEPT ![h] =
               IF c THEN add_frame(token[h], frame_from_string(text, residue))
                    ELSE push_back(token[h], frame_from_string(text, residue))]
      PROVE  \E e, base :
               /\ ReadInto(token[h], text, e, base)
               /\ token' = [token EXCEPT ![h] = Pushing(base, e, c)]
  <2>1. text \in FrameText
    BY <1>1, <1>3 DEF ElementText, RequestText
  <2> QED  BY <1>3, <2>1, Zenon DEF ReadInto, Pushing
<1>4. CASE token' = token /\ crashed' = crashed \cup {h}
  BY <1>4
<1> HIDE DEF c
<1> QED  BY <1>1, <1>2, <1>3, <1>4 DEF PushFrame, c

(* A call of one holder leaves the objects of the others alone.            *)
LEMMA OthersUntouched ==
  ASSUME TypeOK, NEW h \in Holder, HolderNext(h), NEW g \in Holder, g # h
  PROVE  /\ token'[g] = token[g] /\ parsing'[g] = parsing[g]
         /\ clean'[g] = clean[g]
         /\ g \in crashed' <=> g \in crashed
<1>1. CASE NewToken(h)
  BY <1>1 DEF NewToken, TypeOK
<1>2. CASE \E f \in NewFrame : AddFrame(h, f)
  BY <1>2 DEF AddFrame, TypeOK
<1>3. CASE \E t \in wire : FromString(h, t)
  BY <1>3 DEF FromString, StartParsing, TypeOK
<1>4. CASE \E s \in PlainText : FromPlainText(h, s)
  BY <1>4 DEF FromPlainText, StartParsing, TypeOK
<1>5. CASE PushFrame(h)
  <2>1. token'[g] = token[g]
    BY <1>5, PushFrameStep DEF TypeOK
  <2>2. crashed' \in {crashed, crashed \cup {h}}
    BY <1>5 DEF PushFrame
  <2> QED  BY <1>5, <2>1, <2>2 DEF PushFrame, TypeOK
<1>6. CASE PrintToken(h)
  BY <1>6 DEF PrintToken, TypeOK
<1> QED  BY <1>1, <1>2, <1>3, <1>4, <1>5, <1>6 DEF HolderNext

-----------------------------------------------------------------------------
(***************************************************************************)
(* The two places that hold the request.                                   *)
(***************************************************************************)
AllFrames(b) == \A k \in DOMAIN b : b[k].kind = "frame"

LEMMA NoRequestAmongFrames ==
  ASSUME NEW t \in Object, RequestAtEnd(t.body, t.request), AllFrames(t.body)
  PROVE  t.request = NULL
<1> SUFFICES ASSUME t.request # NULL PROVE FALSE
  OBVIOUS
<1>1. t.request \in Request /\ t.body \in Seq(Element)
  BY DEF Object
<1>2. t.body # <<>> /\ t.request = t.body[Len(t.body)]
  BY DEF RequestAtEnd
<1>3. Len(t.body) \in DOMAIN t.body
  BY <1>1, <1>2
<1> QED  BY <1>1, <1>2, <1>3 DEF AllFrames, Request

LEMMA FramesHaveNoRequest ==
  ASSUME NEW b, AllFrames(b)
  PROVE  RequestAtEnd(b, NULL)
BY DEF AllFrames, RequestAtEnd

LEMMA AppendFrame ==
  ASSUME NEW b \in Seq(Element), AllFrames(b), NEW e \in Element,
         e.kind = "frame"
  PROVE  AllFrames(Append(b, e))
BY DEF AllFrames

LEMMA AppendRequest ==
  ASSUME NEW b \in Seq(Element), AllFrames(b), NEW e \in Element
  PROVE  e # NULL => RequestAtEnd(Append(b, e), e)
BY DEF AllFrames, RequestAtEnd

(* Only the last piece of a text is read as a request, a token with a      *)
(* request is not added to, and so the pointer and the end of the body go  *)
(* together, however many calls, texts and holders.                        *)
THEOREM RequestsReadHolds == Spec => []RequestsRead
<1>1. Init => RequestsRead
  BY DEF Init, RequestsRead, EmptyToken, NotParsing, RequestAtEnd
<1>2. TypeOK /\ RequestsRead /\ [Next]_vars => RequestsRead'
  <2> SUFFICES ASSUME TypeOK, RequestsRead, [Next]_vars PROVE RequestsRead'
    OBVIOUS
  <2>1. CASE AlterText
    BY <2>1 DEF AlterText, RequestsRead, Open
  <2>2. CASE UNCHANGED vars
    BY <2>2 DEF vars, RequestsRead, Open
  <2>3. ASSUME NEW h \in Holder, HolderNext(h) PROVE RequestsRead'
    <3> DEFINE Read(g) == g \notin crashed =>
                 IF parsing[g].rest = <<>>
                 THEN RequestAtEnd(token[g].body, token[g].request)
                 ELSE AllFrames(token[g].body) /\ token[g].request = NULL
    <3>1. RequestsRead <=> \A g \in Holder : Read(g)
      BY DEF RequestsRead, Open, AllFrames
    <3>2. RequestsRead' <=> \A g \in Holder : Read(g)'
      BY DEF RequestsRead, Open, AllFrames
    <3>3. ASSUME NEW g \in Holder, g # h PROVE Read(g)'
      BY <2>3, <3>1, <3>3, OthersUntouched
    <3>4. /\ token \in [Holder -> Object] /\ token[h] \in Object
          /\ token[h].body \in Seq(Element)
          /\ parsing[h].rest \in Seq(ElementText)
          /\ parsing[h].calc_tag \in BOOLEAN
      BY DEF TypeOK, Object
    <3>5. Read(h)
      BY <3>1
    <3>6. ASSUME NewToken(h) PROVE Read(h)'
      BY <3>4, <3>6 DEF NewToken, Idle, EmptyToken, RequestAtEnd
    <3>7. ASSUME Open(h), NEW f \in NewFrame, AddFrame(h, f) PROVE Read(h)'
      <4>1. f \in Element /\ f.kind = "frame"
        BY TokenAssumption, RequestElement DEF Frame
      <4>2. /\ RequestAtEnd(token[h].body, token[h].request)
            /\ AllFrames(token[h].body)
            /\ parsing'[h] = parsing[h] /\ parsing[h].rest = <<>>
        BY <3>5, <3>7 DEF AddFrame, Idle, Open, AllFrames
      <4>3. token'[h] = add_frame(token[h], f)
        BY <3>4, <3>7 DEF AddFrame
      <4>4. /\ token'[h].body = Append(token[h].body, f)
            /\ token'[h].request = NULL
        BY <3>4, <4>1, <4>2, <4>3, AddFrameEffect, NoRequestAmongFrames
      <4>5. AllFrames(token'[h].body)
        BY <3>4, <4>1, <4>2, <4>4, AppendFrame
      <4>6. RequestAtEnd(token'[h].body, token'[h].request)
        BY <4>4, <4>5, FramesHaveNoRequest
      <4> QED  BY <4>2, <4>6
    <3>8. ASSUME token[h] = EmptyToken, NEW t \in wire, FromString(h, t)
          PROVE  Read(h)'
      <4>1. token'[h].body = <<>> /\ token'[h].request = NULL
        BY <3>4, <3>8 DEF FromString, EmptyToken, Object
      <4> QED  BY <4>1 DEF AllFrames, RequestAtEnd
    <3>9. ASSUME Open(h), NEW s \in PlainText, FromPlainText(h, s)
          PROVE  Read(h)'
      <4>1. /\ RequestAtEnd(token[h].body, token[h].request)
            /\ AllFrames(token[h].body)
        BY <3>5, <3>9 DEF FromPlainText, Idle, Open, AllFrames
      <4>2. token'[h] = token[h]
        BY <3>9 DEF FromPlainText
      <4> QED  BY <3>4, <4>1, <4>2, NoRequestAmongFrames
    <3>10. ASSUME PushFrame(h) PROVE Read(h)'
      <4>1. CASE h \in crashed'
        BY <4>1
      <4>2. ASSUME h \notin crashed', Readable(parsing[h].rest), NEW e, NEW base,
                   ReadInto(token[h], Head(parsing[h].rest), e, base),
                   token' = [token EXCEPT
                     ![h] = Pushing(base, e, parsing[h].calc_tag)]
            PROVE  Read(h)'
        <5> DEFINE text == Head(parsing[h].rest)
        <5>1. AllFrames(token[h].body) /\ token[h].request = NULL
          BY <3>5, <3>10 DEF PushFrame
        <5>2. /\ e \in Element /\ base \in Object /\ base.body = token[h].body
              /\ e.kind = text.kind
              /\ base.request = IF text.kind = "request" THEN e ELSE NULL
          BY <3>4, <4>2, <5>1, ReadIntoType
        <5>3. token'[h] = Pushing(base, e, parsing[h].calc_tag)
          BY <3>4, <4>2
        <5>4. /\ token'[h].body = Append(token[h].body, e)
              /\ token'[h].request = base.request
          BY <3>4, <5>2, <5>3, PushingEffect
        <5>5. CASE text.kind = "request"
          <6>1. Len(parsing[h].rest) = 1
            BY <4>2, <5>5 DEF Readable
          <6>2. parsing'[h].rest = <<>>
            BY <3>10, <6>1 DEF PushFrame, Advance, NotParsing, TypeOK
          <6>3. e # NULL
            <7>1. e.kind = "request"
              BY <5>2, <5>5
            <7>2. e \in Request
              BY <5>2, <7>1 DEF Element, Frame
            <7> QED  BY <7>2, TokenAssumption
          <6> QED
            BY <3>4, <5>1, <5>2, <5>4, <5>5, <6>2, <6>3, AppendRequest
        <5>6. CASE text.kind # "request"
          <6>1. e.kind = "frame"
            BY <4>2, <5>2, <5>6 DEF ReadInto
          <6>2. AllFrames(token'[h].body) /\ token'[h].request = NULL
            BY <3>4, <5>1, <5>2, <5>4, <5>6, <6>1, AppendFrame
          <6> QED  BY <6>2, FramesHaveNoRequest
        <5> QED  BY <5>5, <5>6
      <4> QED  BY <3>10, <4>1, <4>2, PushFrameStep
    <3>11. ASSUME PrintToken(h) PROVE Read(h)'
      BY <3>5, <3>11 DEF PrintToken
    <3>12. Read(h)'
      BY <2>3, <3>6, <3>7, <3>8, <3>9, <3>10, <3>11 DEF HolderNext
    <3> QED  BY <3>2, <3>3, <3>12
  <2> QED  BY <2>1, <2>2, <2>3 DEF Next
<1> QED  BY <1>1, <1>2, CallersTypeCorrect, PTL DEF Spec

(* The request that is_valid_request_cspot takes from the pointer is the   *)
(* one that is_valid_request takes from the end of the body, in every      *)
(* token that the documented calls can make, of any length.                *)
THEOREM RequestIsLastHolds == Spec => []RequestIsLast
<1>1. RequestsRead => RequestIsLast
  BY DEF RequestsRead, RequestIsLast, Idle
<1> QED  BY <1>1, RequestsReadHolds, PTL

-----------------------------------------------------------------------------
(***************************************************************************)
(* Two ways of computing a tag.                                            *)
(***************************************************************************)
LEMMA BodyTextAppend ==
  ASSUME NEW b \in Seq(Element), NEW e \in Element
  PROVE  body_to_string(Append(b, e))
           = Append(body_to_string(b), element_to_string(e))
<1> DEFINE longer == Append(b, e)
           s == body_to_string(longer)
           t == Append(body_to_string(b), element_to_string(e))
<1>1. longer \in Seq(Element) /\ Len(longer) = Len(b) + 1
  OBVIOUS
<1>2. /\ s \in Seq(ElementText) /\ Len(s) = Len(b) + 1
      /\ \A k \in 1 .. Len(b) + 1 : s[k] = element_to_string(longer[k])
  BY <1>1, BodyTextType
<1>3. /\ body_to_string(b) \in Seq(ElementText)
      /\ Len(body_to_string(b)) = Len(b)
      /\ \A k \in 1 .. Len(b) : body_to_string(b)[k] = element_to_string(b[k])
  BY BodyTextType
<1>4. t \in Seq(ElementText) /\ Len(t) = Len(b) + 1
  BY <1>3, ElementTextType
<1>5. ASSUME NEW k \in 1 .. Len(b) + 1 PROVE s[k] = t[k]
  <2>1. CASE k <= Len(b)
    <3>1. longer[k] = b[k] /\ k \in 1 .. Len(b)
      BY <2>1
    <3>2. t[k] = body_to_string(b)[k]
      BY <1>3, <2>1, ElementTextType
    <3> QED  BY <1>2, <1>3, <3>1, <3>2
  <2>2. CASE k = Len(b) + 1
    <3>1. longer[k] = e /\ t[k] = element_to_string(e)
      BY <1>3, <2>2, ElementTextType
    <3> QED  BY <1>2, <3>1
  <2> QED  BY <1>3, <2>1, <2>2
<1> HIDE DEF s, t
<1> QED  BY <1>2, <1>4, <1>5 DEF s, t

LEMMA AppendInjective ==
  ASSUME NEW s \in Seq(ElementText), NEW t \in Seq(ElementText),
         NEW m \in ElementText, Append(s, m) = Append(t, m)
  PROVE  s = t
<1>1. Len(s) = Len(t)
  <2>1. Len(Append(s, m)) = Len(s) + 1 /\ Len(Append(t, m)) = Len(t) + 1
    OBVIOUS
  <2> QED  BY <2>1
<1>2. ASSUME NEW k \in 1 .. Len(s) PROVE s[k] = t[k]
  <2>1. Append(s, m)[k] = s[k] /\ Append(t, m)[k] = t[k]
    BY <1>1
  <2> QED  BY <2>1
<1> QED  BY <1>1, <1>2

(* A code made with an old tag is the signature of the longer body just if *)
(* the old tag was that of the shorter one.                                *)
LEMMA ComputeMacSigns ==
  ASSUME NEW b \in Seq(Element), NEW e \in Element, NEW tag \in Tag
  PROVE  compute_mac(element_to_string(e), tag) = SignatureOf(Append(b, e))
           <=> tag = SignatureOf(b)
<1>1. \E m : m = element_to_string(e)
  OBVIOUS
<1>2. PICK m : m = element_to_string(e)
  BY <1>1
<1>3. \E s : s = body_to_string(b)
  OBVIOUS
<1>4. PICK s : s = body_to_string(b)
  BY <1>3
<1>5. /\ m \in ElementText
      /\ tag.chain \in Seq(ElementText)
      /\ s \in Seq(ElementText)
  BY <1>2, <1>4, ElementTextType, BodyTextType DEF Tag
<1>6. compute_mac(m, tag) = [base |-> tag.base, chain |-> Append(tag.chain, m)]
  BY <1>5, ComputeMacEffect
<1>7. SignatureOf(Append(b, e)) = [base |-> "secret", chain |-> Append(s, m)]
  BY <1>2, <1>4, BodyTextAppend DEF SignatureOf
<1>8. Append(tag.chain, m) = Append(s, m) <=> tag.chain = s
  BY <1>5, AppendInjective
<1>9. tag = [base |-> tag.base, chain |-> tag.chain]
  BY DEF Tag
<1>10. SignatureOf(b) = [base |-> "secret", chain |-> s]
  BY <1>4 DEF SignatureOf
<1>11. ASSUME tag = SignatureOf(b)
       PROVE  compute_mac(m, tag) = SignatureOf(Append(b, e))
  <2>1. tag.base = "secret" /\ tag.chain = s
    BY <1>10, <1>11
  <2> QED  BY <1>6, <1>7, <2>1
<1>12. ASSUME compute_mac(m, tag) = SignatureOf(Append(b, e))
       PROVE  tag = SignatureOf(b)
  <2> DEFINE left == Append(tag.chain, m)
             right == Append(s, m)
  <2>1. [base |-> tag.base, chain |-> left] = [base |-> "secret", chain |-> right]
    BY <1>6, <1>7, <1>12
  <2> HIDE DEF left, right
  <2>2. tag.base = "secret" /\ left = right
    BY <2>1
  <2>3. tag.chain = s
    BY <1>8, <2>2 DEF left, right
  <2> QED  BY <1>9, <1>10, <2>2, <2>3
<1> QED  BY <1>2, <1>11, <1>12

LEMMA AddFrameKeepsVerdict ==
  ASSUME NEW t \in Object, NEW e \in Element, t.body # <<>>
  PROVE  is_valid_signature(add_frame(t, e)) <=> is_valid_signature(t)
<1>1. t.body \in Seq(Element) /\ t.tag \in Tag
  BY DEF Object
<1>2. /\ Len(Append(t.body, e)) # 1
      /\ Append(t.body, e)[Len(Append(t.body, e))] = e
  BY <1>1
<1>3. /\ add_frame(t, e).body = Append(t.body, e)
      /\ add_frame(t, e).tag = compute_mac(element_to_string(e), t.tag)
  <2>1. add_frame(t, e).body = Append(t.body, e)
    BY AddFrameEffect
  <2>2. add_frame(t, e).tag = update_tag(Append(t.body, e), t.tag)
    BY AddFrameEffect
  <2> QED  BY <1>2, <2>1, <2>2 DEF update_tag
<1> QED  BY <1>1, <1>3, ComputeMacSigns DEF is_valid_signature

(* Adding an element, by add_frame or while reading, neither breaks a good *)
(* tag nor repairs a bad one: for any tag, body and element.               *)
THEOREM AddingKeepsVerdictHolds == Spec => AddingKeepsVerdict
<1> DEFINE Kept(h) ==
      (/\ token[h].body # <<>>
       /\ Len(token'[h].body) = Len(token[h].body) + 1
       /\ Idle(h) \/ parsing[h].calc_tag)
        => is_valid_signature(token'[h]) = is_valid_signature(token[h])
<1>1. TypeOK /\ [Next]_vars => [\A h \in Holder : Kept(h)]_vars
  <2> SUFFICES ASSUME TypeOK, Next, NEW h \in Holder,
                      token[h].body # <<>>,
                      Len(token'[h].body) = Len(token[h].body) + 1,
                      Idle(h) \/ parsing[h].calc_tag
               PROVE  is_valid_signature(token'[h]) <=> is_valid_signature(token[h])
    <3>1. ASSUME NEW a, NEW b, is_valid_signature(a) <=> is_valid_signature(b)
          PROVE  is_valid_signature(a) = is_valid_signature(b)
      BY <3>1, Zenon DEF is_valid_signature
    <3> QED  BY <3>1
  <2>1. /\ token \in [Holder -> Object] /\ token[h] \in Object
        /\ token[h].body \in Seq(Element) /\ parsing[h].calc_tag \in BOOLEAN
    BY DEF TypeOK, Object
  <2>2. token'[h] # token[h]
    <3> SUFFICES ASSUME token'[h] = token[h] PROVE FALSE
      OBVIOUS
    <3>1. Len(token[h].body) \in Nat
      BY <2>1
    <3> QED  BY <3>1
  <2>3. HolderNext(h)
    BY <2>2, OthersUntouched DEF Next, AlterText
  <2>4. CASE NewToken(h)
    BY <2>1, <2>4 DEF NewToken, EmptyToken
  <2>5. ASSUME NEW f \in NewFrame, AddFrame(h, f)
        PROVE  is_valid_signature(token'[h]) <=> is_valid_signature(token[h])
    <3>1. f \in Element
      BY TokenAssumption, RequestElement
    <3>2. token'[h] = add_frame(token[h], f)
      BY <2>1, <2>5 DEF AddFrame
    <3> QED  BY <2>1, <3>1, <3>2, AddFrameKeepsVerdict
  <2>6. ASSUME NEW t \in wire, FromString(h, t)
        PROVE  FALSE
    <3>1. token'[h].body = token[h].body
      BY <2>1, <2>6 DEF FromString, Object
    <3> QED  BY <2>1, <3>1
  <2>7. CASE PushFrame(h)
    <3>1. parsing[h].calc_tag
      BY <2>7 DEF PushFrame, Idle
    <3>2. PICK e, base :
            /\ ReadInto(token[h], Head(parsing[h].rest), e, base)
            /\ token' = [token EXCEPT ![h] = Pushing(base, e, parsing[h].calc_tag)]
      BY <2>2, <2>7, PushFrameStep
    <3>3. /\ e \in Element /\ base \in Object
          /\ base.body = token[h].body /\ base.tag = token[h].tag
      BY <2>1, <3>2, ReadIntoType
    <3>4. token'[h] = add_frame(base, e)
      BY <2>1, <3>1, <3>2 DEF Pushing
    <3>5. is_valid_signature(base) <=> is_valid_signature(token[h])
      BY <3>3 DEF is_valid_signature
    <3> QED  BY <3>3, <3>4, <3>5, AddFrameKeepsVerdict
  <2>8. CASE (\E s \in PlainText : FromPlainText(h, s)) \/ PrintToken(h)
    BY <2>2, <2>8 DEF FromPlainText, PrintToken
  <2> QED  BY <2>3, <2>4, <2>5, <2>6, <2>7, <2>8 DEF HolderNext
<1> QED  BY <1>1, CallersTypeCorrect, PTL DEF Spec, AddingKeepsVerdict

-----------------------------------------------------------------------------
(***************************************************************************)
(* Printing and reading an element.                                        *)
(***************************************************************************)
LEMMA PrintedDigits ==
  ASSUME NEW b \in Bits
  PROVE  ThreeDigits(BitsNumeral(b))
  BY BitsRoundTrip DEF ThreeDigits

(* An element that survives is printed as such a text. *)
LEMMA SurvivorPrints ==
  ASSUME NEW e \in Element, Survives(e)
  PROVE  AsPrinted(element_to_string(e))
<1>1. CASE e.kind = "request"
  <2>1. e.capability.cap_bits \in Bits
    BY <1>1 DEF Element, Frame, Request, CapabilityStructure
  <2>2. /\ element_to_string(e).kind = "request"
        /\ element_to_string(e).cap_bits = BitsNumeral(e.capability.cap_bits)
    BY <1>1 DEF element_to_string, request_to_string
  <2> QED  BY <2>1, <2>2, PrintedDigits DEF AsPrinted, ReadsAsSurviving
<1>2. CASE e.kind # "request"
  <2>1. e \in Frame
    BY <1>2 DEF Element, Request
  <2>2. /\ e.kind = "frame"
        /\ e.capabilities \in Seq(CapabilityStructure)
        /\ e.constraints \in Seq(Constraint)
    BY <2>1 DEF Frame
  <2> DEFINE t == element_to_string(e)
             caps == [j \in DOMAIN e.capabilities |->
                        cap_to_string(e.capabilities[j])]
  <2>3. /\ t.kind = "frame"
        /\ t.lead = (e.capabilities = <<>> /\ e.constraints # <<>>)
        /\ t.capabilities = caps
        /\ t.constraints = e.constraints
    BY <1>2 DEF element_to_string, frame_to_string
  <2>4. /\ DOMAIN caps = DOMAIN e.capabilities
        /\ caps = <<>> <=> e.capabilities = <<>>
    BY <2>2
  <2>5. ASSUME NEW j \in DOMAIN e.capabilities
        PROVE  caps[j].type \in {0, 1} /\ ThreeDigits(caps[j].cap_bits)
    <3>1. /\ e.capabilities[j].type \in CapabilityType \ {"owner_cap"}
          /\ e.capabilities[j].cap_bits \in Bits
      <4>1. e.capabilities[j] \in CapabilityStructure
        BY <2>2, <2>5
      <4>2. e.capabilities[j].type # "owner_cap"
        BY <2>2, <2>5 DEF Survives
      <4> QED  BY <4>1, <4>2 DEF CapabilityStructure
    <3>2. /\ caps[j].type = TypeNumeral(e.capabilities[j].type)
          /\ caps[j].cap_bits = BitsNumeral(e.capabilities[j].cap_bits)
      BY DEF cap_to_string
    <3>3. TypeNumeral(e.capabilities[j].type) \in {0, 1}
      BY <3>1 DEF TypeNumeral, CapabilityType
    <3> QED  BY <3>1, <3>2, <3>3, PrintedDigits
  <2>6. e.capabilities # <<>> \/ e.constraints # <<>>
    BY <2>2 DEF Survives
  <2> HIDE DEF t, caps
  <2>7. AsPrinted(t)
    BY <2>3, <2>4, <2>5, <2>6 DEF AsPrinted, ReadsAsSurviving
  <2> QED  BY <2>7 DEF t
<1> QED  BY <1>1, <1>2

LEMMA ReadKnownType ==
  ASSUME NEW t, NEW residue, t.type \in {0, 1}
  PROVE  cap_from_string(t, residue).type # "owner_cap"
  BY DEF cap_from_string

(* What is read survives, and prints as the text it was read from.         *)
LEMMA ReadSurvives ==
  ASSUME NEW t, NEW text, NEW e, NEW base, ReadInto(t, text, e, base),
         ReadsAsSurviving(text)
  PROVE  Survives(e)
<1>1. CASE text.kind = "request"
  BY <1>1 DEF ReadInto, request_from_string, Survives
<1>2. CASE text.kind = "frame"
  <2>1. text.capabilities \in Seq(CapabilityText)
    BY <1>2 DEF ReadInto, FrameText
  <2>2. PICK residue \in [DOMAIN text.capabilities -> CapabilityType] :
          e = frame_from_string(text, residue)
    BY <1>2 DEF ReadInto
  <2>3. /\ DOMAIN e.capabilities = DOMAIN text.capabilities
        /\ e.constraints = text.constraints
        /\ \A j \in DOMAIN text.capabilities :
             e.capabilities[j] = cap_from_string(text.capabilities[j], residue[j])
    BY <2>2 DEF frame_from_string
  <2>4. ASSUME NEW j \in DOMAIN text.capabilities
        PROVE  e.capabilities[j].type # "owner_cap"
    <3>1. text.capabilities[j].type \in {0, 1}
      BY <1>2 DEF ReadsAsSurviving
    <3>2. e.capabilities[j] = cap_from_string(text.capabilities[j], residue[j])
      BY <2>3
    <3> QED  BY <3>1, <3>2, ReadKnownType
  <2>5. text.capabilities # <<>> => e.capabilities # <<>>
    BY <2>1, <2>3
  <2>6. text.capabilities # <<>> \/ text.constraints # <<>>
    BY <1>2 DEF ReadsAsSurviving
  <2> QED  BY <2>3, <2>4, <2>5, <2>6 DEF Survives
<1> QED  BY <1>1, <1>2 DEF ReadInto

LEMMA ReadCapabilityPrints ==
  ASSUME NEW t \in CapabilityText, NEW residue, t.type \in {0, 1},
         ThreeDigits(t.cap_bits)
  PROVE  cap_to_string(cap_from_string(t, residue)) = t
<1> DEFINE c == cap_from_string(t, residue)
<1>1. /\ c.resource = t.resource
      /\ c.type = IF t.type = 0 THEN "device_cap" ELSE "user_cap"
      /\ c.cap_bits = BitsOfNumeral(t.cap_bits)
  BY DEF cap_from_string
<1>2. TypeNumeral(c.type) = t.type
  BY <1>1 DEF TypeNumeral
<1>3. BitsNumeral(c.cap_bits) = t.cap_bits
  BY <1>1 DEF ThreeDigits
<1>4. t = [resource |-> t.resource, type |-> t.type, cap_bits |-> t.cap_bits]
  BY DEF CapabilityText
<1> HIDE DEF c
<1>5. cap_to_string(c) = t
  BY <1>1, <1>2, <1>3, <1>4 DEF cap_to_string
<1> QED  BY <1>5 DEF c

LEMMA ReadPrints ==
  ASSUME NEW t, NEW text \in ElementText, NEW e, NEW base,
         ReadInto(t, text, e, base), AsPrinted(text),
         text.kind = "frame" => ~text.lead
  PROVE  element_to_string(e) = text
<1>1. CASE text.kind = "request"
  <2>1. text = [kind |-> "request", resource |-> text.resource,
                cap_bits |-> text.cap_bits]
    BY <1>1 DEF ReadInto, RequestText
  <2>2. /\ e.kind = "request"
        /\ e.capability.resource = text.resource
        /\ e.capability.cap_bits = BitsOfNumeral(text.cap_bits)
    BY <1>1 DEF ReadInto, request_from_string
  <2>3. BitsNumeral(e.capability.cap_bits) = text.cap_bits
    BY <1>1, <2>2 DEF AsPrinted, ThreeDigits
  <2> QED  BY <2>1, <2>2, <2>3 DEF element_to_string, request_to_string
<1>2. CASE text.kind = "frame"
  <2>1. /\ text.capabilities \in Seq(CapabilityText)
        /\ text.constraints \in Seq(Constraint)
        /\ text.lead \in BOOLEAN
        /\ text = [kind |-> "frame", lead |-> text.lead,
                   capabilities |-> text.capabilities,
                   constraints |-> text.constraints]
    BY <1>2 DEF ReadInto, FrameText
  <2>2. PICK residue \in [DOMAIN text.capabilities -> CapabilityType] :
          e = frame_from_string(text, residue)
    BY <1>2 DEF ReadInto
  <2>3. /\ e.kind = "frame"
        /\ DOMAIN e.capabilities = DOMAIN text.capabilities
        /\ e.constraints = text.constraints
        /\ \A j \in DOMAIN text.capabilities :
             e.capabilities[j] = cap_from_string(text.capabilities[j], residue[j])
    BY <2>2 DEF frame_from_string
  <2>4. \A j \in DOMAIN text.capabilities :
          cap_to_string(e.capabilities[j]) = text.capabilities[j]
    <3> TAKE j \in DOMAIN text.capabilities
    <3>1. text.capabilities[j] \in CapabilityText
      BY <2>1
    <3>2. text.capabilities[j].type \in {0, 1}
      BY <1>2 DEF AsPrinted, ReadsAsSurviving
    <3>3. ThreeDigits(text.capabilities[j].cap_bits)
      BY <1>2 DEF AsPrinted
    <3> QED  BY <2>3, <3>1, <3>2, <3>3, ReadCapabilityPrints
  <2>5. [j \in DOMAIN e.capabilities |-> cap_to_string(e.capabilities[j])]
          = text.capabilities
    BY <2>1, <2>3, <2>4
  <2>6. text.lead = FALSE /\ text.capabilities # <<>>
    BY <1>2, <2>1 DEF AsPrinted
  <2>7. e.capabilities # <<>>
    BY <2>1, <2>3, <2>6
  <2>8. (e.capabilities = <<>> /\ e.constraints # <<>>) = FALSE
    BY <2>7
  <2> QED  BY <2>1, <2>3, <2>5, <2>6, <2>8 DEF element_to_string, frame_to_string
<1> QED  BY <1>1, <1>2 DEF ReadInto

-----------------------------------------------------------------------------
(***************************************************************************)
(* Reading a text piece by piece.                                          *)
(***************************************************************************)
AllAsPrinted(s) == \A k \in DOMAIN s : AsPrinted(s[k])

LEMMA PrintedFrames ==
  ASSUME NEW b \in Seq(Element), \A k \in DOMAIN b : Survives(b[k])
  PROVE  AllAsPrinted(body_to_string(b))
<1>1. /\ DOMAIN body_to_string(b) = DOMAIN b
      /\ \A k \in DOMAIN b : body_to_string(b)[k] = element_to_string(b[k])
  BY DEF body_to_string
<1>2. \A k \in DOMAIN b : b[k] \in Element
  OBVIOUS
<1> QED  BY <1>1, <1>2, SurvivorPrints DEF AllAsPrinted

LEMMA NoFrameDropped ==
  ASSUME NEW s \in Seq(ElementText), \A k \in DOMAIN s : ReadsAsSurviving(s[k])
  PROVE  str_frames(s) = s
<1>1. CASE s = <<>>
  BY <1>1 DEF str_frames
<1>2. CASE s # <<>>
  <2>1. Len(s) \in DOMAIN s
    BY <1>2
  <2>2. ReadsAsSurviving(s[Len(s)])
    BY <2>1
  <2>3. s[Len(s)] # NoText
    BY <2>2 DEF ReadsAsSurviving, NoText
  <2> QED  BY <2>3 DEF str_frames
<1> QED  BY <1>1, <1>2

LEMMA AppendHead ==
  ASSUME NEW s \in Seq(ElementText), NEW r \in Seq(ElementText), r # <<>>
  PROVE  Append(s, Head(r)) \o Tail(r) = s \o r
<1> DEFINE left == Append(s, Head(r)) \o Tail(r)
           right == s \o r
<1>1. Head(r) \in ElementText /\ Head(r) = r[1] /\ Tail(r) \in Seq(ElementText)
  OBVIOUS
<1>2. left \in Seq(ElementText) /\ right \in Seq(ElementText)
  BY <1>1
<1>3. Len(left) = Len(s) + Len(r) /\ Len(right) = Len(s) + Len(r)
  BY <1>1
<1>4. ASSUME NEW k \in 1 .. Len(s) + Len(r) PROVE left[k] = right[k]
  <2>1. CASE k <= Len(s)
    <3>1. left[k] = s[k] /\ right[k] = s[k]
      BY <1>1, <2>1
    <3> QED  BY <3>1
  <2>2. CASE k = Len(s) + 1
    <3>1. left[k] = r[1] /\ right[k] = r[1]
      BY <1>1, <2>2
    <3> QED  BY <3>1
  <2>3. CASE k > Len(s) + 1
    <3>1. left[k] = Tail(r)[k - (Len(s) + 1)] /\ right[k] = r[k - Len(s)]
      BY <1>1, <2>3
    <3>2. Tail(r)[k - (Len(s) + 1)] = r[k - Len(s)]
      BY <2>3
    <3> QED  BY <3>1, <3>2
  <2> QED  BY <2>1, <2>2, <2>3
<1> HIDE DEF left, right
<1> QED  BY <1>2, <1>3, <1>4 DEF left, right

LEMMA EmptyTail ==
  ASSUME NEW s \in Seq(ElementText)
  PROVE  s \o <<>> = s /\ <<>> \o s = s
OBVIOUS

LEMMA OneLeft ==
  ASSUME NEW s \in Seq(ElementText), Len(s) = 1
  PROVE  Tail(s) = <<>>
<1>1. Tail(s) \in Seq(ElementText)
  OBVIOUS
<1>2. Len(Tail(s)) = 0
  OBVIOUS
<1>3. \A r \in Seq(ElementText) : Len(r) = 0 => r = <<>>
  OBVIOUS
<1> QED  BY <1>1, <1>2, <1>3, Zenon

LEMMA AdvanceEffect ==
  ASSUME NEW p \in [calc_tag : BOOLEAN, rest : Seq(ElementText),
                    source : Seq(ElementText)], p.rest # <<>>
  PROVE  /\ Advance(p).rest = Tail(p.rest)
         /\ Advance(p).rest # <<>> =>
              /\ Advance(p).calc_tag = p.calc_tag
              /\ Advance(p).source = p.source
<1>1. CASE Len(p.rest) = 1
  <2>1. Advance(p).rest = <<>>
    BY <1>1 DEF Advance, NotParsing
  <2>2. p.rest \in Seq(ElementText)
    OBVIOUS
  <2>4. Tail(p.rest) = <<>>
    BY <1>1, <2>2, OneLeft
  <2> QED  BY <2>1, <2>4
<1>2. CASE Len(p.rest) # 1
  BY <1>2 DEF Advance
<1> QED  BY <1>1, <1>2

LEMMA StartParsingEffect ==
  ASSUME TypeOK, NEW h \in Holder, NEW frames, NEW c,
         StartParsing(h, frames, c)
  PROVE  \/ h \in crashed' /\ parsing' = parsing
         \/ /\ crashed' = crashed
            /\ str_frames(frames) # <<>>
            /\ parsing'[h] = [calc_tag |-> c, rest |-> str_frames(frames),
                              source |-> frames]
<1>1. CASE str_frames(frames) = <<>>
  BY <1>1 DEF StartParsing
<1>2. CASE str_frames(frames) # <<>>
  <2>1. /\ crashed' = crashed
        /\ parsing' = [parsing EXCEPT
             ![h] = [calc_tag |-> c, rest |-> str_frames(frames), source |-> frames]]
    BY <1>2, Zenon DEF StartParsing
  <2> QED  BY <1>2, <2>1 DEF TypeOK
<1> QED  BY <1>1, <1>2

(* The objects an element is put into, and where its text goes.            *)
LEMMA PushFrameText ==
  ASSUME TypeOK, NEW h \in Holder, PushFrame(h), h \notin crashed',
         ReadsAsSurviving(Head(parsing[h].rest))
  PROVE  \E e \in Element :
           /\ Survives(e)
           /\ token'[h].body = Append(token[h].body, e)
           /\ token'[h].tag = IF parsing[h].calc_tag
                              THEN update_tag(token'[h].body, token[h].tag)
                              ELSE token[h].tag
           /\ AsPrinted(Head(parsing[h].rest)) =>
                element_to_string(e) = Head(parsing[h].rest)
<1> DEFINE text == Head(parsing[h].rest)
<1>1. /\ text \in ElementText /\ token \in [Holder -> Object]
      /\ token[h] \in Object /\ parsing[h].calc_tag \in BOOLEAN
  BY DEF TypeOK, PushFrame
<1>2. PICK e, base :
        /\ ReadInto(token[h], text, e, base)
        /\ token' = [token EXCEPT ![h] = Pushing(base, e, parsing[h].calc_tag)]
  BY PushFrameStep
<1>3. Readable(parsing[h].rest)
  BY PushFrameStep
<1>4. /\ e \in Element /\ base \in Object
      /\ base.body = token[h].body /\ base.tag = token[h].tag
  BY <1>1, <1>2, ReadIntoType
<1>5. token'[h] = Pushing(base, e, parsing[h].calc_tag)
  BY <1>1, <1>2
<1>6. /\ token'[h].body = Append(token[h].body, e)
      /\ token'[h].tag = IF parsing[h].calc_tag
                         THEN update_tag(Append(token[h].body, e), token[h].tag)
                         ELSE token[h].tag
  BY <1>1, <1>4, <1>5, PushingEffect
<1>7. Survives(e)
  BY <1>2, ReadSurvives
<1>8. AsPrinted(text) => element_to_string(e) = text
  <2>1. text.kind = "frame" => ~text.lead
    BY <1>3 DEF Readable
  <2> QED  BY <1>1, <1>2, <2>1, ReadPrints
<1> QED  BY <1>4, <1>6, <1>7, <1>8

(* However often printed and read, by whichever holder, in whatever order, *)
(* elements that survive once survive again, and an object in the middle   *)
(* of from_string together with the rest makes up the text it reads.       *)
THEOREM DurableHolds ==
  ASSUME FramesSurvive
  PROVE  Spec => []Durable
<1> DEFINE OfHolder(g) ==
      /\ \A k \in DOMAIN token[g].body : Survives(token[g].body[k])
      /\ \A k \in DOMAIN parsing[g].rest :
           /\ ReadsAsSurviving(parsing[g].rest[k])
           /\ parsing[g].calc_tag \/ AsPrinted(parsing[g].rest[k])
      /\ g \notin crashed /\ parsing[g].rest # <<>> /\ ~parsing[g].calc_tag =>
           body_to_string(token[g].body) \o parsing[g].rest = parsing[g].source
    OfWire == \A t \in wire : AllAsPrinted(t.frames)
<1>1. Init => Durable
  BY DEF Init, Durable, EmptyToken, NotParsing
<1>2. TypeOK /\ Durable /\ [Next]_vars => Durable'
  <2> SUFFICES ASSUME TypeOK, Durable, [Next]_vars PROVE Durable'
    OBVIOUS
  <2>1. (\A g \in Holder : OfHolder(g)) /\ OfWire
    BY DEF Durable, Covered, AllAsPrinted
  <2>2. (\A g \in Holder : OfHolder(g)') /\ OfWire' => Durable'
    BY DEF Durable, Covered, AllAsPrinted
  <2>3. CASE UNCHANGED vars
    BY <2>1, <2>2, <2>3 DEF vars
  <2>4. CASE AlterText
    <3>0. PICK t \in wire : \E altered \in Altered(t) :
            wire' = wire \cup {altered}
      BY <2>4 DEF AlterText
    <3>1. PICK altered \in Altered(t) : wire' = wire \cup {altered}
      BY <3>0
    <3>2. AllAsPrinted(t.frames) /\ t \in TokenString /\ t.frames \in Seq(ElementText)
      BY <2>1 DEF TypeOK, TokenString
    <3>3. \A f \in NewFrame : AsPrinted(frame_to_string(f))
                                /\ frame_to_string(f) \in ElementText
      <4> TAKE f \in NewFrame
      <4>1. f \in Element /\ f.kind = "frame" /\ Survives(f)
        BY TokenAssumption, RequestElement DEF Frame, FramesSurvive
      <4>2. element_to_string(f) = frame_to_string(f)
        BY <4>1 DEF element_to_string
      <4> QED  BY <4>1, <4>2, SurvivorPrints, ElementTextType
    <3>4. \A s \in AlteredFrames(t.frames) : AllAsPrinted(s)
      <4> SUFFICES ASSUME NEW s \in AlteredFrames(t.frames) PROVE AllAsPrinted(s)
        OBVIOUS
      <4>1. ASSUME NEW i \in DOMAIN t.frames, NEW f \in NewFrame,
                   s = [t.frames EXCEPT ![i] = frame_to_string(f)]
            PROVE  AllAsPrinted(s)
        BY <3>2, <3>3, <4>1 DEF AllAsPrinted
      <4>2. ASSUME NEW f \in NewFrame, s = Append(t.frames, frame_to_string(f))
            PROVE  AllAsPrinted(s)
        BY <3>2, <3>3, <4>2 DEF AllAsPrinted
      <4>3. CASE s = SubSeq(t.frames, 1, Len(t.frames) - 1)
        BY <3>2, <4>3 DEF AllAsPrinted
      <4> QED  BY <4>1, <4>2, <4>3 DEF AlteredFrames
    <3>5. AllAsPrinted(altered.frames)
      <4>1. CASE altered = [t EXCEPT !.tag = OtherTag]
        <5>1. altered.frames = t.frames
          BY <3>2, <4>1 DEF TokenString
        <5> QED  BY <3>2, <5>1
      <4>2. ASSUME NEW s \in AlteredFrames(t.frames),
                   altered = [t EXCEPT !.frames = s]
            PROVE  AllAsPrinted(altered.frames)
        <5>1. altered.frames = s
          BY <3>2, <4>2 DEF TokenString
        <5> QED  BY <3>4, <5>1
      <4> QED  BY <3>1, <4>1, <4>2 DEF Altered
    <3>6. UNCHANGED <<token, parsing, crashed>>
      BY <2>4 DEF AlterText
    <3> QED  BY <2>1, <2>2, <3>1, <3>5, <3>6
  <2>5. ASSUME NEW h \in Holder, HolderNext(h) PROVE Durable'
    <3>1. ASSUME NEW g \in Holder, g # h PROVE OfHolder(g)'
      BY <2>1, <2>5, <3>1, OthersUntouched
    <3>2. /\ token \in [Holder -> Object] /\ token[h] \in Object
          /\ token[h].body \in Seq(Element)
          /\ parsing[h].rest \in Seq(ElementText)
          /\ parsing[h].calc_tag \in BOOLEAN
          /\ body_to_string(token[h].body) \in Seq(ElementText)
      BY BodyTextType DEF TypeOK, Object
    <3>3. OfHolder(h)
      BY <2>1
    <3>4. ASSUME NewToken(h) PROVE OfHolder(h)' /\ OfWire'
      BY <2>1, <3>2, <3>4 DEF NewToken, Idle, EmptyToken
    <3>5. ASSUME NEW f \in NewFrame, AddFrame(h, f)
          PROVE  OfHolder(h)' /\ OfWire'
      <4>1. f \in Element /\ Survives(f)
        BY TokenAssumption, RequestElement DEF FramesSurvive
      <4>2. /\ token'[h] = add_frame(token[h], f)
            /\ parsing' = parsing /\ parsing[h].rest = <<>> /\ wire' = wire
        BY <3>2, <3>5 DEF AddFrame, Idle
      <4>3. token'[h].body = Append(token[h].body, f)
        BY <3>2, <4>1, <4>2, AddFrameEffect
      <4> QED  BY <2>1, <3>2, <3>3, <4>1, <4>2, <4>3
    <3>6. ASSUME token[h] = EmptyToken, NEW t \in wire, FromString(h, t)
          PROVE  OfHolder(h)' /\ OfWire'
      <4>1. /\ t.frames \in Seq(ElementText)
            /\ AllAsPrinted(t.frames)
            /\ \A k \in DOMAIN t.frames : ReadsAsSurviving(t.frames[k])
        BY <2>1 DEF TypeOK, TokenString, AllAsPrinted, AsPrinted
      <4>2. str_frames(t.frames) = t.frames
        BY <4>1, NoFrameDropped
      <4>3. token'[h].body = <<>> /\ wire' = wire
        BY <3>2, <3>6 DEF FromString, EmptyToken, Object
      <4>4. body_to_string(<<>>) = <<>>
        BY DEF body_to_string
      <4>5. \/ h \in crashed' /\ parsing' = parsing
            \/ /\ crashed' = crashed
               /\ parsing'[h].rest = t.frames /\ parsing'[h].source = t.frames
        <5>1. PICK s : s = t.frames
          OBVIOUS
        <5>2. PICK c : c = FALSE
          OBVIOUS
        <5>3. StartParsing(h, s, c)
          BY <3>6, <5>1, <5>2 DEF FromString
        <5>4. \/ h \in crashed' /\ parsing' = parsing
              \/ /\ crashed' = crashed
                 /\ parsing'[h] = [calc_tag |-> c, rest |-> str_frames(s),
                                   source |-> s]
          BY <5>3, StartParsingEffect
        <5> QED  BY <4>2, <5>1, <5>4
      <4>6. parsing[h].rest = <<>>
        BY <3>6 DEF FromString, Idle
      <4>7. body_to_string(<<>>) \o t.frames = t.frames
        BY <4>1, <4>4
      <4> QED  BY <2>1, <4>1, <4>3, <4>5, <4>6, <4>7 DEF AllAsPrinted
    <3>7. ASSUME NEW s \in PlainText, FromPlainText(h, s)
          PROVE  OfHolder(h)' /\ OfWire'
      <4>1. s \in Seq(ElementText) /\ \A k \in DOMAIN s : ReadsAsSurviving(s[k])
        BY TokenAssumption DEF FramesSurvive
      <4>2. str_frames(s) = s
        BY <4>1, NoFrameDropped
      <4>3. token' = token /\ wire' = wire /\ parsing[h].rest = <<>>
        BY <3>7 DEF FromPlainText, Idle
      <4>4. \/ h \in crashed' /\ parsing' = parsing
            \/ /\ crashed' = crashed
               /\ parsing'[h].rest = s /\ parsing'[h].calc_tag = TRUE
        <5>1. StartParsing(h, s, TRUE)
          BY <3>7 DEF FromPlainText
        <5>2. \/ h \in crashed' /\ parsing' = parsing
              \/ /\ crashed' = crashed
                 /\ parsing'[h] = [calc_tag |-> TRUE, rest |-> str_frames(s),
                                   source |-> s]
          BY <5>1, StartParsingEffect
        <5> QED  BY <4>2, <5>2
      <4> QED  BY <2>1, <3>3, <4>1, <4>3, <4>4
    <3>8. ASSUME PushFrame(h) PROVE OfHolder(h)' /\ OfWire'
      <4> DEFINE rest == parsing[h].rest
      <4>1. /\ wire' = wire /\ rest # <<>>
            /\ parsing'[h] = Advance(parsing[h])
        BY <3>8 DEF PushFrame, TypeOK
      <4>2. /\ parsing'[h].rest = Tail(rest)
            /\ parsing'[h].rest # <<>> =>
                 /\ parsing'[h].calc_tag = parsing[h].calc_tag
                 /\ parsing'[h].source = parsing[h].source
        BY <4>1, AdvanceEffect DEF TypeOK
      <4>3. \A k \in DOMAIN Tail(rest) :
              Tail(rest)[k] = rest[k + 1] /\ k + 1 \in DOMAIN rest
        BY <3>2, <4>1
      <4>4. \A k \in DOMAIN parsing'[h].rest :
              /\ ReadsAsSurviving(parsing'[h].rest[k])
              /\ parsing'[h].calc_tag \/ AsPrinted(parsing'[h].rest[k])
        <5> TAKE k \in DOMAIN parsing'[h].rest
        <5>1. parsing'[h].rest # <<>> /\ k \in DOMAIN Tail(rest)
          BY <4>2
        <5> QED  BY <3>3, <4>2, <4>3, <5>1
      <4>5. CASE h \in crashed'
        <5>1. token'[h] = token[h]
          BY <3>8, <4>5, PushFrameStep DEF PushFrame
        <5> QED  BY <2>1, <3>3, <4>1, <4>4, <4>5, <5>1
      <4>6. CASE h \notin crashed'
        <5>1. ReadsAsSurviving(Head(rest)) /\ (parsing[h].calc_tag \/ AsPrinted(Head(rest)))
          <6>1. Head(rest) = rest[1] /\ 1 \in DOMAIN rest
            BY <3>2, <4>1
          <6> QED  BY <3>3, <6>1
        <5>2. PICK e \in Element :
                /\ Survives(e)
                /\ token'[h].body = Append(token[h].body, e)
                /\ AsPrinted(Head(rest)) => element_to_string(e) = Head(rest)
          BY <3>8, <4>6, <5>1, PushFrameText
        <5>3. \A k \in DOMAIN token'[h].body : Survives(token'[h].body[k])
          BY <3>2, <3>3, <5>2
        <5>4. ASSUME parsing'[h].rest # <<>>, ~parsing'[h].calc_tag
              PROVE  body_to_string(token'[h].body) \o parsing'[h].rest
                       = parsing'[h].source
          <6>1. element_to_string(e) = Head(rest)
            BY <4>2, <5>1, <5>2, <5>4
          <6>2. body_to_string(token'[h].body)
                  = Append(body_to_string(token[h].body), Head(rest))
            BY <3>2, <5>2, <6>1, BodyTextAppend
          <6>3. body_to_string(token[h].body) \o rest = parsing[h].source
            BY <3>3, <3>8, <4>1, <4>2, <5>4 DEF PushFrame
          <6>4. Append(body_to_string(token[h].body), Head(rest)) \o Tail(rest)
                  = body_to_string(token[h].body) \o rest
            BY <3>2, <4>1, AppendHead
          <6> QED  BY <4>2, <5>4, <6>2, <6>3, <6>4
        <5> QED  BY <2>1, <4>1, <4>4, <5>3, <5>4
      <4> QED  BY <4>5, <4>6
    <3>9. ASSUME PrintToken(h) PROVE OfHolder(h)' /\ OfWire'
      <4>1. /\ wire' = wire \cup {TextOf(token[h])}
            /\ UNCHANGED <<token, parsing, crashed>>
        BY <3>9 DEF PrintToken
      <4>2. AllAsPrinted(TextOf(token[h]).frames)
        BY <3>2, <3>3, PrintedFrames DEF TextOf
      <4> QED  BY <2>1, <3>3, <4>1, <4>2
    <3>10. OfHolder(h)' /\ OfWire'
      BY <2>5, <3>4, <3>5, <3>6, <3>7, <3>8, <3>9 DEF HolderNext
    <3> QED  BY <2>2, <3>1, <3>10
  <2> QED  BY <2>3, <2>4, <2>5 DEF Next
<1> QED  BY <1>1, <1>2, CallersTypeCorrect, PTL DEF Spec

(* What from_string has read of a text with its tag when it comes to the   *)
(* end prints as that text: no frame is lost, added or changed.            *)
THEOREM ReadsWhatWasPrintedHolds ==
  ASSUME FramesSurvive
  PROVE  Spec => ReadsWhatWasPrinted
<1> DEFINE ReadBack(h) ==
      (/\ parsing[h].rest # <<>>
       /\ ~parsing[h].calc_tag
       /\ Idle(h)')
        => body_to_string(token'[h].body) = parsing[h].source
<1>1. TypeOK /\ Durable /\ [Next]_vars => [\A h \in Holder : ReadBack(h)]_vars
  <2> SUFFICES ASSUME TypeOK, Durable, Next, NEW g \in Holder,
                      parsing[g].rest # <<>>, ~parsing[g].calc_tag, Idle(g)'
               PROVE  body_to_string(token'[g].body) = parsing[g].source
    OBVIOUS
  <2>1. PushFrame(g)
    <3>1. ~AlterText
      BY DEF AlterText, Idle
    <3>2. PICK h \in Holder : HolderNext(h)
      BY <3>1 DEF Next
    <3>3. g = h
      <4> SUFFICES ASSUME g # h PROVE FALSE
        OBVIOUS
      <4>1. parsing'[g] = parsing[g]
        BY <3>2, OthersUntouched
      <4> QED  BY <4>1 DEF Idle
    <3>4. ~Idle(g)
      BY DEF Idle
    <3> QED
      BY <3>2, <3>3, <3>4
      DEF HolderNext, NewToken, AddFrame, FromString, FromPlainText, PrintToken
  <2> DEFINE rest == parsing[g].rest
  <2>2. /\ token[g].body \in Seq(Element) /\ rest \in Seq(ElementText)
        /\ body_to_string(token[g].body) \in Seq(ElementText)
    BY BodyTextType DEF TypeOK, Object
  <2>3. /\ g \notin crashed /\ g \notin crashed'
        /\ parsing'[g] = Advance(parsing[g]) /\ parsing'[g].rest = <<>>
    BY <2>1 DEF PushFrame, TypeOK, Idle
  <2>4. Tail(rest) = <<>>
    BY <2>3, AdvanceEffect DEF TypeOK
  <2>5. Head(rest) = rest[1] /\ 1 \in DOMAIN rest
    BY <2>2
  <2>6. ReadsAsSurviving(Head(rest)) /\ AsPrinted(Head(rest))
    BY <2>5 DEF Durable
  <2>7. PICK e \in Element :
          /\ token'[g].body = Append(token[g].body, e)
          /\ element_to_string(e) = Head(rest)
    BY <2>1, <2>3, <2>6, PushFrameText
  <2>8. body_to_string(token'[g].body)
          = Append(body_to_string(token[g].body), Head(rest))
    BY <2>2, <2>7, BodyTextAppend
  <2>9. Append(body_to_string(token[g].body), Head(rest)) \o <<>>
          = body_to_string(token[g].body) \o rest
    BY <2>2, <2>4, AppendHead
  <2>10. body_to_string(token[g].body) \o rest = parsing[g].source
    BY <2>3 DEF Durable, Covered
  <2>11. Append(body_to_string(token[g].body), Head(rest)) \in Seq(ElementText)
    BY <2>2, <2>5
  <2> QED  BY <2>8, <2>9, <2>10, <2>11
<1>2. Spec => []Durable
  BY DurableHolds
<1> QED  BY <1>1, <1>2, CallersTypeCorrect, PTL DEF Spec, ReadsWhatWasPrinted

-----------------------------------------------------------------------------
(***************************************************************************)
(* The tags of tokens made by the documented calls.                        *)
(***************************************************************************)
SecretTag(s) == [base |-> "secret", chain |-> s]

LEMMA MacOfNext ==
  ASSUME NEW s \in Seq(ElementText), NEW m \in ElementText
  PROVE  compute_mac(m, SecretTag(s)) = SecretTag(Append(s, m))
<1>1. SecretTag(s) \in Tag
  BY DEF SecretTag, Tag
<1> QED  BY <1>1, ComputeMacEffect DEF SecretTag

(* update_tag keeps a tag that was the code of the body the code of the    *)
(* body; the first frame asks nothing of the old tag.                      *)
LEMMA UpdateTagSigns ==
  ASSUME NEW b \in Seq(Element), NEW e \in Element, NEW tag,
         b # <<>> => tag = SecretTag(body_to_string(b))
  PROVE  update_tag(Append(b, e), tag) = SecretTag(body_to_string(Append(b, e)))
<1> DEFINE longer == Append(b, e)
           m == element_to_string(e)
<1>1. /\ longer[Len(longer)] = e
      /\ Len(longer) = 1 <=> b = <<>>
  <2>1. Len(longer) = Len(b) + 1 /\ longer[Len(b) + 1] = e
    OBVIOUS
  <2>2. Len(b) = 0 <=> b = <<>>
    OBVIOUS
  <2> QED  BY <2>1, <2>2
<1>2. /\ m \in ElementText /\ body_to_string(b) \in Seq(ElementText)
      /\ body_to_string(longer) = Append(body_to_string(b), m)
  BY ElementTextType, BodyTextType, BodyTextAppend
<1> HIDE DEF longer, m
<1>3. ASSUME b = <<>>
      PROVE  update_tag(longer, tag) = SecretTag(body_to_string(longer))
  <2>1. body_to_string(b) = <<>>
    BY <1>3 DEF body_to_string
  <2>2. SECRET = SecretTag(body_to_string(b))
    BY <2>1 DEF SECRET, SecretTag
  <2>3. update_tag(longer, tag) = compute_mac(m, SECRET)
    BY <1>1, <1>3 DEF update_tag, m
  <2> QED  BY <1>2, <2>2, <2>3, MacOfNext
<1>4. ASSUME b # <<>>
      PROVE  update_tag(longer, tag) = SecretTag(body_to_string(longer))
  <2>1. update_tag(longer, tag) = compute_mac(m, tag)
    BY <1>1, <1>4 DEF update_tag, m
  <2>2. tag = SecretTag(body_to_string(b))
    BY <1>4
  <2> QED  BY <1>2, <2>1, <2>2, MacOfNext
<1> QED  BY <1>3, <1>4 DEF longer

(* Through any number of holders, printings and readings, the tag of a     *)
(* token made by the documented calls is the code of what its body and the *)
(* rest of the text being read print as.                                   *)
THEOREM CleanTagsHolds ==
  ASSUME FramesSurvive
  PROVE  Spec => []CleanTags
<1> DEFINE Left(g) == IF parsing[g].calc_tag THEN <<>> ELSE parsing[g].rest
           Tagged(g) ==
             g \notin crashed /\ clean[g]
               /\ body_to_string(token[g].body) \o Left(g) # <<>>
               => token[g].tag
                    = SecretTag(body_to_string(token[g].body) \o Left(g))
           Genuine == \A t \in genuine :
                        t.frames # <<>> /\ t.tag = SecretTag(t.frames)
<1>1. Init => CleanTags
  BY DEF Init, CleanTags, Covered, EmptyToken, NotParsing, body_to_string
<1>2. TypeOK /\ Durable /\ CleanTags /\ [Next]_vars => CleanTags'
  <2> SUFFICES ASSUME TypeOK, Durable, CleanTags, [Next]_vars PROVE CleanTags'
    OBVIOUS
  <2>1. (\A g \in Holder : Tagged(g)) /\ Genuine
    BY DEF CleanTags, Covered, SecretTag
  <2>2. (\A g \in Holder : Tagged(g)') /\ Genuine' => CleanTags'
    BY DEF CleanTags, Covered, SecretTag
  <2>3. CASE UNCHANGED vars
    BY <2>1, <2>2, <2>3 DEF vars
  <2>4. CASE AlterText
    BY <2>1, <2>2, <2>4 DEF AlterText
  <2>5. ASSUME NEW h \in Holder, HolderNext(h) PROVE CleanTags'
    <3>1. ASSUME NEW g \in Holder, g # h PROVE Tagged(g)'
      BY <2>1, <2>5, <3>1, OthersUntouched
    <3> DEFINE rest == parsing[h].rest
               text == body_to_string(token[h].body)
    <3>2. /\ token \in [Holder -> Object] /\ token[h] \in Object
          /\ token[h].body \in Seq(Element) /\ token[h].tag \in Tag
          /\ rest \in Seq(ElementText)
          /\ parsing[h].calc_tag \in BOOLEAN
          /\ text \in Seq(ElementText)
          /\ clean \in [Holder -> BOOLEAN]
      BY BodyTextType DEF TypeOK, Object
    <3>3. Tagged(h)
      BY <2>1
    <3>4. text # <<>> <=> token[h].body # <<>>
      BY <3>2, BodyTextType
    <3>5. CASE NewToken(h)
      <4>1. /\ token'[h].body = <<>> /\ parsing'[h].rest = <<>>
            /\ genuine' = genuine
        BY <3>2, <3>5 DEF NewToken, Idle, EmptyToken
      <4>2. body_to_string(<<>>) = <<>>
        BY DEF body_to_string
      <4>3. body_to_string(token'[h].body) \o Left(h)' = <<>>
        BY <4>1, <4>2
      <4> QED  BY <2>1, <2>2, <3>1, <4>1, <4>3
    <3>6. ASSUME Idle(h)
          PROVE  /\ Left(h) = <<>> /\ text \o Left(h) = text
                 /\ clean[h] /\ token[h].body # <<>>
                      => token[h].tag = SecretTag(text)
      <4>1. Left(h) = <<>> /\ h \notin crashed
        BY <3>6 DEF Idle
      <4>2. text \o <<>> = text
        BY <3>2, EmptyTail
      <4> HIDE DEF text, Left
      <4>3. text \o Left(h) = text
        BY <4>1, <4>2
      <4> QED  BY <3>3, <3>4, <4>1, <4>2, <4>3 DEF text
    <3>7. ASSUME NEW f \in NewFrame, AddFrame(h, f) PROVE CleanTags'
      <4>1. f \in Element /\ Idle(h)
        BY <3>7, TokenAssumption, RequestElement DEF AddFrame
      <4>2. /\ token'[h] = add_frame(token[h], f)
            /\ parsing' = parsing /\ genuine' = genuine
            /\ clean'[h] => clean[h]
        BY <3>2, <3>7 DEF AddFrame
      <4>3. /\ token'[h].body = Append(token[h].body, f)
            /\ token'[h].tag = update_tag(Append(token[h].body, f), token[h].tag)
        BY <3>2, <4>1, <4>2, AddFrameEffect
      <4>4. clean[h] => token'[h].tag = SecretTag(body_to_string(token'[h].body))
        BY <3>2, <3>6, <4>1, <4>3, UpdateTagSigns
      <4>5. Append(token[h].body, f) \in Seq(Element)
        BY <3>2, <4>1
      <4>6. body_to_string(token'[h].body) \o <<>> = body_to_string(token'[h].body)
        <5>1. body_to_string(token'[h].body) \in Seq(ElementText)
          BY <4>3, <4>5, BodyTextType
        <5> QED  BY <5>1, EmptyTail
      <4>7. Left(h)' = <<>>
        BY <4>1, <4>2 DEF Idle
      <4>8. body_to_string(token'[h].body) \o Left(h)'
              = body_to_string(token'[h].body)
        <5> HIDE DEF Left
        <5> QED  BY <4>6, <4>7
      <4>9. Tagged(h)'
        <5> HIDE DEF Left
        <5> QED  BY <4>2, <4>4, <4>8
      <4> QED  BY <2>1, <2>2, <3>1, <4>2, <4>9
    <3>8. ASSUME token[h] = EmptyToken, NEW t \in wire, FromString(h, t)
          PROVE  CleanTags'
      <4>1. /\ t.frames \in Seq(ElementText)
            /\ \A k \in DOMAIN t.frames : ReadsAsSurviving(t.frames[k])
        BY DEF TypeOK, TokenString, Durable, AsPrinted
      <4>2. str_frames(t.frames) = t.frames
        BY <4>1, NoFrameDropped
      <4>3. /\ token'[h].body = <<>> /\ token'[h].tag = t.tag
            /\ genuine' = genuine
            /\ clean'[h] => t \in genuine
        <5>1. token'[h].body = <<>> /\ token'[h].tag = t.tag
          BY <3>2, <3>8 DEF FromString, EmptyToken, Object
        <5>2. clean'[h] = (t \in genuine /\ token[h] = EmptyToken)
          BY <3>2, <3>8, Zenon DEF FromString
        <5> QED  BY <3>8, <5>1, <5>2 DEF FromString
      <4>4. body_to_string(<<>>) = <<>>
        BY DEF body_to_string
      <4>5. \/ h \in crashed'
            \/ parsing'[h].rest = t.frames /\ parsing'[h].calc_tag = FALSE
        <5>1. PICK s : s = t.frames
          OBVIOUS
        <5>2. PICK c : c = FALSE
          OBVIOUS
        <5>3. StartParsing(h, s, c)
          BY <3>8, <5>1, <5>2 DEF FromString
        <5>4. \/ h \in crashed'
              \/ parsing'[h] = [calc_tag |-> c, rest |-> str_frames(s),
                                source |-> s]
          BY <5>3, StartParsingEffect
        <5> QED  BY <4>2, <5>1, <5>2, <5>4
      <4>6. <<>> \o t.frames = t.frames
        BY <4>1
      <4>7. h \notin crashed' =>
              body_to_string(token'[h].body) \o Left(h)' = t.frames
        BY <4>3, <4>4, <4>5, <4>6
      <4>8. Tagged(h)'
        BY <2>1, <4>3, <4>7
      <4> QED  BY <2>1, <2>2, <3>1, <4>3, <4>8
    <3>9. ASSUME NEW s \in PlainText, FromPlainText(h, s) PROVE CleanTags'
      <4>1. /\ Idle(h) /\ UNCHANGED <<token, genuine>>
            /\ clean'[h] => clean[h]
        BY <3>2, <3>9 DEF FromPlainText
      <4>2. \/ h \in crashed'
            \/ parsing'[h].calc_tag = TRUE
        <5>1. PICK c : c = TRUE
          OBVIOUS
        <5>2. StartParsing(h, s, c)
          BY <3>9, <5>1 DEF FromPlainText
        <5>3. \/ h \in crashed'
              \/ parsing'[h] = [calc_tag |-> c, rest |-> str_frames(s),
                                source |-> s]
          BY <5>2, StartParsingEffect
        <5> QED  BY <5>1, <5>3
      <4>3. text \o <<>> = text
        BY <3>2
      <4>4. h \notin crashed' => body_to_string(token'[h].body) \o Left(h)' = text
        BY <4>1, <4>2, <4>3
      <4>5. Tagged(h)'
        BY <3>4, <3>6, <4>1, <4>4
      <4> QED  BY <2>1, <2>2, <3>1, <4>1, <4>5
    <3>10. CASE PushFrame(h)
      <4>1. /\ UNCHANGED <<clean, genuine>> /\ rest # <<>>
            /\ h \notin crashed
            /\ parsing'[h] = Advance(parsing[h])
        BY <3>10 DEF PushFrame, TypeOK
      <4>2. SUFFICES ASSUME h \notin crashed' PROVE Tagged(h)'
        BY <2>1, <2>2, <3>1, <4>1
      <4>3. /\ parsing'[h].rest = Tail(rest)
            /\ parsing'[h].rest # <<>> =>
                 parsing'[h].calc_tag = parsing[h].calc_tag
        BY <4>1, AdvanceEffect DEF TypeOK
      <4>4. /\ ReadsAsSurviving(Head(rest))
            /\ parsing[h].calc_tag \/ AsPrinted(Head(rest))
        <5>1. Head(rest) = rest[1] /\ 1 \in DOMAIN rest
          BY <3>2, <4>1
        <5> QED  BY <5>1 DEF Durable
      <4>5. PICK e \in Element :
              /\ token'[h].body = Append(token[h].body, e)
              /\ token'[h].tag = IF parsing[h].calc_tag
                                 THEN update_tag(token'[h].body, token[h].tag)
                                 ELSE token[h].tag
              /\ AsPrinted(Head(rest)) => element_to_string(e) = Head(rest)
        BY <3>10, <4>2, <4>4, PushFrameText
      <4>6. /\ body_to_string(token'[h].body) = Append(text, element_to_string(e))
            /\ element_to_string(e) \in ElementText
        BY <3>2, <4>5, BodyTextAppend, ElementTextType
      <4>7. CASE parsing[h].calc_tag
        <5>1. Left(h) = <<>> /\ Left(h)' = <<>>
          BY <4>3, <4>7
        <5> DEFINE longer == body_to_string(token'[h].body)
        <5>2. longer \in Seq(ElementText)
          BY <3>2, <4>6
        <5>3. text \o <<>> = text /\ longer \o <<>> = longer
          BY <3>2, <5>2, EmptyTail
        <5>4. text \o Left(h) = text /\ longer \o Left(h)' = longer
          <6> HIDE DEF text, longer, Left
          <6> QED  BY <5>1, <5>3
        <5>5. clean[h] /\ token[h].body # <<>> => token[h].tag = SecretTag(text)
          BY <3>3, <3>4, <4>1, <5>4
        <5>6. clean[h] => token'[h].tag = SecretTag(body_to_string(token'[h].body))
          BY <3>2, <4>5, <4>7, <5>5, UpdateTagSigns
        <5> QED  BY <4>1, <5>4, <5>6
      <4>8. CASE ~parsing[h].calc_tag
        <5>1. Left(h) = rest /\ Left(h)' = Tail(rest)
          BY <4>3, <4>8
        <5>2. element_to_string(e) = Head(rest)
          BY <4>4, <4>5, <4>8
        <5>3. body_to_string(token'[h].body) \o Left(h)' = text \o Left(h)
          BY <3>2, <4>1, <4>6, <5>1, <5>2, AppendHead
        <5> QED  BY <3>3, <4>1, <4>5, <4>8, <5>3
      <4> QED  BY <4>7, <4>8
    <3>11. CASE PrintToken(h)
      <4>1. /\ UNCHANGED <<token, parsing, crashed, clean>> /\ Idle(h)
            /\ genuine' = IF clean[h] /\ token[h].body # <<>>
                          THEN genuine \cup {TextOf(token[h])} ELSE genuine
        BY <3>11 DEF PrintToken
      <4>2. TextOf(token[h]).frames = text /\ TextOf(token[h]).tag = token[h].tag
        BY DEF TextOf
      <4>3. Genuine'
        BY <2>1, <3>4, <3>6, <4>1, <4>2
      <4> QED  BY <2>1, <2>2, <3>1, <3>3, <4>1, <4>3
    <3> QED
      BY <2>5, <3>5, <3>7, <3>8, <3>9, <3>10, <3>11 DEF HolderNext
  <2> QED  BY <2>3, <2>4, <2>5 DEF Next
<1>3. Spec => []Durable
  BY DurableHolds
<1> QED  BY <1>1, <1>2, <1>3, CallersTypeCorrect, PTL DEF Spec

(* A token made by the documented calls passes is_valid_signature, however *)
(* many holders added to it, printed it and read it.                       *)
THEOREM CleanTokenVerifiesHolds ==
  ASSUME FramesSurvive
  PROVE  Spec => []CleanTokenVerifies
<1>1. TypeOK /\ CleanTags => CleanTokenVerifies
  <2> SUFFICES ASSUME TypeOK, CleanTags, NEW h \in Holder,
                      Idle(h), clean[h], token[h].body # <<>>
               PROVE  is_valid_signature(token[h])
    BY DEF CleanTokenVerifies
  <2>1. token[h].body \in Seq(Element)
    BY DEF TypeOK, Object
  <2>2. /\ body_to_string(token[h].body) \in Seq(ElementText)
        /\ body_to_string(token[h].body) # <<>>
    BY <2>1, BodyTextType
  <2>3. Covered(h) = body_to_string(token[h].body)
    BY <2>2 DEF Covered, Idle
  <2>4. token[h].tag = [base |-> "secret", chain |-> Covered(h)]
    BY <2>2, <2>3 DEF CleanTags, Idle
  <2> QED  BY <2>3, <2>4 DEF is_valid_signature, SignatureOf
<1>2. Spec => []CleanTags
  BY CleanTagsHolds
<1> QED  BY <1>1, <1>2, CallersTypeCorrect, PTL

-----------------------------------------------------------------------------
(***************************************************************************)
(* What a call attests.                                                    *)
(***************************************************************************)
Code(tag, key) == \E msg \in ElementText : tag = compute_mac(msg, key)

LEMMA UpdateTagCodes ==
  ASSUME NEW t \in Object, NEW e \in Element
  PROVE  \E key \in {SECRET, t.tag} : Code(add_frame(t, e).tag, key)
<1> DEFINE longer == Append(t.body, e)
           key == IF Len(longer) = 1 THEN SECRET ELSE t.tag
<1>1. t.body \in Seq(Element)
  BY DEF Object
<1>2. longer[Len(longer)] = e
  BY <1>1
<1>3. add_frame(t, e).tag = compute_mac(element_to_string(e), key)
  <2>1. add_frame(t, e).tag = update_tag(longer, t.tag)
    BY AddFrameEffect
  <2> HIDE DEF longer
  <2> QED  BY <1>2, <2>1 DEF update_tag
<1>4. key \in {SECRET, t.tag} /\ element_to_string(e) \in ElementText
  BY ElementTextType
<1> HIDE DEF key
<1> QED  BY <1>3, <1>4 DEF Code

(* The tag of an object that is called is a tag there was, or the code of  *)
(* an element under the SECRET or under the object's old tag.              *)
LEMMA TagsOfCall ==
  ASSUME TypeOK, NEW h \in Holder, HolderNext(h)
  PROVE  /\ \/ token'[h].tag \in {EmptyTag, token[h].tag}
            \/ \E t \in wire : token'[h].tag = t.tag
            \/ \E key \in {SECRET, token[h].tag} : Code(token'[h].tag, key)
         /\ \A t \in wire' : t \in wire \/ t.tag = token[h].tag
         /\ attested' = attested \/ Attest(token'[h].tag)
<1>0. token \in [Holder -> Object] /\ token[h] \in Object
  BY DEF TypeOK
<1>1. CASE NewToken(h)
  BY <1>0, <1>1 DEF NewToken, EmptyToken
<1>2. ASSUME NEW f \in NewFrame, AddFrame(h, f)
      PROVE  /\ \E key \in {SECRET, token[h].tag} : Code(token'[h].tag, key)
             /\ wire' = wire /\ Attest(token'[h].tag)
  <2>1. f \in Element
    BY TokenAssumption, RequestElement
  <2>2. token'[h] = add_frame(token[h], f)
    BY <1>0, <1>2 DEF AddFrame
  <2>3. wire' = wire /\ Attest(token'[h].tag)
    BY <1>2 DEF AddFrame
  <2> QED  BY <1>0, <2>1, <2>2, <2>3, UpdateTagCodes
<1>3. ASSUME NEW t \in wire, FromString(h, t)
      PROVE  token'[h].tag = t.tag /\ wire' = wire /\ attested' = attested
  BY <1>0, <1>3 DEF FromString, Object
<1>4. CASE \E s \in PlainText : FromPlainText(h, s)
  BY <1>4 DEF FromPlainText
<1>5. CASE PushFrame(h)
  <2>1. wire' = wire /\ (attested' = attested \/ Attest(token'[h].tag))
    BY <1>5 DEF PushFrame
  <2>2. CASE token' = token
    BY <2>1, <2>2
  <2>3. ASSUME NEW e, NEW base,
               ReadInto(token[h], Head(parsing[h].rest), e, base),
               token' = [token EXCEPT ![h] = Pushing(base, e, parsing[h].calc_tag)]
        PROVE  \/ token'[h].tag = token[h].tag
               \/ \E key \in {SECRET, token[h].tag} : Code(token'[h].tag, key)
    <3>1. e \in Element /\ base \in Object /\ base.tag = token[h].tag
      BY <1>0, <2>3, ReadIntoType
    <3>2. token'[h] = Pushing(base, e, parsing[h].calc_tag)
      BY <1>0, <2>3
    <3>3. CASE parsing[h].calc_tag
      BY <3>1, <3>2, <3>3, UpdateTagCodes DEF Pushing
    <3>4. CASE ~parsing[h].calc_tag
      BY <3>1, <3>2, <3>4, PushBackType DEF Pushing
    <3> QED  BY <3>3, <3>4
  <2> QED  BY <1>5, <2>1, <2>2, <2>3, PushFrameStep
<1>6. CASE PrintToken(h)
  BY <1>6 DEF PrintToken, TextOf
<1> QED  BY <1>1, <1>2, <1>3, <1>4, <1>5, <1>6 DEF HolderNext

LEMMA CodesAreLonger ==
  ASSUME NEW tag, NEW key \in Tag, Code(tag, key)
  PROVE  /\ tag # SECRET
         /\ tag.base = key.base
         /\ Len(tag.chain) = Len(key.chain) + 1
         /\ SubSeq(tag.chain, 1, Len(tag.chain) - 1) = key.chain
<1>1. PICK msg \in ElementText : tag = compute_mac(msg, key)
  BY DEF Code
<1>2. key.chain \in Seq(ElementText)
  BY DEF Tag
<1>3. tag = [base |-> key.base, chain |-> Append(key.chain, msg)]
  BY <1>1, ComputeMacEffect
<1>4. /\ tag.base = key.base /\ tag.chain = Append(key.chain, msg)
      /\ Len(tag.chain) = Len(key.chain) + 1
  BY <1>2, <1>3
<1>5. tag # SECRET
  <2>1. Len(SECRET.chain) = 0
    BY DEF SECRET
  <2> QED  BY <1>2, <1>4, <2>1
<1>6. SubSeq(Append(key.chain, msg), 1, Len(key.chain)) = key.chain
  BY <1>2
<1> QED  BY <1>2, <1>4, <1>5, <1>6

(* No object and no text ever has the SECRET itself for a tag.             *)
THEOREM SecretKeptHolds == Spec => []SecretKept
<1>0. EmptyTag # SECRET /\ OtherTag # SECRET
  BY DEF EmptyTag, OtherTag, SECRET
<1>1. Init => SecretKept
  BY <1>0 DEF Init, SecretKept, EmptyToken
<1>2. TypeOK /\ SecretKept /\ [Next]_vars => SecretKept'
  <2> SUFFICES ASSUME TypeOK, SecretKept, [Next]_vars PROVE SecretKept'
    OBVIOUS
  <2>1. CASE UNCHANGED vars
    BY <2>1 DEF vars, SecretKept
  <2>2. CASE AlterText
    <3>1. PICK t \in wire : \E altered \in Altered(t) : wire' = wire \cup {altered}
      BY <2>2 DEF AlterText
    <3>2. PICK altered \in Altered(t) : wire' = wire \cup {altered}
      BY <3>1
    <3>3. altered.tag \in {OtherTag, t.tag}
      BY <3>2, AlteredType DEF TypeOK
    <3> QED  BY <1>0, <2>2, <3>2, <3>3 DEF AlterText, SecretKept
  <2>3. ASSUME NEW h \in Holder, HolderNext(h) PROVE SecretKept'
    <3>1. \A t \in wire' : t.tag # SECRET
      BY <2>3, TagsOfCall DEF SecretKept
    <3>2. token[h].tag \in Tag
      BY DEF TypeOK, Object
    <3>3. \A key \in {SECRET, token[h].tag} :
            Code(token'[h].tag, key) => token'[h].tag # SECRET
      BY <3>2, SecretType, CodesAreLonger
    <3>4. token'[h].tag # SECRET
      BY <1>0, <2>3, <3>3, TagsOfCall DEF SecretKept
    <3>5. \A g \in Holder : g # h => token'[g] = token[g]
      BY <2>3, OthersUntouched
    <3> QED  BY <3>1, <3>4, <3>5 DEF SecretKept
  <2> QED  BY <2>1, <2>2, <2>3 DEF Next
<1> QED  BY <1>1, <1>2, CallersTypeCorrect, PTL DEF Spec

(* A tag that there was tells of a chain on record.                        *)
LEMMA KnownChain ==
  ASSUME NEW tag \in Tag, PrefixesIn(tag, attested), tag # SECRET,
         tag.base = "secret"
  PROVE  tag.chain \in attested
<1>1. tag.chain \in Seq(ElementText)
  BY DEF Tag
<1>2. tag.chain # <<>>
  BY DEF Tag, SECRET
<1>3. Len(tag.chain) \in 1 .. Len(tag.chain)
  BY <1>1, <1>2
<1>4. SubSeq(tag.chain, 1, Len(tag.chain)) = tag.chain
  BY <1>1
<1> QED  BY <1>3, <1>4 DEF PrefixesIn

(* A call attests at most one chain, and one that is a single element or   *)
(* an attested chain with one element behind it.                           *)
LEMMA AttestsOneMore ==
  ASSUME TypeOK, TagsAttested, SecretKept, [Next]_vars
  PROVE  \/ attested' = attested
         \/ \E c : /\ attested' = attested \cup {c}
                   /\ Len(c) = 1 \/ SubSeq(c, 1, Len(c) - 1) \in attested
<1>1. CASE UNCHANGED vars \/ AlterText
  BY <1>1 DEF vars, AlterText
<1>2. ASSUME NEW h \in Holder, HolderNext(h), attested' # attested
      PROVE  \E c : /\ attested' = attested \cup {c}
                    /\ Len(c) = 1 \/ SubSeq(c, 1, Len(c) - 1) \in attested
  <2> DEFINE tag == token'[h].tag
             old == token[h].tag
  <2>0. old \in Tag /\ wire \subseteq TokenString /\ token[h].tag = old
    BY DEF TypeOK, Object
  <2>1. Attest(tag)
    BY <1>2, TagsOfCall
  <2>2. tag.base = "secret" /\ attested' = attested \cup {tag.chain}
    BY <1>2, <2>1 DEF Attest
  <2>3. tag.chain \notin attested
    BY <1>2, <2>2
  <2>4. \/ tag \in {EmptyTag, old}
        \/ \E t \in wire : tag = t.tag
        \/ \E key \in {SECRET, old} : Code(tag, key)
    BY <1>2, TagsOfCall
  <2>5. PrefixesIn(old, attested) /\ old # SECRET
    BY DEF TagsAttested, SecretKept
  <2> HIDE DEF tag, old
  <2>6. tag # EmptyTag
    BY <2>2 DEF EmptyTag
  <2>7. tag # old
    BY <2>0, <2>2, <2>3, <2>5, KnownChain
  <2>8. ASSUME NEW t \in wire, tag = t.tag PROVE FALSE
    <3>1. t.tag \in Tag /\ PrefixesIn(t.tag, attested) /\ t.tag # SECRET
      BY <2>0 DEF TokenString, TagsAttested, SecretKept
    <3> QED  BY <2>2, <2>3, <2>8, <3>1, KnownChain
  <2>9. CASE Code(tag, SECRET)
    <3>1. Len(tag.chain) = Len(SECRET.chain) + 1
      BY <2>9, SecretType, CodesAreLonger
    <3>2. Len(SECRET.chain) = 0
      BY DEF SECRET
    <3>3. Len(tag.chain) = 1
      BY <3>1, <3>2
    <3> QED  BY <2>2, <3>3
  <2>10. CASE Code(tag, old)
    <3>1. old.base = "secret" /\ SubSeq(tag.chain, 1, Len(tag.chain) - 1) = old.chain
      BY <2>0, <2>2, <2>10, CodesAreLonger
    <3>2. old.chain \in attested
      BY <2>0, <2>5, <3>1, KnownChain
    <3> QED  BY <2>2, <3>1, <3>2
  <2> QED  BY <2>4, <2>6, <2>7, <2>8, <2>9, <2>10
<1> QED  BY <1>1, <1>2 DEF Next
-----------------------------------------------------------------------------
(***************************************************************************)
(* Reading on, under all public calls.                                     *)
(***************************************************************************)

(* A public call leaves the objects of the other holders alone.            *)
SetterCall(h) ==
  \/ NewToken(h)
  \/ \E e \in NewFrame \cup NewRequest : AddFrame(h, e)
  \/ \E t \in wire : FromString(h, t)
  \/ \E s \in PlainText : FromPlainText(h, s)
  \/ PushFrame(h)
  \/ PrintToken(h)
  \/ \E r \in NewRequest \cup {NULL}, update \in BOOLEAN : SetRequest(h, r, update)
  \/ \E other \in Holder : \E n \in 0 .. Len(token[other].body) :
       SetBodyFrames(h, other, n)

LEMMA SetterOthersUntouched ==
  ASSUME TypeOK, NEW h \in Holder, SetterCall(h), NEW g \in Holder, g # h
  PROVE  /\ token'[g] = token[g] /\ parsing'[g] = parsing[g]
         /\ clean'[g] = clean[g]
         /\ g \in crashed' <=> g \in crashed
<1>1. CASE NewToken(h)
  BY <1>1 DEF NewToken, TypeOK
<1>2. ASSUME NEW e, AddFrame(h, e)
      PROVE  /\ token'[g] = token[g] /\ parsing'[g] = parsing[g]
             /\ clean'[g] = clean[g] /\ crashed' = crashed
  BY <1>2 DEF AddFrame, TypeOK
<1>3. CASE \E t \in wire : FromString(h, t)
  BY <1>3 DEF FromString, StartParsing, TypeOK
<1>4. CASE \E s \in PlainText : FromPlainText(h, s)
  BY <1>4 DEF FromPlainText, StartParsing, TypeOK
<1>5. CASE PushFrame(h)
  <2>1. token'[g] = token[g]
    BY <1>5, PushFrameStep DEF TypeOK
  <2>2. crashed' \in {crashed, crashed \cup {h}}
    BY <1>5 DEF PushFrame
  <2> QED  BY <1>5, <2>1, <2>2 DEF PushFrame, TypeOK
<1>6. CASE PrintToken(h)
  BY <1>6 DEF PrintToken, TypeOK
<1>7. ASSUME NEW r, NEW update \in BOOLEAN, SetRequest(h, r, update)
      PROVE  /\ token'[g] = token[g] /\ parsing'[g] = parsing[g]
             /\ clean'[g] = clean[g] /\ crashed' \in {crashed, crashed \cup {h}}
  BY <1>7 DEF SetRequest, TypeOK
<1>8. ASSUME NEW other \in Holder, NEW n, SetBodyFrames(h, other, n)
      PROVE  /\ token'[g] = token[g] /\ parsing'[g] = parsing[g]
             /\ clean'[g] = clean[g] /\ crashed' = crashed
  BY <1>8 DEF SetBodyFrames, TypeOK
<1> QED  BY <1>1, <1>2, <1>3, <1>4, <1>5, <1>6, <1>7, <1>8 DEF SetterCall

(* What ReadsOn says of one holder, and of one text.                       *)
AllGrant(s) == \A k \in DOMAIN s : Grants(s[k])
NoneLeads(s) == \A k \in DOMAIN s : s[k].kind = "frame" => ~s[k].lead

HolderReadsOn(h) ==
  clean[h] =>
    /\ h \notin crashed
    /\ AllGrant(token[h].body)
    /\ RequestOnlyLast(token[h].body)
    /\ parsing[h].rest # <<>> =>
         /\ Open(h)
         /\ RequestOnlyLast(parsing[h].rest)
         /\ AllGrant(parsing[h].rest)
         /\ NoneLeads(parsing[h].rest)

GenuineReadsOn == \A t \in genuine : ReadableText(t.frames) /\ AllGrant(t.frames)

LEMMA ReadsOnParts ==
  /\ TypeOK => (ReadsOn <=> (\A h \in Holder : HolderReadsOn(h)) /\ GenuineReadsOn)
  /\ TypeOK' => (ReadsOn' <=> (\A h \in Holder : HolderReadsOn(h)') /\ GenuineReadsOn')
BY DEF TypeOK, ReadsOn, ReadersGoOn, HolderReadsOn, GenuineReadsOn, AllGrant,
       NoneLeads

(* splitString drops no frame that has a capability.                       *)
LEMMA NoGrantDropped ==
  ASSUME NEW s \in Seq(ElementText), AllGrant(s)
  PROVE  str_frames(s) = s
<1>1. CASE s = <<>>
  BY <1>1 DEF str_frames
<1>2. CASE s # <<>>
  <2>1. Grants(s[Len(s)])
    BY <1>2 DEF AllGrant
  <2>2. s[Len(s)] # NoText
    BY <2>1 DEF Grants, NoText
  <2> QED  BY <2>2 DEF str_frames
<1> QED  BY <1>1, <1>2

(* A text that the loop reads as a request has it at its end, and none of  *)
(* its frames leads with "$".                                              *)
LEMMA ReadableParts ==
  ASSUME NEW s \in Seq(ElementText), ReadableText(s)
  PROVE  RequestOnlyLast(s) /\ NoneLeads(s)
BY DEF ReadableText, RequestOnlyLast, NoneLeads

(* What a body of granting elements with a request at most at its end is   *)
(* printed as.                                                             *)
LEMMA GrantingPrints ==
  ASSUME NEW b \in Seq(Element), b # <<>>, AllGrant(b), RequestOnlyLast(b)
  PROVE  ReadableText(body_to_string(b)) /\ AllGrant(body_to_string(b))
<1> DEFINE s == body_to_string(b)
<1>1. /\ s \in Seq(ElementText) /\ Len(s) = Len(b) /\ s # <<>>
      /\ \A k \in 1 .. Len(b) : s[k] = element_to_string(b[k])
  BY BodyTextType
<1>2. \A k \in 1 .. Len(b) :
        /\ s[k].kind = "request" => b[k].kind = "request"
        /\ s[k].kind # "request" => Grants(s[k]) /\ ~s[k].lead
  <2> TAKE k \in 1 .. Len(b)
  <2>1. b[k] \in Element /\ Grants(b[k]) /\ s[k] = element_to_string(b[k])
    BY <1>1 DEF AllGrant
  <2>2. CASE b[k].kind = "request"
    BY <2>1, <2>2 DEF element_to_string, request_to_string
  <2>3. CASE b[k].kind # "request"
    <3>1. b[k] \in Frame
      BY <2>1, <2>3 DEF Element, Request
    <3>2. b[k].capabilities # <<>> /\ b[k].capabilities \in Seq(CapabilityStructure)
      BY <2>1, <3>1 DEF Grants, Frame
    <3>3. /\ s[k].lead = (b[k].capabilities = <<>> /\ b[k].constraints # <<>>)
          /\ s[k].capabilities = [j \in DOMAIN b[k].capabilities |->
                                    cap_to_string(b[k].capabilities[j])]
          /\ s[k].kind = "frame"
      BY <2>1, <2>3 DEF element_to_string, frame_to_string
    <3>4. s[k].capabilities # <<>>
      BY <3>2, <3>3
    <3> QED  BY <3>2, <3>3, <3>4 DEF Grants
  <2> QED  BY <2>2, <2>3
<1>3. AllGrant(s)
  BY <1>1, <1>2 DEF AllGrant, Grants
<1>4. str_frames(s) = s
  BY <1>1, <1>3, NoGrantDropped
<1> HIDE DEF s
<1>5. \A k \in DOMAIN s :
        IF s[k].kind = "request" THEN k = Len(s) ELSE ~s[k].lead
  BY <1>1, <1>2 DEF RequestOnlyLast
<1>6. ReadableText(s)
  BY <1>1, <1>4, <1>5 DEF ReadableText
<1> QED  BY <1>3, <1>6 DEF s

(* from_string of a granting, readable text starts its loop on the whole   *)
(* of it.                                                                  *)
LEMMA GrantingStarts ==
  ASSUME TypeOK, NEW h \in Holder, NEW s \in Seq(ElementText), NEW c,
         StartParsing(h, s, c), ReadableText(s), AllGrant(s)
  PROVE  crashed' = crashed /\ parsing'[h].rest = s
<1>1. str_frames(s) = s /\ s # <<>>
  BY NoGrantDropped DEF ReadableText
<1> QED  BY <1>1 DEF StartParsing, TypeOK

(* The element that a granting text is read as grants.                     *)
LEMMA ReadGrants ==
  ASSUME NEW t, NEW text, NEW e, NEW base, ReadInto(t, text, e, base),
         Grants(text)
  PROVE  Grants(e)
<1>1. CASE text.kind = "request"
  BY <1>1 DEF ReadInto, request_from_string, Grants
<1>2. CASE text.kind = "frame"
  <2>1. text.capabilities # <<>> /\ text \in FrameText
    BY <1>2 DEF Grants, ReadInto
  <2>2. text.capabilities \in Seq(CapabilityText)
    BY <2>1 DEF FrameText
  <2>3. PICK residue \in [DOMAIN text.capabilities -> CapabilityType] :
          e = frame_from_string(text, residue)
    BY <1>2 DEF ReadInto
  <2>4. e.capabilities = [j \in DOMAIN text.capabilities |->
                            cap_from_string(text.capabilities[j], residue[j])]
    BY <2>3 DEF frame_from_string
  <2>5. e.capabilities # <<>>
    BY <2>1, <2>2, <2>4
  <2> QED  BY <2>5 DEF Grants
<1> QED  BY <1>1, <1>2 DEF ReadInto

LEMMA AppendGrants ==
  ASSUME NEW b \in Seq(Element), NEW e \in Element, AllGrant(b), Grants(e)
  PROVE  AllGrant(Append(b, e))
BY DEF AllGrant

LEMMA AppendAfterFrames ==
  ASSUME NEW b \in Seq(Element), NEW e \in Element, AllFrames(b)
  PROVE  RequestOnlyLast(Append(b, e))
BY DEF AllFrames, RequestOnlyLast

LEMMA TailParts ==
  ASSUME NEW s \in Seq(ElementText), s # <<>>
  PROVE  /\ Tail(s) \in Seq(ElementText) /\ Len(Tail(s)) = Len(s) - 1
         /\ Tail(s) # <<>> => Len(s) > 1
         /\ \A k \in DOMAIN Tail(s) :
              Tail(s)[k] = s[k + 1] /\ k + 1 \in DOMAIN s
OBVIOUS

(* An iteration for a clean object reads on.                               *)
LEMMA PushFrameReadsOn ==
  ASSUME TypeOK, NEW h \in Holder, PushFrame(h), HolderReadsOn(h)
  PROVE  HolderReadsOn(h)'
<1> SUFFICES ASSUME clean[h] PROVE HolderReadsOn(h)'
  BY DEF PushFrame, HolderReadsOn
<1> DEFINE rest == parsing[h].rest
           b == token[h].body
           c == parsing[h].calc_tag
<1>1. /\ rest \in Seq(ElementText) /\ rest # <<>> /\ c \in BOOLEAN
      /\ token[h] \in Object /\ b \in Seq(Element)
  BY DEF TypeOK, PushFrame, Object
<1>2. /\ AllGrant(b) /\ AllFrames(b) /\ h \notin crashed
      /\ RequestOnlyLast(rest) /\ AllGrant(rest) /\ NoneLeads(rest)
  BY <1>1 DEF HolderReadsOn, Open, AllFrames
<1>3. Head(rest) = rest[1] /\ 1 \in DOMAIN rest /\ Head(rest) \in ElementText
  BY <1>1
<1>4. Readable(rest)
  <2>1. CASE Head(rest).kind = "request"
    BY <1>1, <1>2, <1>3, <2>1 DEF Readable, RequestOnlyLast
  <2>2. CASE Head(rest).kind # "request"
    <3>1. Head(rest).kind = "frame"
      BY <1>3, <2>2 DEF ElementText, FrameText, RequestText
    <3> QED  BY <1>2, <1>3, <2>2, <3>1 DEF Readable, NoneLeads
  <2> QED  BY <2>1, <2>2
<1>5. crashed' = crashed
  BY <1>4 DEF PushFrame
<1>6. PICK e, base : /\ ReadInto(token[h], Head(rest), e, base)
                     /\ token' = [token EXCEPT ![h] = Pushing(base, e, c)]
  BY <1>2, <1>5, PushFrameStep
<1>7. /\ e \in Element /\ base \in Object /\ base.body = b
      /\ e.kind = Head(rest).kind
  BY <1>1, <1>6, ReadIntoType
<1>8. token'[h].body = Append(b, e)
  <2>1. Pushing(base, e, c).body = Append(b, e)
    BY <1>1, <1>7, PushingEffect
  <2> QED  BY <1>6, <2>1 DEF TypeOK
<1>9. Grants(e)
  BY <1>2, <1>3, <1>6, ReadGrants DEF AllGrant
<1>10. AllGrant(Append(b, e)) /\ RequestOnlyLast(Append(b, e))
  BY <1>1, <1>2, <1>7, <1>9, AppendGrants, AppendAfterFrames
<1>11. /\ parsing'[h].rest = Tail(rest) /\ clean' = clean
  BY <1>1, AdvanceEffect DEF PushFrame, TypeOK
<1>12. ASSUME Tail(rest) # <<>>
       PROVE  /\ AllFrames(Append(b, e))
              /\ RequestOnlyLast(Tail(rest)) /\ AllGrant(Tail(rest))
              /\ NoneLeads(Tail(rest))
  <2>1. PICK r \in Seq(ElementText) : r = Tail(rest)
    BY <1>1, TailParts
  <2>2. /\ Len(r) = Len(rest) - 1 /\ Len(rest) > 1
        /\ \A k \in DOMAIN r : r[k] = rest[k + 1] /\ k + 1 \in DOMAIN rest
    BY <1>1, <1>12, <2>1, TailParts
  <2>3. Head(rest).kind # "request"
    BY <1>2, <1>3, <2>2 DEF RequestOnlyLast
  <2>4. e.kind = "frame"
    BY <1>3, <1>7, <2>3 DEF ElementText, FrameText, RequestText
  <2>5. AllFrames(Append(b, e))
    BY <1>1, <1>2, <1>7, <2>4, AppendFrame
  <2>6. RequestOnlyLast(r)
    BY <1>1, <1>2, <2>2 DEF RequestOnlyLast
  <2>7. AllGrant(r) /\ NoneLeads(r)
    BY <1>2, <2>2 DEF AllGrant, NoneLeads
  <2> QED  BY <2>1, <2>5, <2>6, <2>7
<1> HIDE DEF rest, b, c
<1> QED  BY <1>2, <1>5, <1>8, <1>10, <1>11, <1>12
         DEF HolderReadsOn, Open, AllFrames

(* Each call keeps what ReadsOn says of the object it is about.            *)
LEMMA CallReadsOn ==
  ASSUME FramesGrant, TypeOK, GenuineReadsOn, NEW h \in Holder,
         HolderReadsOn(h), SetterCall(h)
  PROVE  HolderReadsOn(h)'
<1>1. CASE NewToken(h)
  <2>1. /\ token'[h] = EmptyToken /\ parsing' = parsing /\ crashed' = crashed
        /\ h \notin crashed /\ parsing[h].rest = <<>>
    BY <1>1 DEF NewToken, Idle, TypeOK
  <2>2. token'[h].body = <<>>
    BY <2>1 DEF EmptyToken
  <2> QED  BY <2>1, <2>2 DEF HolderReadsOn, AllGrant, RequestOnlyLast
<1>2. ASSUME NEW e \in NewFrame \cup NewRequest, AddFrame(h, e)
      PROVE  HolderReadsOn(h)'
  <2> SUFFICES ASSUME clean'[h] PROVE HolderReadsOn(h)'
    BY DEF HolderReadsOn
  <2>1. /\ clean[h] /\ Open(h) /\ e.kind = "frame" /\ token[h] \in Object
        /\ h \notin crashed /\ parsing[h].rest = <<>>
        /\ parsing' = parsing /\ crashed' = crashed
        /\ token' = [token EXCEPT ![h] = add_frame(token[h], e)]
    BY <1>2 DEF AddFrame, Idle, TypeOK
  <2>2. e \in Element /\ Grants(e)
    BY <2>1, TokenAssumption, RequestElement DEF Request, FramesGrant, Grants
  <2>3. token'[h].body = Append(token[h].body, e) /\ token[h].body \in Seq(Element)
    BY <2>1, <2>2, AddFrameEffect DEF TypeOK, Object
  <2>4. AllGrant(token[h].body) /\ AllFrames(token[h].body)
    BY <2>1 DEF HolderReadsOn, Open, AllFrames
  <2>5. AllGrant(token'[h].body) /\ RequestOnlyLast(token'[h].body)
    BY <2>2, <2>3, <2>4, AppendGrants, AppendAfterFrames
  <2> QED  BY <2>1, <2>5 DEF HolderReadsOn
<1>3. ASSUME NEW t \in wire, FromString(h, t) PROVE HolderReadsOn(h)'
  <2> SUFFICES ASSUME clean'[h] PROVE HolderReadsOn(h)'
    BY DEF HolderReadsOn
  <2>1. /\ t \in genuine /\ token[h] = EmptyToken /\ h \notin crashed
        /\ StartParsing(h, t.frames, FALSE)
        /\ token'[h].body = token[h].body
    BY <1>3 DEF FromString, Idle, TypeOK, Object
  <2>2. /\ ReadableText(t.frames) /\ AllGrant(t.frames)
        /\ t.frames \in Seq(ElementText)
    BY <2>1 DEF GenuineReadsOn, TypeOK, TokenString
  <2>3. crashed' = crashed /\ parsing'[h].rest = t.frames
    BY <2>1, <2>2, GrantingStarts
  <2>4. token'[h].body = <<>>
    BY <2>1 DEF EmptyToken
  <2>5. RequestOnlyLast(t.frames) /\ NoneLeads(t.frames)
    BY <2>2, ReadableParts
  <2> QED  BY <2>1, <2>2, <2>3, <2>4, <2>5
           DEF HolderReadsOn, AllGrant, RequestOnlyLast, Open
<1>4. ASSUME NEW s \in PlainText, FromPlainText(h, s) PROVE HolderReadsOn(h)'
  <2> SUFFICES ASSUME clean'[h] PROVE HolderReadsOn(h)'
    BY DEF HolderReadsOn
  <2>1. /\ clean[h] /\ Open(h) /\ ReadableText(s) /\ h \notin crashed
        /\ StartParsing(h, s, TRUE) /\ token' = token
    BY <1>4 DEF FromPlainText, Idle, TypeOK
  <2>2. s \in Seq(ElementText) /\ AllGrant(s)
    BY TokenAssumption DEF FramesGrant, AllGrant, Grants
  <2>3. crashed' = crashed /\ parsing'[h].rest = s
    BY <2>1, <2>2, GrantingStarts
  <2>4. RequestOnlyLast(s) /\ NoneLeads(s)
    BY <2>1, <2>2, ReadableParts
  <2> QED  BY <2>1, <2>2, <2>3, <2>4 DEF HolderReadsOn, Open
<1>5. CASE PushFrame(h)
  BY <1>5, PushFrameReadsOn
<1>6. CASE PrintToken(h)
  BY <1>6 DEF PrintToken, HolderReadsOn, Open
<1>7. ASSUME NEW r, NEW update \in BOOLEAN, SetRequest(h, r, update)
      PROVE  HolderReadsOn(h)'
  BY <1>7 DEF SetRequest, HolderReadsOn, TypeOK
<1>8. ASSUME NEW other, NEW n, SetBodyFrames(h, other, n)
      PROVE  HolderReadsOn(h)'
  BY <1>8 DEF SetBodyFrames, HolderReadsOn, TypeOK
<1> QED  BY <1>1, <1>2, <1>3, <1>4, <1>5, <1>6, <1>7, <1>8 DEF SetterCall

(* What a holder prints of a clean object is a text that is read to its    *)
(* end.                                                                    *)
LEMMA CallPrintsReadable ==
  ASSUME TypeOK, GenuineReadsOn, NEW h \in Holder, HolderReadsOn(h), SetterCall(h)
  PROVE  GenuineReadsOn'
<1>1. CASE genuine' = genuine
  BY <1>1 DEF GenuineReadsOn
<1>2. CASE /\ genuine' = genuine \cup {TextOf(token[h])}
           /\ clean[h] /\ token[h].body # <<>>
  <2>1. token[h].body \in Seq(Element)
    BY DEF TypeOK, Object
  <2>2. TextOf(token[h]).frames = body_to_string(token[h].body)
    BY DEF TextOf
  <2>3. ReadableText(TextOf(token[h]).frames) /\ AllGrant(TextOf(token[h]).frames)
    BY <1>2, <2>1, <2>2, GrantingPrints DEF HolderReadsOn
  <2> QED  BY <1>2, <2>3 DEF GenuineReadsOn
<1>3. ASSUME NEW e, AddFrame(h, e) PROVE genuine' = genuine
  BY <1>3 DEF AddFrame
<1>4. ASSUME NEW t, FromString(h, t) PROVE genuine' = genuine
  BY <1>4 DEF FromString
<1>5. ASSUME NEW s, FromPlainText(h, s) PROVE genuine' = genuine
  BY <1>5 DEF FromPlainText
<1>6. ASSUME NEW r, NEW update, SetRequest(h, r, update) PROVE genuine' = genuine
  BY <1>6 DEF SetRequest
<1>7. ASSUME NEW other, NEW n, SetBodyFrames(h, other, n) PROVE genuine' = genuine
  BY <1>7 DEF SetBodyFrames
<1> QED  BY <1>1, <1>2, <1>3, <1>4, <1>5, <1>6, <1>7
         DEF SetterCall, NewToken, PushFrame, PrintToken

(* Whatever is done to other objects, with whichever public calls, the     *)
(* program of an object made by the documented calls is not stopped by     *)
(* reading into it, when the frames in use grant something.                *)
THEOREM ReadersGoOnHolds ==
  ASSUME FramesGrant
  PROVE  SetterSpec => []ReadersGoOn
<1>1. Init => ReadsOn
  BY DEF Init, ReadsOn, ReadersGoOn, EmptyToken, NotParsing, RequestOnlyLast
<1>2. TypeOK /\ TypeOK' /\ ReadsOn /\ [SetterNext]_vars => ReadsOn'
  <2> SUFFICES ASSUME TypeOK, TypeOK', ReadsOn, [SetterNext]_vars PROVE ReadsOn'
    OBVIOUS
  <2>1. (\A g \in Holder : HolderReadsOn(g)) /\ GenuineReadsOn
    BY ReadsOnParts
  <2>2. CASE UNCHANGED vars
    BY <2>1, <2>2, ReadsOnParts DEF vars, HolderReadsOn, GenuineReadsOn, Open
  <2>3. CASE AlterText
    BY <2>1, <2>3, ReadsOnParts DEF AlterText, HolderReadsOn, GenuineReadsOn, Open
  <2>4. ASSUME NEW h \in Holder, SetterCall(h) PROVE ReadsOn'
    <3>1. ASSUME NEW g \in Holder, g # h PROVE HolderReadsOn(g)'
      BY <2>1, <2>4, <3>1, SetterOthersUntouched DEF HolderReadsOn, Open
    <3>2. HolderReadsOn(h)'
      BY <2>1, <2>4, CallReadsOn
    <3>3. GenuineReadsOn'
      BY <2>1, <2>4, CallPrintsReadable
    <3> QED  BY <3>1, <3>2, <3>3, ReadsOnParts
  <2> QED  BY <2>2, <2>3, <2>4 DEF SetterNext, SetterCall
<1>3. ReadsOn => ReadersGoOn
  BY DEF ReadsOn
<1> QED  BY <1>1, <1>2, <1>3, TypeCorrect, PTL DEF SetterSpec
=============================================================================
