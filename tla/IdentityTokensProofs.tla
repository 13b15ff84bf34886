------------------------ MODULE IdentityTokensProofs ------------------------
(***************************************************************************)
(* IdentityTokens under all its public calls, for any number of parties,   *)
(* names, request tags and texts.                                          *)
(***************************************************************************)
EXTENDS IdentityTokens, TokenTextProofs

-----------------------------------------------------------------------------
(***************************************************************************)
(* Types of the methods' results.                                          *)
(***************************************************************************)
LEMMA MessageTypes ==
  /\ IDENTITY_TOKEN_DUMMY_BODY \in IdMessage
  /\ \A name \in Name : IdentityMessage(name) \in IdMessage
  /\ \A r \in Tag : RequestTagMessage(r) \in IdMessage
<1>1. IDENTITY_TOKEN_DUMMY_BODY \in IdMessage
  BY DEF IDENTITY_TOKEN_DUMMY_BODY, IdMessage
<1>2. \A name \in Name : IdentityMessage(name) \in IdMessage
  BY DEF IdentityMessage, IdMessage, Name
<1>3. \A r \in Tag : RequestTagMessage(r) \in IdMessage
  BY <1>2 DEF RequestTagMessage, IdMessage, Name
<1> QED  BY <1>1, <1>2, <1>3

LEMMA IdMacType ==
  ASSUME NEW msg \in IdMessage, NEW key \in IdTag
  PROVE  compute_mac(msg, key) \in IdTag
  BY DEF compute_mac, IdTag

LEMMA MacFields ==
  ASSUME NEW msg, NEW key \in IdTag
  PROVE  /\ compute_mac(msg, key).base = key.base
         /\ compute_mac(msg, key).chain = Append(key.chain, msg)
         /\ key.chain \in Seq(IdMessage)
  BY DEF compute_mac, IdTag

LEMMA IdTagTypes ==
  SECRET \in IdTag /\ EmptyTag \in IdTag /\ OtherTag \in IdTag
  BY DEF SECRET, EmptyTag, OtherTag, IdTag

LEMMA IdTextType ==
  ASSUME NEW tag \in IdTag, NEW pieces \in 0 .. 2, NEW name \in Name,
         NEW r \in Tag
  PROVE  /\ IdText(tag, pieces, name, r) \in IdString
         /\ IdText(tag, pieces, name, r).tag = tag
BY DEF IdText, IdString

LEMMA InitialTypes ==
  /\ InitialTag \in IdTag
  /\ InitialText \in IdString
  /\ EmptyIdentity \in IdentityToken
<1>1. InitialTag \in IdTag
  BY MessageTypes, IdMacType, IdTagTypes DEF InitialTag
<1> QED  BY <1>1, TagTypes, IdTagTypes
            DEF InitialText, IdText, IdString, EmptyIdentity, IdentityToken, Name

LEMMA MethodTypes ==
  ASSUME NEW id \in IdentityToken
  PROVE  /\ create_initial_token(id) \in IdentityToken
         /\ \A name \in Name : add_identity_token(id, name) \in IdentityToken
         /\ \A r \in Tag : add_request_tag(id, r) \in IdString
         /\ \A contain_tag \in BOOLEAN :
              identity_to_string(id, contain_tag) \in IdString
         /\ \A t \in IdString : identity_from_string(id, t) \in IdentityToken
<1>0. id.tag \in IdTag /\ id.identity_token \in Name /\ id.request_tag \in Tag
  BY DEF IdentityToken, Name
<1>1. create_initial_token(id) \in IdentityToken
  BY InitialTypes DEF create_initial_token, IdentityToken
<1>2. ASSUME NEW name \in Name
      PROVE  add_identity_token(id, name) \in IdentityToken
  <2>1. compute_mac(IdentityMessage(name), id.tag) \in IdTag
    BY <1>0, MessageTypes, IdMacType
  <2> QED  BY <2>1 DEF add_identity_token, IdentityToken, Name
<1>3. ASSUME NEW r \in Tag PROVE add_request_tag(id, r) \in IdString
  <2>1. compute_mac(RequestTagMessage(r), id.tag) \in IdTag
    BY <1>0, MessageTypes, IdMacType
  <2> QED  BY <1>0, <2>1 DEF add_request_tag, IdText, IdString
<1>4. \A contain_tag \in BOOLEAN :
        identity_to_string(id, contain_tag) \in IdString
  BY <1>0, TagTypes, IdTagTypes DEF identity_to_string, IdText, IdString
<1>5. \A t \in IdString : identity_from_string(id, t) \in IdentityToken
  BY <1>0 DEF identity_from_string, IdString, IdentityToken, Name
<1> QED  BY <1>1, <1>2, <1>3, <1>4, <1>5

LEMMA AlterIdentityEffect ==
  ASSUME id_wire \subseteq IdString, AlterIdentity
  PROVE  \E a \in IdString :
           /\ id_wire' = id_wire \cup {a}
           /\ a.tag = OtherTag \/ \E t \in id_wire : a.tag = t.tag
<1>1. PICK t \in id_wire :
        \/ id_wire' = id_wire \cup
                        {IdText(OtherTag, t.pieces, t.name, t.request_tag)}
        \/ \E pieces \in 0 .. 2, n \in Name,
              r \in RequestTag \cup {t.request_tag, EmptyTag} :
             id_wire' = id_wire \cup {IdText(t.tag, pieces, n, r)}
  BY DEF AlterIdentity
<1>2. /\ t.tag \in IdTag /\ t.pieces \in 0 .. 2 /\ t.name \in Name
      /\ t.request_tag \in Tag
  BY DEF IdString
<1>3. CASE id_wire' = id_wire \cup
                       {IdText(OtherTag, t.pieces, t.name, t.request_tag)}
  BY <1>2, <1>3, IdTagTypes, IdTextType
<1>4. ASSUME NEW pieces \in 0 .. 2, NEW n \in Name,
             NEW r \in RequestTag \cup {t.request_tag, EmptyTag},
             id_wire' = id_wire \cup {IdText(t.tag, pieces, n, r)}
      PROVE  \E a \in IdString :
               /\ id_wire' = id_wire \cup {a}
               /\ a.tag = OtherTag \/ \E s \in id_wire : a.tag = s.tag
  <2>1. r \in Tag
    BY <1>2, TagTypes, IdentityAssumption
  <2> QED  BY <1>2, <1>4, <2>1, IdTextType
<1> QED  BY <1>1, <1>3, <1>4

LEMMA ComposeType ==
  ASSUME NEW tag \in IdTag, Compose(tag), composed \subseteq Seq(IdMessage)
  PROVE  composed' \subseteq Seq(IdMessage)
BY DEF Compose, IdTag

-----------------------------------------------------------------------------
(* The objects and the texts keep their types, whichever calls are made.   *)
THEOREM TypeCorrect == Spec => []TypeOK
<1>1. Init => TypeOK
  BY InitialTypes DEF Init, TypeOK
<1>2. TypeOK /\ [Next]_vars => TypeOK'
  <2> SUFFICES ASSUME TypeOK, [Next]_vars PROVE TypeOK'
    OBVIOUS
  <2> USE DEF TypeOK
  <2>1. ASSUME NEW p \in Party, NewIdentity(p) PROVE TypeOK'
    BY <2>1, InitialTypes DEF NewIdentity
  <2>2. ASSUME NEW p \in Party, CreateInitialToken(p) PROVE TypeOK'
    <3>1. create_initial_token(identity[p]) \in IdentityToken
      BY MethodTypes
    <3>2. composed' \subseteq Seq(IdMessage)
      BY <2>2, InitialTypes, ComposeType DEF CreateInitialToken
    <3> QED  BY <2>2, <3>1, <3>2, InitialTypes
                DEF CreateInitialToken, Publish
  <2>3. ASSUME NEW p \in Party, NEW name \in Name, AddIdentityToken(p, name)
        PROVE  TypeOK'
    <3>1. add_identity_token(identity[p], name) \in IdentityToken
      BY MethodTypes
    <3>2. identity' \in [Party -> IdentityToken]
      BY <2>3, <3>1 DEF AddIdentityToken
    <3>3. identity'[p].tag \in IdTag
      BY <3>2 DEF IdentityToken
    <3>4. composed' \subseteq Seq(IdMessage)
      BY <2>3, <3>3, ComposeType DEF AddIdentityToken
    <3> QED  BY <2>3, <3>2, <3>4 DEF AddIdentityToken
  <2>4. ASSUME NEW p \in Party, NEW r \in RequestTag, AddRequestTag(p, r)
        PROVE  TypeOK'
    <3> DEFINE t == add_request_tag(identity[p], r)
    <3>1. t \in IdString
      BY MethodTypes, IdentityAssumption
    <3>2. t.tag \in IdTag
      BY <3>1 DEF IdString
    <3>3. composed' \subseteq Seq(IdMessage)
      BY <2>4, <3>2, ComposeType DEF AddRequestTag
    <3> QED  BY <2>4, <3>1, <3>3 DEF AddRequestTag, Publish
  <2>5. ASSUME NEW p \in Party, NEW r \in RequestTag, SetRequestTag(p, r)
        PROVE  TypeOK'
    BY <2>5, IdentityAssumption DEF SetRequestTag, IdentityToken
  <2>6. ASSUME NEW p \in Party, NEW contain_tag \in BOOLEAN,
               PrintIdentity(p, contain_tag)
        PROVE  TypeOK'
    <3>1. identity_to_string(identity[p], contain_tag) \in IdString
      BY MethodTypes
    <3> QED  BY <2>6, <3>1 DEF PrintIdentity, Publish
  <2>7. ASSUME NEW p \in Party, NEW t \in id_wire, ReadIdentity(p, t)
        PROVE  TypeOK'
    <3>1. identity_from_string(identity[p], t) \in IdentityToken
      BY MethodTypes
    <3>2. StageOf(t) \in {"none", "initial", "named", "presented"}
      BY DEF StageOf
    <3> QED  BY <2>7, <3>1, <3>2 DEF ReadIdentity
  <2>8. CASE AlterIdentity
    <3>1. id_wire' \subseteq IdString /\ id_wire \subseteq id_wire'
      BY <2>8, AlterIdentityEffect
    <3> QED  BY <2>8, <3>1 DEF AlterIdentity
  <2>9. CASE UNCHANGED vars
    BY <2>9 DEF vars
  <2> QED  BY <2>1, <2>2, <2>3, <2>4, <2>5, <2>6, <2>7, <2>8, <2>9
              DEF Next, PartyNext
<1> QED  BY <1>1, <1>2, PTL DEF Spec

-----------------------------------------------------------------------------
(***************************************************************************)
(* Tags tell of what was computed.                                         *)
(***************************************************************************)
LEMMA ComposeEffect ==
  ASSUME NEW tag, Compose(tag)
  PROVE  /\ composed \subseteq composed'
         /\ tag.base = "secret" => tag.chain \in composed'
BY DEF Compose

(* One more message on a tag: its chain has the prefixes of the old one,   *)
(* and itself.                                                             *)
LEMMA MacPrefixes ==
  ASSUME NEW key \in IdTag, NEW msg \in IdMessage, NEW fewer, NEW more,
         PrefixesIn(key, fewer), fewer \subseteq more,
         compute_mac(msg, key).base = "secret" =>
           compute_mac(msg, key).chain \in more
  PROVE  PrefixesIn(compute_mac(msg, key), more)
<1> DEFINE s == key.chain
           longer == Append(s, msg)
<1>1. s \in Seq(IdMessage) /\ longer \in Seq(IdMessage)
      /\ Len(longer) = Len(s) + 1 /\ Len(s) \in Nat
  BY DEF IdTag
<1>2. /\ compute_mac(msg, key).base = key.base
      /\ compute_mac(msg, key).chain = longer
  BY DEF compute_mac, IdTag
<1> SUFFICES ASSUME key.base = "secret", NEW n \in 1 .. Len(longer)
             PROVE  SubSeq(longer, 1, n) \in more
  BY <1>2 DEF PrefixesIn
<1>4. CASE n = Len(longer)
  <2>1. SubSeq(longer, 1, n) = longer
    BY <1>1, <1>4
  <2> QED  BY <1>2, <2>1
<1>5. CASE n # Len(longer)
  <2>1. n \in 1 .. Len(s)
    BY <1>1, <1>5
  <2>2. SubSeq(longer, 1, n) = SubSeq(s, 1, n)
    BY <1>1, <2>1
  <2>3. SubSeq(s, 1, n) \in fewer
    BY <2>1 DEF PrefixesIn
  <2> QED  BY <2>2, <2>3
<1> QED  BY <1>4, <1>5

(* The tag of a text that a party prints or is given back.                 *)
LEMMA TextTags ==
  /\ InitialText.tag = InitialTag
  /\ \A id, r : add_request_tag(id, r).tag
                = compute_mac(RequestTagMessage(r), id.tag)
  /\ \A id, c : identity_to_string(id, c).tag = IF c THEN id.tag ELSE EmptyTag
BY DEF InitialText, add_request_tag, identity_to_string, IdText

(* Every tag from the SECRET, in an object or in a text, has a chain each  *)
(* prefix of which was computed, whichever calls were made and whatever    *)
(* texts were altered.                                                     *)
THEOREM TagsComposedHolds == Spec => []TagsComposed
<1>1. Init => TagsComposed
  <2>1. EmptyIdentity.tag = EmptyTag
    BY DEF EmptyIdentity
  <2> QED  BY <2>1, BareTags DEF Init, TagsComposed
<1>2. TypeOK /\ TagsComposed /\ [Next]_vars => TagsComposed'
  <2> SUFFICES ASSUME TypeOK, TagsComposed, [Next]_vars PROVE TagsComposed'
    OBVIOUS
  <2>0. /\ identity \in [Party -> IdentityToken] /\ id_wire \subseteq IdString
        /\ \A p \in Party : identity[p] \in IdentityToken
        /\ \A p \in Party : identity[p].tag \in IdTag
    BY DEF TypeOK, IdentityToken
  (* A step by which the tag of an object becomes tag, and no text has     *)
  (* another tag than before, but for tag.                                 *)
  <2>a. ASSUME NEW tag, PrefixesIn(tag, composed'), composed \subseteq composed',
               \A q \in Party : \/ identity'[q].tag = identity[q].tag
                                \/ identity'[q].tag = tag,
               \A a \in id_wire' : a.tag = tag \/ \E t \in id_wire : a.tag = t.tag
        PROVE  TagsComposed'
    <3>1. \A q \in Party : PrefixesIn(identity'[q].tag, composed')
      BY <2>a, PrefixesMonotone DEF TagsComposed
    <3>2. \A a \in id_wire' : PrefixesIn(a.tag, composed')
      BY <2>a, PrefixesMonotone DEF TagsComposed
    <3> QED  BY <3>1, <3>2 DEF TagsComposed
  <2>1. ASSUME NEW p \in Party, NewIdentity(p) PROVE TagsComposed'
    <3>1. \A q \in Party : identity'[q].tag \in {identity[q].tag, EmptyTag}
      BY <2>0, <2>1 DEF NewIdentity, EmptyIdentity
    <3> QED  BY <2>1, <2>a, <3>1, BareTags DEF NewIdentity
  <2>2. ASSUME NEW p \in Party, CreateInitialToken(p) PROVE TagsComposed'
    <3>1. /\ composed \subseteq composed'
          /\ InitialTag.base = "secret" => InitialTag.chain \in composed'
      BY <2>2, ComposeEffect DEF CreateInitialToken
    <3>2. PrefixesIn(InitialTag, composed')
      BY <3>1, BareTags, IdTagTypes, MessageTypes, MacPrefixes DEF InitialTag
    <3>3. create_initial_token(identity[p]).tag = InitialTag
      BY <2>0 DEF create_initial_token, IdentityToken
    <3>4. \A q \in Party : identity'[q].tag \in {identity[q].tag, InitialTag}
      BY <2>0, <2>2, <3>3 DEF CreateInitialToken
    <3>5. \A a \in id_wire' : a \in id_wire \/ a.tag = InitialTag
      BY <2>2, TextTags DEF CreateInitialToken, Publish
    <3> QED  BY <2>a, <3>1, <3>2, <3>4, <3>5
  <2>3. ASSUME NEW p \in Party, NEW name \in Name, AddIdentityToken(p, name)
        PROVE  TagsComposed'
    <3> DEFINE tag == compute_mac(IdentityMessage(name), identity[p].tag)
    <3>1. add_identity_token(identity[p], name).tag = tag
      BY <2>0 DEF add_identity_token, IdentityToken
    <3> HIDE DEF tag
    <3>2. /\ identity'[p].tag = tag
          /\ \A q \in Party : identity'[q].tag \in {identity[q].tag, tag}
      BY <2>0, <2>3, <3>1 DEF AddIdentityToken
    <3>3. /\ composed \subseteq composed'
          /\ tag.base = "secret" => tag.chain \in composed'
      BY <2>3, <3>2, ComposeEffect DEF AddIdentityToken
    <3>4. PrefixesIn(tag, composed')
      BY <2>0, <3>3, MessageTypes, MacPrefixes DEF TagsComposed, tag
    <3> QED  BY <2>3, <2>a, <3>2, <3>3, <3>4 DEF AddIdentityToken
  <2>4. ASSUME NEW p \in Party, NEW r \in RequestTag, AddRequestTag(p, r)
        PROVE  TagsComposed'
    <3> DEFINE t == add_request_tag(identity[p], r)
    <3>1. t.tag = compute_mac(RequestTagMessage(r), identity[p].tag)
      BY TextTags
    <3>2. /\ composed \subseteq composed'
          /\ t.tag.base = "secret" => t.tag.chain \in composed'
          /\ id_wire' = id_wire \cup {t}
          /\ identity' = identity
      BY <2>4, ComposeEffect DEF AddRequestTag, Publish
    <3> HIDE DEF t
    <3>3. /\ RequestTagMessage(r) \in IdMessage
          /\ identity[p].tag \in IdTag
          /\ PrefixesIn(identity[p].tag, composed)
      BY <2>0, MessageTypes, IdentityAssumption DEF TagsComposed
    <3>4. PrefixesIn(t.tag, composed')
      BY <3>1, <3>2, <3>3, MacPrefixes
    <3> QED  BY <2>a, <3>2, <3>4
  <2>5. ASSUME NEW p \in Party, NEW r \in RequestTag, SetRequestTag(p, r)
        PROVE  TagsComposed'
    <3>1. [identity[p] EXCEPT !.request_tag = r].tag = identity[p].tag
      BY <2>0 DEF IdentityToken
    <3>2. \A q \in Party : identity'[q].tag = identity[q].tag
      BY <2>0, <2>5, <3>1 DEF SetRequestTag
    <3> QED  BY <2>5, <2>a, <3>2, BareTags DEF SetRequestTag
  <2>6. ASSUME NEW p \in Party, NEW contain_tag \in BOOLEAN,
               PrintIdentity(p, contain_tag)
        PROVE  TagsComposed'
    <3> DEFINE t == identity_to_string(identity[p], contain_tag)
    <3>1. t.tag = IF contain_tag THEN identity[p].tag ELSE EmptyTag
      BY TextTags
    <3>2. id_wire' = id_wire \cup {t} /\ identity' = identity /\ composed' = composed
      BY <2>6 DEF PrintIdentity, Publish
    <3> HIDE DEF t
    <3>3. PrefixesIn(t.tag, composed)
      BY <3>1, BareTags DEF TagsComposed
    <3> QED  BY <2>a, <3>2, <3>3
  <2>7. ASSUME NEW p \in Party, NEW t \in id_wire, ReadIdentity(p, t)
        PROVE  TagsComposed'
    <3>1. identity_from_string(identity[p], t).tag = t.tag
      BY DEF identity_from_string
    <3>2. \A q \in Party : identity'[q].tag \in {identity[q].tag, t.tag}
      BY <2>0, <2>7, <3>1 DEF ReadIdentity
    <3>3. PrefixesIn(t.tag, composed)
      BY DEF TagsComposed
    <3> QED  BY <2>7, <2>a, <3>2, <3>3 DEF ReadIdentity
  <2>8. CASE AlterIdentity
    <3>1. \A a \in id_wire' :
            a.tag = OtherTag \/ \E t \in id_wire : a.tag = t.tag
      BY <2>0, <2>8, AlterIdentityEffect
    <3> QED  BY <2>8, <2>a, <3>1, BareTags DEF AlterIdentity
  <2>9. CASE UNCHANGED vars
    BY <2>9 DEF vars, TagsComposed
  <2> QED  BY <2>1, <2>2, <2>3, <2>4, <2>5, <2>6, <2>7, <2>8, <2>9
              DEF Next, PartyNext
<1> QED  BY <1>1, <1>2, TypeCorrect, PTL DEF Spec

(* An identity token that is_valid_signature accepts was started from the  *)
(* SECRET, then given its name, then tied to its request tag, for any      *)
(* number of parties, names and texts, whichever public methods were       *)
(* called on whichever used objects.                                       *)
THEOREM VerifiedWasComposedHolds == Spec => []VerifiedWasComposed
<1>1. TypeOK /\ TagsComposed => VerifiedWasComposed
  <2> SUFFICES ASSUME TypeOK, TagsComposed, NEW p \in Party,
                      is_valid_id_signature(identity[p]), NEW n \in 1 .. 3
               PROVE  SubSeq(ChainOf(identity[p]), 1, n) \in composed
    BY DEF VerifiedWasComposed
  <2> DEFINE named == IdentityMessage(identity[p].identity_token)
             tied  == RequestTagMessage(identity[p].request_tag)
             tag   == IdSignatureOf(identity[p].identity_token,
                                    identity[p].request_tag)
  <2>1. identity[p].tag = tag
    BY DEF is_valid_id_signature
  <2>2. /\ InitialTag.base = "secret"
        /\ InitialTag.chain = <<IDENTITY_TOKEN_DUMMY_BODY>>
    BY DEF InitialTag, compute_mac, SECRET
  <2>3. named \in IdMessage /\ IDENTITY_TOKEN_DUMMY_BODY \in IdMessage
    BY MessageTypes DEF TypeOK, IdentityToken, Name
  <2>4. compute_mac(named, InitialTag) \in IdTag
    BY <2>3, InitialTypes, IdMacType
  <2>5. tag = compute_mac(tied, compute_mac(named, InitialTag))
    BY DEF IdSignatureOf, InitialTag
  <2> HIDE DEF named, tied, tag
  <2>6. /\ tag.base = "secret"
        /\ tag.chain = Append(Append(<<IDENTITY_TOKEN_DUMMY_BODY>>, named), tied)
    BY <2>2, <2>4, <2>5, InitialTypes, MacFields
  <2>7. Len(tag.chain) = 3
    BY <2>6
  <2>8. n \in 1 .. Len(tag.chain)
    BY <2>7
  <2> QED  BY <2>1, <2>6, <2>8 DEF ChainOf, TagsComposed, PrefixesIn, tag
<1> QED  BY <1>1, TypeCorrect, TagsComposedHolds, PTL

(* The chain of a signature, and how its fields read.                      *)
LEMMA SignatureChain ==
  ASSUME NEW name \in Name, NEW r \in Tag
  PROVE  /\ IdSignatureOf(name, r).base = "secret"
         /\ LET c == IdSignatureOf(name, r).chain
            IN  /\ c \in Seq(IdMessage) /\ Len(c) = 3
                /\ c[2] = IdentityMessage(name) /\ c[3] = RequestTagMessage(r)
<1>1. /\ InitialTag \in IdTag
      /\ InitialTag.base = "secret"
      /\ InitialTag.chain = <<IDENTITY_TOKEN_DUMMY_BODY>>
  BY InitialTypes DEF InitialTag, compute_mac, SECRET
<1>2. /\ IDENTITY_TOKEN_DUMMY_BODY \in IdMessage
      /\ IdentityMessage(name) \in IdMessage /\ RequestTagMessage(r) \in IdMessage
  BY MessageTypes
<1>3. compute_mac(IdentityMessage(name), InitialTag) \in IdTag
  BY <1>1, <1>2, IdMacType
<1>4. IdSignatureOf(name, r)
        = compute_mac(RequestTagMessage(r),
            compute_mac(IdentityMessage(name), InitialTag))
  BY DEF IdSignatureOf, InitialTag
<1>5. /\ IdSignatureOf(name, r).base = "secret"
      /\ IdSignatureOf(name, r).chain
           = Append(Append(<<IDENTITY_TOKEN_DUMMY_BODY>>, IdentityMessage(name)),
                    RequestTagMessage(r))
  BY <1>1, <1>2, <1>3, <1>4, MacFields
<1>6. ASSUME NEW x \in IdMessage, NEW y \in IdMessage, NEW z \in IdMessage
      PROVE  Append(Append(<<x>>, y), z) \in Seq(IdMessage)
             /\ Len(Append(Append(<<x>>, y), z)) = 3
             /\ Append(Append(<<x>>, y), z)[2] = y
             /\ Append(Append(<<x>>, y), z)[3] = z
  OBVIOUS
<1> QED  BY <1>2, <1>5, <1>6

(* A call computes one chain at most.                                      *)
LEMMA ComposesOne ==
  ASSUME [Next]_vars
  PROVE  composed' = composed \/ \E c : composed' = composed \cup {c}
BY DEF Next, PartyNext, AlterIdentity, NewIdentity, CreateInitialToken,
       AddIdentityToken, AddRequestTag, SetRequestTag, PrintIdentity,
       ReadIdentity, Compose, vars

-----------------------------------------------------------------------------
(***************************************************************************)
(* What the documented calls give.                                         *)
(***************************************************************************)
LEMMA FieldsOf ==
  ASSUME NEW id \in IdentityToken
  PROVE  /\ create_initial_token(id).tag = InitialTag
         /\ \A name :
              /\ add_identity_token(id, name).identity_token = name
              /\ add_identity_token(id, name).tag
                   = compute_mac(IdentityMessage(name), id.tag)
         /\ \A r : /\ [id EXCEPT !.request_tag = r].tag = id.tag
                   /\ [id EXCEPT !.request_tag = r].identity_token
                        = id.identity_token
BY DEF create_initial_token, add_identity_token, IdentityToken

LEMMA TextFields ==
  /\ InitialText.pieces = 0
  /\ \A id, r : r # EmptyTag =>
       /\ add_request_tag(id, r).pieces = 2
       /\ add_request_tag(id, r).name = id.identity_token
       /\ add_request_tag(id, r).request_tag = r
  /\ \A id, c : id.identity_token # "" =>
       /\ identity_to_string(id, c).pieces = 1
       /\ identity_to_string(id, c).name = id.identity_token
<1>1. InitialText.pieces = 0
  BY DEF InitialText, IdText
<1>2. ASSUME NEW id, NEW r, r # EmptyTag
      PROVE  /\ add_request_tag(id, r).pieces = 2
             /\ add_request_tag(id, r).name = id.identity_token
             /\ add_request_tag(id, r).request_tag = r
  BY <1>2 DEF add_request_tag, IdText
<1>3. ASSUME NEW id, NEW c, id.identity_token # ""
      PROVE  /\ identity_to_string(id, c).pieces = 1
             /\ identity_to_string(id, c).name = id.identity_token
  BY <1>3 DEF identity_to_string, IdText
<1> QED  BY <1>1, <1>2, <1>3

LEMMA StageTexts ==
  ASSUME NEW t
  PROVE  /\ t.pieces = 0 /\ StageTag("initial", t.tag, "") => StageText(t)
         /\ t.pieces = 1 /\ StageTag("named", t.tag, t.name) => StageText(t)
         /\ (/\ t.pieces = 2
             /\ t.name # "" /\ t.request_tag # EmptyTag
             /\ t.tag = IdSignatureOf(t.name, t.request_tag)) => StageText(t)
<1>1. /\ t.pieces = 0 => t.pieces # 1 /\ t.pieces # 2
      /\ t.pieces = 1 => t.pieces # 0 /\ t.pieces # 2
      /\ t.pieces = 2 => t.pieces # 0 /\ t.pieces # 1
  OBVIOUS
<1> QED  BY <1>1, Zenon DEF StageText

LEMMA StageOfCases ==
  ASSUME NEW t
  PROVE  \/ StageOf(t) \in {"none", "presented"}
         \/ t \in issued /\ t.pieces = 0 /\ StageOf(t) = "initial"
         \/ t \in issued /\ t.pieces = 1 /\ StageOf(t) = "named"
<1>1. CASE t \notin issued
  BY <1>1 DEF StageOf
<1>2. CASE t \in issued /\ t.pieces = 0
  BY <1>2 DEF StageOf
<1>3. CASE t \in issued /\ t.pieces = 1
  BY <1>3 DEF StageOf
<1>4. CASE t \in issued /\ t.pieces # 0 /\ t.pieces # 1
  BY <1>4 DEF StageOf
<1> QED  BY <1>1, <1>2, <1>3, <1>4, Zenon

(* Texts and objects that the documented calls made carry the tag of their *)
(* stage, also in objects that were used before.                           *)
THEOREM StagesHold == Spec => []Stages
<1>1. Init => Stages
  BY DEF Init, Stages, StageTag
<1>2. TypeOK /\ Stages /\ [Next]_vars => Stages'
  <2> SUFFICES ASSUME TypeOK, Stages, [Next]_vars PROVE Stages'
    OBVIOUS
  <2>0. /\ identity \in [Party -> IdentityToken] /\ id_wire \subseteq IdString
        /\ \A p \in Party : identity[p] \in IdentityToken
        /\ stage \in [Party -> {"none", "initial", "named", "presented"}]
        /\ issued \subseteq id_wire
    BY DEF TypeOK
  <2>a. ASSUME \A q \in Party :
                 \/ /\ stage'[q] = stage[q]
                    /\ identity'[q].tag = identity[q].tag
                    /\ identity'[q].identity_token = identity[q].identity_token
                 \/ StageTag(stage'[q], identity'[q].tag,
                             identity'[q].identity_token),
               \A t \in issued' : t \in issued \/ StageText(t)
        PROVE  Stages'
    BY <2>a DEF Stages
  <2>1. ASSUME NEW p \in Party, NewIdentity(p) PROVE Stages'
    <3>1. \A q \in Party : \/ stage'[q] = "none"
                           \/ stage'[q] = stage[q] /\ identity'[q] = identity[q]
      BY <2>0, <2>1 DEF NewIdentity
    <3> QED  BY <2>1, <2>a, <3>1 DEF NewIdentity, StageTag
  <2>2. ASSUME NEW p \in Party, CreateInitialToken(p) PROVE Stages'
    <3>1. \A q \in Party :
            \/ stage'[q] = "initial" /\ identity'[q].tag = InitialTag
            \/ stage'[q] = stage[q] /\ identity'[q] = identity[q]
      BY <2>0, <2>2, FieldsOf DEF CreateInitialToken
    <3>2. StageText(InitialText)
      <4>1. StageTag("initial", InitialText.tag, "")
        BY TextTags DEF StageTag
      <4> QED  BY <4>1, TextFields, StageTexts
    <3>3. \A t \in issued' : t \in issued \/ StageText(t)
      BY <2>2, <3>2 DEF CreateInitialToken, Publish
    <3> QED  BY <2>a, <3>1, <3>3 DEF StageTag
  <2>3. ASSUME NEW p \in Party, NEW name \in Name, AddIdentityToken(p, name)
        PROVE  Stages'
    <3>1. \A q \in Party :
            \/ stage'[q] = stage[q] /\ identity'[q] = identity[q]
            \/ stage'[q] = "none"
            \/ /\ stage'[q] = "named" /\ stage[q] = "initial" /\ name # ""
               /\ identity'[q].identity_token = name
               /\ identity'[q].tag
                    = compute_mac(IdentityMessage(name), identity[q].tag)
      <4> DEFINE s  == IF stage[p] = "initial" /\ name # "" THEN "named" ELSE "none"
                 id == add_identity_token(identity[p], name)
      <4>1. /\ id.identity_token = name
            /\ id.tag = compute_mac(IdentityMessage(name), identity[p].tag)
        BY <2>0, FieldsOf
      <4>2. s = "none" \/ (s = "named" /\ stage[p] = "initial" /\ name # "")
        BY Zenon
      <4> HIDE DEF s, id
      <4>3. \A q \in Party :
              \/ q # p /\ stage'[q] = stage[q] /\ identity'[q] = identity[q]
              \/ q = p /\ stage'[q] = s /\ identity'[q] = id
        BY <2>0, <2>3 DEF AddIdentityToken, s, id
      <4> QED  BY <4>1, <4>2, <4>3
    <3>2. \A q \in Party : stage[q] = "initial" => identity[q].tag = InitialTag
      BY DEF Stages, StageTag
    <3>3. \A q \in Party :
            \/ stage'[q] = stage[q] /\ identity'[q] = identity[q]
            \/ StageTag(stage'[q], identity'[q].tag, identity'[q].identity_token)
      BY <3>1, <3>2 DEF StageTag
    <3> QED  BY <2>3, <2>a, <3>3 DEF AddIdentityToken
  <2>4. ASSUME NEW p \in Party, NEW r \in RequestTag, AddRequestTag(p, r)
        PROVE  Stages'
    <3> DEFINE t == add_request_tag(identity[p], r)
    <3>1. ASSUME stage[p] = "named", r # EmptyTag PROVE StageText(t)
      <4>1. /\ identity[p].identity_token # ""
            /\ identity[p].tag
                 = compute_mac(IdentityMessage(identity[p].identity_token),
                               InitialTag)
        BY <3>1 DEF Stages, StageTag
      <4>2. t.tag = IdSignatureOf(identity[p].identity_token, r)
        BY <4>1, TextTags DEF IdSignatureOf, InitialTag
      <4>3. /\ t.pieces = 2 /\ t.name = identity[p].identity_token
            /\ t.request_tag = r
        <5>1. t.pieces = 2
          BY <3>1 DEF add_request_tag, IdText
        <5>2. t.name = identity[p].identity_token /\ t.request_tag = r
          BY DEF add_request_tag, IdText
        <5> QED  BY <5>1, <5>2
      <4> HIDE DEF t
      <4>4. t.tag = IdSignatureOf(t.name, t.request_tag) /\ t.name # ""
        BY <4>1, <4>2, <4>3, Zenon
      <4> QED  BY <3>1, <4>3, <4>4, StageTexts, Zenon
    <3>2. \A u \in issued' : u \in issued \/ StageText(u)
      BY <2>4, <3>1 DEF AddRequestTag, Publish
    <3> QED  BY <2>4, <2>a, <3>2 DEF AddRequestTag
  <2>5. ASSUME NEW p \in Party, NEW r \in RequestTag, SetRequestTag(p, r)
        PROVE  Stages'
    <3>1. \A q \in Party :
            /\ identity'[q].tag = identity[q].tag
            /\ identity'[q].identity_token = identity[q].identity_token
      BY <2>0, <2>5, FieldsOf DEF SetRequestTag
    <3> QED  BY <2>5, <2>a, <3>1 DEF SetRequestTag
  <2>6. ASSUME NEW p \in Party, NEW contain_tag \in BOOLEAN,
               PrintIdentity(p, contain_tag)
        PROVE  Stages'
    <3> DEFINE t == identity_to_string(identity[p], contain_tag)
    <3>1. ASSUME stage[p] = "named", contain_tag PROVE StageText(t)
      <4>1. StageTag("named", identity[p].tag, identity[p].identity_token)
        BY <3>1 DEF Stages
      <4>2. /\ t.tag = identity[p].tag /\ t.pieces = 1
            /\ t.name = identity[p].identity_token
        BY <3>1, <4>1, TextTags, TextFields DEF StageTag
      <4> HIDE DEF t
      <4> QED  BY <4>1, <4>2, StageTexts
    <3>2. \A u \in issued' : u \in issued \/ StageText(u)
      BY <2>6, <3>1 DEF PrintIdentity, Publish
    <3> QED  BY <2>6, <2>a, <3>2 DEF PrintIdentity
  <2>7. ASSUME NEW p \in Party, NEW t \in id_wire, ReadIdentity(p, t)
        PROVE  Stages'
    <3> DEFINE id == identity_from_string(identity[p], t)
    <3>1. /\ id.tag = t.tag
          /\ t.pieces # 0 => id.identity_token = t.name
      BY DEF identity_from_string
    <3> HIDE DEF id
    <3>2. StageTag(StageOf(t), id.tag, id.identity_token)
      <4>1. CASE StageOf(t) \in {"none", "presented"}
        BY <4>1 DEF StageTag
      <4>2. CASE t \in issued /\ t.pieces = 0 /\ StageOf(t) = "initial"
        <5>1. StageTag("initial", t.tag, "")
          BY <4>2, Zenon DEF Stages, StageText
        <5> QED  BY <3>1, <4>2, <5>1 DEF StageTag
      <4>3. CASE t \in issued /\ t.pieces = 1 /\ StageOf(t) = "named"
        <5>1. StageTag("named", t.tag, t.name)
          BY <4>3, Zenon DEF Stages, StageText
        <5>2. id.identity_token = t.name
          BY <3>1, <4>3
        <5> QED  BY <3>1, <4>3, <5>1, <5>2, Zenon
      <4> QED  BY <4>1, <4>2, <4>3, StageOfCases, Zenon
    <3>3. \A q \in Party :
            \/ stage'[q] = stage[q] /\ identity'[q] = identity[q]
            \/ stage'[q] = StageOf(t) /\ identity'[q] = id
      BY <2>0, <2>7 DEF ReadIdentity, id
    <3> QED  BY <2>7, <2>a, <3>2, <3>3 DEF ReadIdentity
  <2>8. CASE AlterIdentity
    BY <2>8, <2>a DEF AlterIdentity
  <2>9. CASE UNCHANGED vars
    BY <2>9, <2>a DEF vars
  <2> QED  BY <2>1, <2>2, <2>3, <2>4, <2>5, <2>6, <2>7, <2>8, <2>9
              DEF Next, PartyNext
<1> QED  BY <1>1, <1>2, TypeCorrect, PTL DEF Spec

(* What the documented calls give for a request is accepted for that       *)
(* request, and under the name it was made for, whichever object reads it. *)
THEOREM IssuedVerifiesHolds == Spec => []IssuedVerifies
<1>1. TypeOK /\ Stages => IssuedVerifies
  <2> SUFFICES ASSUME TypeOK, Stages, NEW t \in issued, NEW p \in Party,
                      t.pieces = 2
               PROVE  LET id == identity_from_string(identity[p], t)
                      IN  /\ is_valid_identity_token(t.request_tag, id)
                          /\ id.identity_token = t.name
    BY DEF IssuedVerifies
  <2> DEFINE id == identity_from_string(identity[p], t)
  <2>1. /\ id.tag = t.tag /\ id.identity_token = t.name
        /\ id.request_tag = t.request_tag
    BY DEF identity_from_string
  <2>2. /\ t.name # "" /\ t.request_tag # EmptyTag
        /\ t.tag = IdSignatureOf(t.name, t.request_tag)
    BY DEF Stages, StageText
  <2>3. t.tag # EmptyTag
    <3>1. t.name \in Name /\ t.request_tag \in Tag
      BY DEF TypeOK, IdString
    <3>2. /\ compute_mac(IdentityMessage(t.name), InitialTag) \in IdTag
          /\ compute_mac(IdentityMessage(t.name), InitialTag).base = "secret"
      <4>1. InitialTag.base = "secret"
        BY DEF InitialTag, compute_mac, SECRET
      <4> QED  BY <3>1, <4>1, MessageTypes, InitialTypes, IdMacType, MacFields
    <3>3. t.tag = compute_mac(RequestTagMessage(t.request_tag),
                    compute_mac(IdentityMessage(t.name), InitialTag))
      BY <2>2 DEF IdSignatureOf, InitialTag
    <3>4. t.tag.base = "secret"
      BY <3>2, <3>3, MacFields
    <3> QED  BY <3>4 DEF EmptyTag
  <2> HIDE DEF id
  <2>4. is_valid_identity_token(t.request_tag, id)
    BY <2>1, <2>2, <2>3 DEF is_valid_identity_token, is_valid_id_signature
  <2> QED  BY <2>1, <2>4 DEF id
<1> QED  BY <1>1, TypeCorrect, StagesHold, PTL
=============================================================================
