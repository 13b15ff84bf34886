--------------------------- MODULE IdentityTokens ---------------------------
(***************************************************************************)
(* The life of identity tokens.  A party is a program with one             *)
(* IdentityToken object: it starts the token, puts a name in it, ties it   *)
(* to the tag of a capability token for one request, and passes on the     *)
(* text.  Texts circulate in id_wire as capability tokens do in wire: read *)
(* any number of times, in any order, into new objects and used ones, or   *)
(* in a copy that differs from what was handed out.                        *)
(***************************************************************************)
EXTENDS IdentityText, FiniteSets

CONSTANTS
  Party,        \* the objects, each with its program
  RequestTag,   \* the tags of capability tokens that requests are made with
  MaxMessages,  \* bound on the codes one tag went through
  MaxIdTexts    \* bound on the number of texts in circulation

(* The empty name is no one's; Principal holds no text that is itself a    *)
(* code, so that a name is never read where a request tag was written.     *)
ASSUME IdentityAssumption ==
  /\ "" \notin Principal
  /\ RequestTag \subseteq Tag
  /\ MaxMessages \in Nat
  /\ MaxIdTexts \in Nat

VARIABLES
  identity,   \* the object of each party
  id_wire,    \* the texts in circulation
  stage,      \* history: how far a party is in the documented calls
  issued,     \* history: the texts that the documented calls gave
  composed    \* history: the chains computed from SECRET

vars == <<identity, id_wire, stage, issued, composed>>

Name == Principal \cup {""}

(* A text is its tag and the pieces that from_string finds after the dummy *)
(* body: none, a name, or a name and a request tag (what is not there is   *)
(* kept empty here).  splitString finds no empty last piece.               *)
IdString ==
  [tag : IdTag, pieces : 0 .. 2, name : Name, request_tag : Tag]

IdText(tag, pieces, name, r) ==
  [tag |-> tag, pieces |-> pieces, name |-> name, request_tag |-> r]

EmptyIdentity ==
  [identity_token |-> "", request_tag |-> EmptyTag, tag |-> EmptyTag]

InitialTag == compute_mac(IDENTITY_TOKEN_DUMMY_BODY, SECRET)
InitialText == IdText(InitialTag, 0, "", EmptyTag)

-----------------------------------------------------------------------------
(***************************************************************************)
(* The methods of IdentityToken.                                           *)
(***************************************************************************)

(* Only the tag is set: a used object keeps its name and its request tag.  *)
create_initial_token(id) == [id EXCEPT !.tag = InitialTag]

add_identity_token(id, name) ==
  [id EXCEPT !.identity_token = name,
             !.tag = compute_mac(IdentityMessage(name), @)]

(* Mutants of add_request_tag: the tag of the object is given out; a       *)
(* further piece is written.                                               *)
OldTagReturned(id, r) ==
  IdText(id.tag, 2, id.identity_token, r)

OnePieceMore(id, r) ==
  IdText(compute_mac(RequestTagMessage(r), id.tag),
         IF r = EmptyTag THEN 2 ELSE 3, id.identity_token, r)

(* The text it returns; the object stays as it is. *)
add_request_tag(id, r) ==
  IdText(compute_mac(RequestTagMessage(r), id.tag),
         IF r = EmptyTag THEN 1 ELSE 2, id.identity_token, r)

(* The request tag is not printed. *)
identity_to_string(id, contain_tag) ==
  IdText(IF contain_tag THEN id.tag ELSE EmptyTag,
         IF id.identity_token = "" THEN 0 ELSE 1, id.identity_token, EmptyTag)

(* A piece that the text lacks leaves the field as it was. *)
identity_from_string(id, t) ==
  [identity_token |-> IF t.pieces = 0 THEN id.identity_token ELSE t.name,
   request_tag    |-> IF t.pieces = 2 THEN t.request_tag ELSE id.request_tag,
   tag            |-> t.tag]

Compose(tag) ==
  composed' = IF tag.base = "secret" THEN composed \cup {tag.chain}
                                     ELSE composed

-----------------------------------------------------------------------------
Init ==
  /\ identity = [p \in Party |-> EmptyIdentity]
  /\ id_wire  = {}
  /\ stage    = [p \in Party |-> "none"]
  /\ issued   = {}
  /\ composed = {}

(* A text is handed out: by the documented calls, or by others. *)
Publish(t, documented) ==
  /\ Cardinality(id_wire \cup {t}) <= MaxIdTexts
  /\ id_wire' = id_wire \cup {t}
  /\ issued' = IF documented THEN issued \cup {t} ELSE issued

(* A party starts on a new object. *)
NewIdentity(p) ==
  /\ identity' = [identity EXCEPT ![p] = EmptyIdentity]
  /\ stage' = [stage EXCEPT ![p] = "none"]
  /\ UNCHANGED <<id_wire, issued, composed>>

(* The text returned is the tag and the dummy body, whatever the object    *)
(* still holds; main drops it.                                             *)
CreateInitialToken(p) ==
  /\ identity' = [identity EXCEPT ![p] = create_initial_token(@)]
  /\ stage' = [stage EXCEPT ![p] = "initial"]
  /\ Publish(InitialText, TRUE) \/ UNCHANGED <<id_wire, issued>>
  /\ Compose(InitialTag)

AddIdentityToken(p, name) ==
  /\ Len(identity[p].tag.chain) < MaxMessages
  /\ identity' = [identity EXCEPT ![p] = add_identity_token(@, name)]
  /\ stage' = [stage EXCEPT
       ![p] = IF @ = "initial" /\ name # "" THEN "named" ELSE "none"]
  /\ Compose(identity'[p].tag)
  /\ UNCHANGED <<id_wire, issued>>

AddRequestTag(p, r) ==
  /\ Len(identity[p].tag.chain) < MaxMessages
  /\ LET t == add_request_tag(identity[p], r)
     IN  /\ Publish(t, stage[p] = "named" /\ r # EmptyTag)
         /\ Compose(t.tag)
  /\ UNCHANGED <<identity, stage>>

SetRequestTag(p, r) ==
  /\ identity' = [identity EXCEPT ![p].request_tag = r]
  /\ UNCHANGED <<id_wire, stage, issued, composed>>

PrintIdentity(p, contain_tag) ==
  /\ Publish(identity_to_string(identity[p], contain_tag),
             stage[p] = "named" /\ contain_tag)
  /\ UNCHANGED <<identity, stage, composed>>

(* How far the maker of a text was. *)
StageOf(t) ==
  IF t \notin issued THEN "none"
  ELSE CASE t.pieces = 0 -> "initial"
         [] t.pieces = 1 -> "named"
         [] OTHER        -> "presented"

ReadIdentity(p, t) ==
  /\ identity' = [identity EXCEPT ![p] = identity_from_string(@, t)]
  /\ stage' = [stage EXCEPT ![p] = StageOf(t)]
  /\ UNCHANGED <<id_wire, issued, composed>>

(* A copy of a text may come to have another tag, or the same tag with     *)
(* fewer pieces or with others.                                            *)
AlterIdentity ==
  /\ Cardinality(id_wire) < MaxIdTexts
  /\ \E t \in id_wire :
       \/ id_wire' = id_wire \cup
                       {IdText(OtherTag, t.pieces, t.name, t.request_tag)}
       \/ \E pieces \in 0 .. 2, n \in Name,
             r \in RequestTag \cup {t.request_tag, EmptyTag} :
            /\ pieces = 0 <=> n = ""
            /\ pieces < 2 <=> r = EmptyTag
            /\ id_wire' = id_wire \cup {IdText(t.tag, pieces, n, r)}
  /\ UNCHANGED <<identity, stage, issued, composed>>

(* All public calls, in any order, on objects in any state. *)
PartyNext(p) ==
  \/ NewIdentity(p)
  \/ CreateInitialToken(p)
  \/ \E name \in Name : AddIdentityToken(p, name)
  \/ \E r \in RequestTag : AddRequestTag(p, r)
  \/ \E r \in RequestTag : SetRequestTag(p, r)
  \/ \E contain_tag \in BOOLEAN : PrintIdentity(p, contain_tag)
  \/ \E t \in id_wire : ReadIdentity(p, t)

Next == AlterIdentity \/ \E p \in Party : PartyNext(p)

Spec == Init /\ [][Next]_vars

-----------------------------------------------------------------------------
(***************************************************************************)
(* Properties.                                                             *)
(***************************************************************************)

(* The fields of every object, text and history variable keep their types. *)
TypeOK ==
  /\ identity \in [Party -> IdentityToken]
  /\ id_wire \subseteq IdString
  /\ stage \in [Party -> {"none", "initial", "named", "presented"}]
  /\ issued \subseteq id_wire
  /\ composed \subseteq Seq(IdMessage)

(* The chain of the tag that is_valid_signature recalculates. *)
ChainOf(id) == IdSignatureOf(id.identity_token, id.request_tag).chain

(* If is_valid_signature accepts an identity token, read from whatever     *)
(* text into whatever object, then the tag went through exactly the calls  *)
(* it stands for: it was started from the SECRET, its very name was put    *)
(* into the started token, and its very request tag was added to that;     *)
(* neither a name nor a request tag left over in the object, nor one       *)
(* exchanged in the text, passes.                                          *)
VerifiedWasComposed ==
  \A p \in Party :
    is_valid_id_signature(identity[p]) =>
      \A n \in 1 .. 3 : SubSeq(ChainOf(identity[p]), 1, n) \in composed

(* Why it holds: a tag from the SECRET, in an object or in a text, tells   *)
(* of a chain each prefix of which was computed.                           *)
TagsComposed ==
  /\ \A p \in Party : PrefixesIn(identity[p].tag, composed)
  /\ \A t \in id_wire : PrefixesIn(t.tag, composed)

(* A text with a request tag that the documented calls gave (started,      *)
(* named, and tied to a request, by one party or by several) passes        *)
(* is_valid_identity_token for the capability token it was made for,       *)
(* whichever object it is read into and whatever that object holds.        *)
IssuedVerifies ==
  \A t \in issued, p \in Party :
    t.pieces = 2 =>
      LET id == identity_from_string(identity[p], t)
      IN  /\ is_valid_identity_token(t.request_tag, id)
          /\ id.identity_token = t.name

(* Why it holds: what the tag of an object or of a text is at each stage.  *)
StageTag(s, tag, name) ==
  /\ s = "initial" => tag = InitialTag
  /\ s = "named" =>
       tag = compute_mac(IdentityMessage(name), InitialTag) /\ name # ""

StageText(t) ==
  /\ t.pieces = 0 => StageTag("initial", t.tag, "")
  /\ t.pieces = 1 => StageTag("named", t.tag, t.name)
  /\ t.pieces = 2 =>
       /\ t.name # "" /\ t.request_tag # EmptyTag
       /\ t.tag = IdSignatureOf(t.name, t.request_tag)

Stages ==
  /\ \A p \in Party :
       StageTag(stage[p], identity[p].tag, identity[p].identity_token)
  /\ \A t \in issued : StageText(t)
=============================================================================
