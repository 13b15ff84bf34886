---------------------------- MODULE IdentityText ----------------------------
(***************************************************************************)
(* Identity tokens: the object that is_valid_request is given beside a     *)
(* capability token, and the chain of codes that IdentityToken computes.   *)
(* Its messages are the dummy body, the identity token and the tag of the  *)
(* capability token that the identity is presented with.                   *)
(***************************************************************************)
EXTENDS TokenText

IdMessage ==
  [kind : {"dummy"}] \cup [kind : {"identity"}, name : Principal \cup {""}]
                     \cup [kind : {"request_tag"}, tag : Tag]

IDENTITY_TOKEN_DUMMY_BODY == [kind |-> "dummy"]
IdentityMessage(name)     == [kind |-> "identity", name |-> name]

(* The empty tag and the empty name are the same text. *)
RequestTagMessage(tag) ==
  IF tag = EmptyTag THEN IdentityMessage("")
                    ELSE [kind |-> "request_tag", tag |-> tag]

IdTag == [base : {"secret", "empty", "other"}, chain : Seq(IdMessage)]

(* Empty strings: "", EmptyTag. *)
IdentityToken ==
  [identity_token : Principal \cup {""}, request_tag : Tag, tag : IdTag]

ASSUME NullIsNoObject == NULL \notin Request \cup IdentityToken

(* The tag that IdentityToken::is_valid_signature recalculates. *)
IdSignatureOf(name, request_tag) ==
  compute_mac(RequestTagMessage(request_tag),
    compute_mac(IdentityMessage(name),
      compute_mac(IDENTITY_TOKEN_DUMMY_BODY, SECRET)))

(* Mutant of is_valid_id_signature: the name is not part of what is        *)
(* recalculated.                                                           *)
NameUnsigned(id) ==
  id.tag = compute_mac(RequestTagMessage(id.request_tag),
                       compute_mac(IDENTITY_TOKEN_DUMMY_BODY, SECRET))

is_valid_id_signature(id) ==
  id.tag = IdSignatureOf(id.identity_token, id.request_tag)

(* Mutant of is_valid_identity_token: the two tags are not compared.       *)
AnyRequestTag(tag, id) == id.identity_token # "" /\ is_valid_id_signature(id)

(* CapabilityToken::is_valid_identity_token *)
is_valid_identity_token(tag, id) ==
  /\ id.identity_token # ""
  /\ id.request_tag # EmptyTag
  /\ id.tag # EmptyTag
  /\ id.request_tag = tag
  /\ is_valid_id_signature(id)
=============================================================================
