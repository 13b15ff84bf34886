------------------------------ MODULE Decision ------------------------------
(***************************************************************************)
(* The right answer to a call of is_valid_request_cspot, said of the whole *)
(* token at once.                                                          *)
(***************************************************************************)
EXTENDS IdentityText

(* A token whose request pointer and last element agree.  That is more     *)
(* than a type: it restricts the calls to tokens on which the documented   *)
(* calls were made (RequestIsLast of CapabilityToken).  After set_request, *)
(* set_body_frames, or from_string on a used object it may fail.           *)
TokenRead ==
  {t \in [body : Seq(Element), tag : Tag, request : Request \cup {NULL}] :
     RequestAtEnd(t.body, t.request)}

(* A call: this token, an identity token or a null pointer, and the bits   *)
(* of the operation.                                                       *)
Calls ==
  [token : TokenRead, id : IdentityToken \cup {NULL}, operation : Bits]

-----------------------------------------------------------------------------
Signed(t) == t.tag = SignatureOf(t.body)

(* Every element's capabilities come from the element before it. *)
Derived(body) ==
  \A i \in 2 .. Len(body) : CapabilitiesDerived(body[i], body[i - 1])

(* The constraints that count are those of the first frame that has any;   *)
(* the last element's never do.                                            *)
FirstConstrained(body, k) ==
  /\ k \in 1 .. Len(body) - 1
  /\ body[k].constraints # <<>>
  /\ \A m \in 1 .. k - 1 : body[m].constraints = <<>>

IdentityAccepted(body, id) ==
  \A k \in 1 .. Len(body) - 1 :
    FirstConstrained(body, k) => ConstraintsHold(body[k], id)

Trusted(in) ==
  /\ in.id # NULL => is_valid_identity_token(in.token.tag, in.id)
  /\ Signed(in.token)
  /\ in.token.body # <<>>
  /\ Derived(in.token.body)
  /\ IdentityAccepted(in.token.body, in.id)

(* The request is within the last frame, and the operation asks for what   *)
(* the request says.                                                       *)
Granted(in) ==
  LET body == in.token.body
      capability == body[Len(body)].capability
  IN  /\ GrantedBySome(capability, body[Len(body) - 1].capabilities)
      /\ is_cap_bits_valid(capability.cap_bits, in.operation)

(* The code reads outside an array when the body has one element, outside  *)
(* an object when the last element is no request, and then through a null  *)
(* pointer.                                                                *)
Verdicts(in) ==
  IF ~Trusted(in) THEN {"rejected"}
  ELSE IF in.token.request = NULL THEN {"rejected", "crashed"}
  ELSE IF Len(in.token.body) = 1 THEN {"accepted", "rejected", "crashed"}
  ELSE {IF Granted(in) THEN "accepted" ELSE "rejected"}
=============================================================================
