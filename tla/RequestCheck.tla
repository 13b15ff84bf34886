---------------------------- MODULE RequestCheck ----------------------------
(***************************************************************************)
(* CapabilityToken::is_valid_request_cspot, step by step: the checks in    *)
(* the order the code makes them, with the loops of is_valid_signature and *)
(* is_valid_derivation as one step per element of the body.  i counts      *)
(* elements from 1.                                                        *)
(***************************************************************************)
EXTENDS Decision

CONSTANT Inputs   \* the calls considered

VARIABLES
  input,                         \* this token, the identity token, the bits
  pc,                            \* the check to make next
  i,                             \* the loops' position
  calculated_tag,                \* of is_valid_signature
  identity_constraint_checked,   \* of is_valid_derivation
  verdict                        \* what the call returned

vars == <<input, pc, i, calculated_tag, identity_constraint_checked, verdict>>

ASSUME InputAssumption == Inputs \subseteq Calls

body    == input.token.body
id      == input.id

Return(v) ==
  /\ pc' = "done"
  /\ verdict' = v
  /\ UNCHANGED <<input, i, calculated_tag, identity_constraint_checked>>

Goto(check) ==
  /\ pc' = check
  /\ UNCHANGED <<input, calculated_tag, identity_constraint_checked, verdict>>

Init ==
  /\ input \in Inputs
  /\ pc = "identity"
  /\ i = 1
  /\ calculated_tag = SECRET
  /\ identity_constraint_checked = FALSE
  /\ verdict = "pending"

(* Mutant of CheckIdentity: it is left to the constraint.                  *)
IdentityUnchecked == pc = "identity" /\ Goto("signature") /\ UNCHANGED i

(* is_valid_request makes this check only when it is given a token. *)
CheckIdentity ==
  /\ pc = "identity"
  /\ IF id # NULL /\ ~is_valid_identity_token(input.token.tag, id)
     THEN Return("rejected")
     ELSE Goto("signature") /\ UNCHANGED i

(* is_valid_signature *)
ExtendTag ==
  /\ pc = "signature"
  /\ i <= Len(body)
  /\ calculated_tag' = compute_mac(element_to_string(body[i]), calculated_tag)
  /\ i' = i + 1
  /\ UNCHANGED <<input, pc, identity_constraint_checked, verdict>>

(* Mutant of CompareTag: is_valid_derivation without its test for an empty *)
(* body.                                                                   *)
EmptyBodyPasses ==
  /\ pc = "signature"
  /\ i > Len(body)
  /\ IF calculated_tag # input.token.tag
     THEN Return("rejected")
     ELSE Goto("derivation") /\ i' = 2

(* Mutant of CompareTag: the tags are not compared.                        *)
TagUnchecked ==
  /\ pc = "signature"
  /\ i > Len(body)
  /\ IF body = <<>> THEN Return("rejected") ELSE Goto("derivation") /\ i' = 2

(* The comparison of the tags, and the test of is_valid_derivation for an  *)
(* empty body.                                                             *)
CompareTag ==
  /\ pc = "signature"
  /\ i > Len(body)
  /\ IF calculated_tag # input.token.tag \/ body = <<>>
     THEN Return("rejected")
     ELSE Goto("derivation") /\ i' = 2

(* is_valid_derivation *)
DeriveNext ==
  /\ pc = "derivation"
  /\ i <= Len(body)
  /\ LET due == ~identity_constraint_checked /\ body[i - 1].constraints # <<>>
     IN  IF \/ ~CapabilitiesDerived(body[i], body[i - 1])
            \/ due /\ ~ConstraintsHold(body[i - 1], id)
         THEN Return("rejected")
         ELSE /\ identity_constraint_checked' =
                   (identity_constraint_checked \/ due)
              /\ i' = i + 1
              /\ UNCHANGED <<input, pc, calculated_tag, verdict>>

DerivationPassed ==
  /\ pc = "derivation"
  /\ i > Len(body)
  /\ Goto("request") /\ UNCHANGED i

(* The end of is_valid_request. *)
CompareRequest ==
  /\ pc = "request"
  /\ Len(body) > 1
  /\ body[Len(body)].kind = "request"
  /\ IF GrantedBySome(body[Len(body)].capability,
                      body[Len(body) - 1].capabilities)
     THEN Goto("operation") /\ UNCHANGED i
     ELSE Return("rejected")

(* body[body_size-2] of a body of one element is before the vector, and a  *)
(* Frame read as a Request has no capability: anything may be found there. *)
CompareGarbage ==
  /\ pc = "request"
  /\ Len(body) = 1 \/ body[Len(body)].kind # "request"
  /\ \/ Goto("operation") /\ UNCHANGED i
     \/ \E v \in {"rejected", "crashed"} : Return(v)

(* The end of is_valid_request_cspot, through the request pointer. *)
CompareOperation ==
  /\ pc = "operation"
  /\ LET request == input.token.request
     IN  CASE request = NULL -> Return("crashed")
           [] request # NULL ->
                Return(IF is_cap_bits_valid(request.capability.cap_bits,
                                            input.operation)
                       THEN "accepted" ELSE "rejected")

Terminated == pc = "done" /\ UNCHANGED vars

Step ==
  \/ CheckIdentity \/ ExtendTag \/ CompareTag \/ DeriveNext
  \/ DerivationPassed \/ CompareRequest \/ CompareGarbage \/ CompareOperation

Next == Step \/ Terminated

(* A call runs to its end. *)
Spec == Init /\ [][Next]_vars /\ WF_vars(Step)

-----------------------------------------------------------------------------
(***************************************************************************)
(* Properties.                                                             *)
(***************************************************************************)

(* The local variables of the call keep their types, and i stays where the *)
(* body may be read.                                                       *)
TypeOK ==
  /\ input \in Calls
  /\ pc \in {"identity", "signature", "derivation", "request", "operation",
             "done"}
  /\ i \in 1 .. Len(body) + 1
  /\ calculated_tag \in Tag
  /\ identity_constraint_checked \in BOOLEAN
  /\ verdict \in {"pending", "accepted", "rejected", "crashed"}

(* A request that came with a frame before it. *)
HasRequest == Len(body) > 1 /\ input.token.request # NULL

Accepted == verdict = "accepted" /\ HasRequest

WithinRights(part, full) ==
  part.type = full.type /\ part.cap_bits \subseteq full.cap_bits

(* The rights that an accepted request asks for were given by every frame  *)
(* back to the root: frame by frame the type stays and the bits never      *)
(* grow, however long the token.  This is said of the request only: the    *)
(* operation may have bits that neither the request nor a frame has, since *)
(* is_cap_bits_valid tests that the request's bits are among those of the  *)
(* operation.                                                              *)
RightsFromEveryFrame ==
  Accepted =>
    LET capability == input.token.request.capability
    IN  \A k \in 1 .. Len(body) - 1 :
          \E z \in DOMAIN body[k].capabilities :
            WithinRights(capability, body[k].capabilities[z])

(* As long as no frame names a shorter path than the frame before it, an   *)
(* accepted request stays within one capability of the root frame, path    *)
(* and rights together, although the code compares neighbours only.        *)
(* "Within" is the code's own comparison, of as many names as both paths   *)
(* have: the request itself may name a shorter path than the root.         *)
AsLong(part, full) == Len(part.resource) >= Len(full.resource)

NeverShorter(b) ==
  \A k \in 2 .. Len(b) - 1 :
    \A j \in DOMAIN b[k].capabilities, z \in DOMAIN b[k - 1].capabilities :
      AsLong(b[k].capabilities[j], b[k - 1].capabilities[z])

WithinRoot ==
  Accepted /\ NeverShorter(body) =>
    GrantedBySome(input.token.request.capability, body[1].capabilities)

(* An accepted request whose token has an identity constraint in the first *)
(* constrained frame came with an identity token of that very identity,    *)
(* signed from the SECRET for the tag of exactly this body.                *)
BoundToIdentity ==
  Accepted =>
    \A k \in 1 .. Len(body) - 1 :
      FirstConstrained(body, k) =>
        \A c \in DOMAIN body[k].constraints :
          body[k].constraints[c].function = "identity_constraint" =>
            /\ id # NULL
            /\ body[k].constraints[c].parameters = <<id.identity_token>>
            /\ id.tag = IdSignatureOf(id.identity_token, SignatureOf(body))

(***************************************************************************)
(* Why the two hold: what the derivation loop has established of the first *)
(* n elements of a body b, back to every frame and back to the root.       *)
(***************************************************************************)
RightsUpTo(b, n) ==
  \A k \in 1 .. n : \A l \in 1 .. k :
    \A j \in DOMAIN b[k].capabilities : \E z \in DOMAIN b[l].capabilities :
      WithinRights(b[k].capabilities[j], b[l].capabilities[z])

RootUpTo(b, n) ==
  NeverShorter(b) =>
    \A k \in 1 .. n : k < Len(b) =>
      \A j \in DOMAIN b[k].capabilities : \E z \in DOMAIN b[1].capabilities :
        /\ GrantedBy(b[k].capabilities[j], b[1].capabilities[z])
        /\ AsLong(b[k].capabilities[j], b[1].capabilities[z])

(* The loop invariant of the derivation check, carried through the checks  *)
(* after it, of which the two properties above are the outcome.            *)
Attenuation ==
  /\ pc = "derivation" =>
       i >= 2 /\ RightsUpTo(body, i - 1) /\ RootUpTo(body, i - 1)
  /\ pc \in {"request", "operation"} =>
       RightsUpTo(body, Len(body)) /\ RootUpTo(body, Len(body))
  /\ pc = "operation" /\ HasRequest =>
       GrantedBySome(input.token.request.capability,
                     body[Len(body) - 1].capabilities)
  /\ pc # "done" => verdict = "pending"
  /\ RightsFromEveryFrame
  /\ WithinRoot

(***************************************************************************)
(* Why BoundToIdentity and Authorized hold: what each check, and each turn *)
(* of the two loops, has established of the token.  The derivation loop at *)
(* i has related the elements up to i - 1 and looked at the constraints    *)
(* of those up to i - 2.                                                   *)
(***************************************************************************)
SignedUpTo(b, n) == calculated_tag = SignatureOf(SubSeq(b, 1, n))

DerivedUpTo(b, n) ==
  \A k \in 2 .. n : CapabilitiesDerived(b[k], b[k - 1])

ConstraintsUpTo(b, n) ==
  /\ identity_constraint_checked <=> \E k \in 1 .. n : b[k].constraints # <<>>
  /\ \A k \in 1 .. n : FirstConstrained(b, k) => ConstraintsHold(b[k], id)

Established ==
  /\ pc # "done" => verdict = "pending"
  /\ pc = "identity" => i = 1
  /\ pc \in {"identity", "signature"} =>
       SignedUpTo(body, i - 1) /\ ~identity_constraint_checked
  /\ pc \notin {"identity", "done"} /\ id # NULL =>
       is_valid_identity_token(input.token.tag, id)
  /\ pc \in {"derivation", "request", "operation"} =>
       Signed(input.token) /\ body # <<>>
  /\ pc = "derivation" =>
       i >= 2 /\ DerivedUpTo(body, i - 1) /\ ConstraintsUpTo(body, i - 2)
  /\ pc \in {"request", "operation"} =>
       Derived(body) /\ IdentityAccepted(body, id)
  /\ pc = "operation" /\ HasRequest =>
       GrantedBySome(body[Len(body)].capability, body[Len(body) - 1].capabilities)
  /\ BoundToIdentity

(* The sequence of checks implements the decision said of the whole token: *)
(* it answers exactly once, with the right answer.                         *)
Auth == INSTANCE Authorization
Authorized == Auth!Spec

(* What the documentation says of is_valid_derivation: the capabilities in *)
(* a frame are a subset of the previous frame's.  A capability reaches the *)
(* paths that begin with its own, a "*" standing for any name.             *)
Reaches(capability, path) ==
  /\ Len(path) >= Len(capability.resource)
  /\ is_path_subset_of_path(path, capability.resource)

AcceptedFramesAreSubsets ==
  Accepted =>
    \A k \in 2 .. Len(body) - 1 :
      \A j \in DOMAIN body[k].capabilities :
        \E z \in DOMAIN body[k - 1].capabilities :
          Reaches(body[k - 1].capabilities[z], body[k].capabilities[j].resource)

(* What the comment in is_valid_derivation says: if there is a constraint, *)
(* is_valid_constraint is called, whichever frame has it.                  *)
AcceptedConstraintsHold ==
  Accepted => \A k \in 1 .. Len(body) - 1 : ConstraintsHold(body[k], id)
=============================================================================
