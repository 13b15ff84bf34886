------------------------- MODULE RequestCheckProofs -------------------------
(***************************************************************************)
(* RequestCheck, for every set of calls: the types of the local variables, *)
(* and what an accepted request owes to the frames of its token.           *)
(***************************************************************************)
EXTENDS RequestCheck, TokenTextProofs

-----------------------------------------------------------------------------
(***************************************************************************)
(* Types.                                                                  *)
(***************************************************************************)
LEMMA CallTypes ==
  ASSUME input \in Calls
  PROVE  /\ body \in Seq(Element)
         /\ Len(body) \in Nat
         /\ input.token.tag \in Tag
         /\ input.operation \in Bits
         /\ RequestAtEnd(body, input.token.request)
  BY DEF Calls, TokenRead, body

LEMMA TypeStep ==
  ASSUME TypeOK, [Next]_vars
  PROVE  TypeOK'
<1>0. input \in Calls
  BY DEF TypeOK
<1> USE CallTypes, <1>0
<1>1. CASE CheckIdentity
  BY <1>1 DEF CheckIdentity, Return, Goto, TypeOK, body
<1>2. CASE ExtendTag
  <2>1. element_to_string(body[i]) \in ElementText
    BY <1>2, ElementTextType DEF ExtendTag, TypeOK
  <2>2. calculated_tag' \in Tag
    BY <1>2, <2>1, ComputeMacType DEF ExtendTag, TypeOK
  <2> QED  BY <1>2, <2>2 DEF ExtendTag, TypeOK, body
<1>3. CASE CompareTag
  <2>1. body # <<>> => Len(body) >= 1
    OBVIOUS
  <2> QED  BY <1>3, <2>1 DEF CompareTag, Return, Goto, TypeOK, body
<1>4. CASE DeriveNext
  <2>1. identity_constraint_checked' \in BOOLEAN
    <3>1. identity_constraint_checked \in BOOLEAN
      BY DEF TypeOK
    <3> QED  BY <1>4, <3>1, Zenon DEF DeriveNext, Return
  <2>2. \/ Return("rejected")
        \/ i' = i + 1 /\ UNCHANGED <<input, pc, calculated_tag, verdict>>
    BY <1>4, Zenon DEF DeriveNext
  <2> QED  BY <1>4, <2>1, <2>2 DEF DeriveNext, Return, TypeOK, body
<1>5. CASE DerivationPassed
  BY <1>5 DEF DerivationPassed, Goto, TypeOK, body
<1>6. CASE CompareRequest
  BY <1>6 DEF CompareRequest, Return, Goto, TypeOK, body
<1>7. CASE CompareGarbage
  BY <1>7 DEF CompareGarbage, Return, Goto, TypeOK, body
<1>8. CASE CompareOperation
  <2>1. \E v \in {"accepted", "rejected", "crashed"} : Return(v)
    BY <1>8 DEF CompareOperation
  <2> QED  BY <2>1 DEF Return, TypeOK, body
<1>9. CASE UNCHANGED vars
  BY <1>9 DEF vars, TypeOK, body
<1> QED
  BY <1>1, <1>2, <1>3, <1>4, <1>5, <1>6, <1>7, <1>8, <1>9
     DEF Next, Step, Terminated

(* Whatever it is given, is_valid_request_cspot never indexes the body     *)
(* outside the positions its loops are meant to visit, and its local       *)
(* variables keep their types.                                             *)
THEOREM TypeCorrect == Spec => []TypeOK
<1>1. Init => TypeOK
  <2> SUFFICES ASSUME Init PROVE TypeOK
    OBVIOUS
  <2>1. input \in Calls
    BY InputAssumption DEF Init
  <2>2. identity_constraint_checked \in BOOLEAN
    BY DEF Init
  <2>3. i \in 1 .. Len(body) + 1
    BY <2>1, CallTypes DEF Init
  <2> QED  BY <2>1, <2>2, <2>3, SecretType DEF Init, TypeOK
<1>2. TypeOK /\ [Next]_vars => TypeOK'
  BY TypeStep
<1> QED  BY <1>1, <1>2, PTL DEF Spec

-----------------------------------------------------------------------------
(***************************************************************************)
(* Attenuation.                                                            *)
(***************************************************************************)
LEMMA ElementCapabilities ==
  ASSUME NEW b \in Seq(Element), NEW k \in 1 .. Len(b)
  PROVE  /\ b[k].capabilities \in Seq(CapabilityStructure)
         /\ \A j \in DOMAIN b[k].capabilities :
              b[k].capabilities[j] \in CapabilityStructure
<1>1. b[k] \in Frame \cup Request
  BY DEF Element
<1>2. b[k].capabilities \in Seq(CapabilityStructure)
  <2>1. <<>> \in Seq(CapabilityStructure)
    OBVIOUS
  <2>2. CASE b[k] \in Frame
    BY <2>2 DEF Frame
  <2>3. CASE b[k] \in Request
    <3>1. b[k].capabilities = <<>>
      BY <2>3 DEF Request
    <3> QED  BY <2>1, <3>1
  <2> QED  BY <1>1, <2>2, <2>3
<1> QED  BY <1>2

LEMMA GrantedWithinRights ==
  ASSUME NEW c, NEW d, GrantedBy(c, d)
  PROVE  WithinRights(c, d)
BY DEF GrantedBy, is_cap_subset_of_cap, is_cap_bits_valid, WithinRights

(* One step of the derivation loop keeps the rights within every frame     *)
(* before.                                                                 *)
LEMMA RightsStep ==
  ASSUME NEW b \in Seq(Element), NEW n \in Nat, n >= 1, n + 1 <= Len(b),
         RightsUpTo(b, n), CapabilitiesDerived(b[n + 1], b[n])
  PROVE  RightsUpTo(b, n + 1)
<1> SUFFICES ASSUME NEW k \in 1 .. n + 1, NEW l \in 1 .. k,
                    NEW j \in DOMAIN b[k].capabilities
             PROVE  \E z \in DOMAIN b[l].capabilities :
                      WithinRights(b[k].capabilities[j], b[l].capabilities[z])
  BY DEF RightsUpTo
<1>1. CASE k <= n
  <2>1. k \in 1 .. n
    BY <1>1
  <2> QED  BY <2>1 DEF RightsUpTo
<1>2. CASE k = n + 1 /\ l = n + 1
  BY <1>2 DEF WithinRights
<1>3. CASE k = n + 1 /\ l <= n
  <2>1. PICK m \in DOMAIN b[n].capabilities :
          GrantedBy(b[k].capabilities[j], b[n].capabilities[m])
    BY <1>3 DEF CapabilitiesDerived, GrantedBySome
  <2>2. n \in 1 .. n /\ l \in 1 .. n
    BY <1>3
  <2>3. PICK z \in DOMAIN b[l].capabilities :
          WithinRights(b[n].capabilities[m], b[l].capabilities[z])
    BY <2>1, <2>2 DEF RightsUpTo
  <2>4. WithinRights(b[k].capabilities[j], b[n].capabilities[m])
    BY <2>1, GrantedWithinRights
  <2> QED  BY <2>3, <2>4 DEF WithinRights
<1> QED  BY <1>1, <1>2, <1>3

LEMMA RightsStart ==
  ASSUME NEW b \in Seq(Element)
  PROVE  RightsUpTo(b, 1)
BY DEF RightsUpTo, WithinRights

(* One step of the derivation loop keeps the capabilities within one of    *)
(* the root frame.                                                         *)
LEMMA RootStep ==
  ASSUME NEW b \in Seq(Element), NEW n \in Nat, n >= 1, n + 1 <= Len(b),
         RootUpTo(b, n), CapabilitiesDerived(b[n + 1], b[n])
  PROVE  RootUpTo(b, n + 1)
<1> SUFFICES ASSUME NeverShorter(b), NEW k \in 1 .. n + 1, k < Len(b),
                    NEW j \in DOMAIN b[k].capabilities
             PROVE  \E z \in DOMAIN b[1].capabilities :
                      /\ GrantedBy(b[k].capabilities[j], b[1].capabilities[z])
                      /\ AsLong(b[k].capabilities[j], b[1].capabilities[z])
  BY DEF RootUpTo
<1>1. CASE k <= n
  <2>1. k \in 1 .. n
    BY <1>1
  <2> QED  BY <2>1 DEF RootUpTo
<1>2. CASE k = n + 1
  <2>1. PICK m \in DOMAIN b[n].capabilities :
          GrantedBy(b[k].capabilities[j], b[n].capabilities[m])
    BY <1>2 DEF CapabilitiesDerived, GrantedBySome
  <2>2. n \in 1 .. n /\ n < Len(b)
    BY <1>2
  <2>3. PICK z \in DOMAIN b[1].capabilities :
          /\ GrantedBy(b[n].capabilities[m], b[1].capabilities[z])
          /\ AsLong(b[n].capabilities[m], b[1].capabilities[z])
    BY <2>1, <2>2 DEF RootUpTo
  <2>4. AsLong(b[k].capabilities[j], b[n].capabilities[m])
    <3>1. k \in 2 .. Len(b) - 1 /\ k - 1 = n
      BY <1>2
    <3> QED  BY <3>1, <2>1 DEF NeverShorter
  <2>5. /\ b[k].capabilities[j] \in CapabilityStructure
        /\ b[n].capabilities[m] \in CapabilityStructure
        /\ b[1].capabilities[z] \in CapabilityStructure
    <3>1. k \in 1 .. Len(b) /\ n \in 1 .. Len(b) /\ 1 \in 1 .. Len(b)
      BY <1>2
    <3> QED  BY <3>1, <2>1, <2>3, ElementCapabilities
  <2>6. GrantedBy(b[k].capabilities[j], b[1].capabilities[z])
    BY <2>1, <2>3, <2>5, GrantedByTransitive DEF AsLong
  <2>7. AsLong(b[k].capabilities[j], b[1].capabilities[z])
    BY <2>3, <2>4, <2>5 DEF AsLong, CapabilityStructure, Path
  <2> QED  BY <2>6, <2>7
<1> QED  BY <1>1, <1>2

LEMMA PathReflexive ==
  ASSUME NEW c
  PROVE  GrantedBy(c, c)
BY DEF GrantedBy, is_path_subset_of_path, is_cap_subset_of_cap, is_cap_bits_valid

LEMMA RootStart ==
  ASSUME NEW b \in Seq(Element)
  PROVE  RootUpTo(b, 1)
<1> SUFFICES ASSUME NeverShorter(b), NEW k \in 1 .. 1, k < Len(b),
                    NEW j \in DOMAIN b[k].capabilities
             PROVE  \E z \in DOMAIN b[1].capabilities :
                      /\ GrantedBy(b[k].capabilities[j], b[1].capabilities[z])
                      /\ AsLong(b[k].capabilities[j], b[1].capabilities[z])
  BY DEF RootUpTo
<1>1. k = 1 /\ 1 \in 1 .. Len(b)
  OBVIOUS
<1>2. b[1].capabilities[j] \in CapabilityStructure
  BY <1>1, ElementCapabilities
<1>3. AsLong(b[1].capabilities[j], b[1].capabilities[j])
  BY <1>2 DEF AsLong, CapabilityStructure, Path
<1> QED  BY <1>1, <1>3, PathReflexive

(* At the end of the call: the request is granted by a capability of the   *)
(* last frame, which the loop has related to every frame and to the root.  *)
LEMMA AcceptedRights ==
  ASSUME NEW b \in Seq(Element), Len(b) > 1, RightsUpTo(b, Len(b)),
         NEW c, GrantedBySome(c, b[Len(b) - 1].capabilities)
  PROVE  \A k \in 1 .. Len(b) - 1 : \E z \in DOMAIN b[k].capabilities :
           WithinRights(c, b[k].capabilities[z])
<1> DEFINE last == Len(b) - 1
<1>1. PICK m \in DOMAIN b[last].capabilities :
        GrantedBy(c, b[last].capabilities[m])
  BY DEF GrantedBySome
<1>2. WithinRights(c, b[last].capabilities[m])
  BY <1>1, GrantedWithinRights
<1>3. last \in 1 .. Len(b) /\ Len(b) \in Nat
  OBVIOUS
<1> HIDE DEF last
<1>4. ASSUME NEW k \in 1 .. last
      PROVE  \E z \in DOMAIN b[k].capabilities :
               WithinRights(c, b[k].capabilities[z])
  <2>1. PICK z \in DOMAIN b[k].capabilities :
          WithinRights(b[last].capabilities[m], b[k].capabilities[z])
    BY <1>3 DEF RightsUpTo
  <2> QED  BY <1>2, <2>1 DEF WithinRights
<1> QED  BY <1>4 DEF last

LEMMA AcceptedRoot ==
  ASSUME NEW b \in Seq(Element), Len(b) > 1, RootUpTo(b, Len(b)),
         NeverShorter(b), NEW c \in CapabilityStructure,
         GrantedBySome(c, b[Len(b) - 1].capabilities)
  PROVE  GrantedBySome(c, b[1].capabilities)
<1> DEFINE last == Len(b) - 1
<1>1. PICK m \in DOMAIN b[last].capabilities :
        GrantedBy(c, b[last].capabilities[m])
  BY DEF GrantedBySome
<1>2. last \in 1 .. Len(b) /\ last < Len(b) /\ 1 \in 1 .. Len(b)
  OBVIOUS
<1> HIDE DEF last
<1>3. PICK z \in DOMAIN b[1].capabilities :
        /\ GrantedBy(b[last].capabilities[m], b[1].capabilities[z])
        /\ AsLong(b[last].capabilities[m], b[1].capabilities[z])
  BY <1>2 DEF RootUpTo
<1>4. /\ b[last].capabilities[m] \in CapabilityStructure
      /\ b[1].capabilities[z] \in CapabilityStructure
  BY <1>2, ElementCapabilities
<1>5. GrantedBy(c, b[1].capabilities[z])
  BY <1>1, <1>3, <1>4, GrantedByTransitive DEF AsLong
<1> QED  BY <1>5 DEF GrantedBySome

LEMMA LastRequest ==
  ASSUME input \in Calls, input.token.request # NULL
  PROVE  /\ input.token.request = body[Len(body)]
         /\ input.token.request \in Request
         /\ input.token.request.capability \in CapabilityStructure
<1>1. input.token.request \in Request
  BY DEF Calls, TokenRead
<1>2. input.token.request = body[Len(body)]
  BY CallTypes DEF RequestAtEnd
<1> QED  BY <1>1, <1>2 DEF Request

(* The loop invariant holds whatever the calls: no sequence of checks that *)
(* ends in acceptance loses track of the root.                             *)
THEOREM AttenuationHolds == Spec => []Attenuation
<1>1. Init => Attenuation
  BY DEF Init, Attenuation, RightsFromEveryFrame, WithinRoot, Accepted
<1>2. TypeOK /\ Attenuation /\ [Next]_vars => Attenuation'
  <2> SUFFICES ASSUME TypeOK, Attenuation, [Next]_vars PROVE Attenuation'
    OBVIOUS
  <2>0. /\ input \in Calls /\ input' = input /\ body' = body
        /\ body \in Seq(Element) /\ Len(body) \in Nat
    <3>1. input \in Calls
      BY DEF TypeOK
    <3>2. input' = input
      BY DEF Next, Step, Terminated, vars, CheckIdentity, ExtendTag, CompareTag,
             DeriveNext, DerivationPassed, CompareRequest, CompareGarbage,
             CompareOperation, Return, Goto
    <3> QED  BY <3>1, <3>2, CallTypes DEF body
  <2>1. ASSUME NEW v \in {"rejected", "crashed"}, Return(v)
        PROVE  Attenuation'
    BY <2>1 DEF Return, Attenuation, RightsFromEveryFrame, WithinRoot, Accepted
  <2>2. ASSUME pc # "done", verdict' = verdict, pc' # "done"
        PROVE  /\ verdict' = "pending"
               /\ RightsFromEveryFrame' /\ WithinRoot'
    BY <2>2 DEF Attenuation, RightsFromEveryFrame, WithinRoot, Accepted
  <2>3. CASE CheckIdentity
    BY <2>1, <2>2, <2>3 DEF CheckIdentity, Goto, Attenuation
  <2>4. CASE ExtendTag
    BY <2>2, <2>4 DEF ExtendTag, Attenuation
  <2>5. CASE CompareTag
    <3>1. CASE Return("rejected")
      BY <3>1, <2>1
    <3>2. CASE Goto("derivation") /\ i' = 2
      BY <3>2, <2>0, <2>2, <2>5, RightsStart, RootStart
         DEF CompareTag, Goto, Attenuation
    <3> QED  BY <3>1, <3>2, <2>5 DEF CompareTag
  <2>6. CASE DeriveNext
    <3>1. CASE Return("rejected")
      BY <3>1, <2>1
    <3>2. CASE ~Return("rejected")
      <4>1. /\ CapabilitiesDerived(body[i], body[i - 1])
            /\ i' = i + 1 /\ pc' = pc /\ verdict' = verdict
        BY <3>2, <2>6, Zenon DEF DeriveNext
      <4>2. /\ pc = "derivation" /\ i <= Len(body) /\ i >= 2 /\ i \in Nat
            /\ RightsUpTo(body, i - 1) /\ RootUpTo(body, i - 1)
        BY <2>6, <2>0 DEF DeriveNext, Attenuation, TypeOK
      <4> DEFINE n == i - 1
      <4>3. n \in Nat /\ n >= 1 /\ n + 1 <= Len(body) /\ i = n + 1
        BY <4>2
      <4>4. RightsUpTo(body, n + 1) /\ RootUpTo(body, n + 1)
        <5> HIDE DEF n
        <5>1. RightsUpTo(body, n) /\ RootUpTo(body, n)
          BY <4>2 DEF n
        <5>2. CapabilitiesDerived(body[n + 1], body[n])
          BY <4>1, <4>3 DEF n
        <5> QED  BY <5>1, <5>2, <4>3, <2>0, RightsStep, RootStep
      <4>5. i' >= 2 /\ i' - 1 = n + 1
        BY <4>1, <4>2
      <4>6. RightsUpTo(body', i' - 1) /\ RootUpTo(body', i' - 1)
        <5> HIDE DEF n
        <5> QED  BY <4>4, <4>5, <2>0
      <4> QED  BY <4>1, <4>2, <4>5, <4>6, <2>2 DEF Attenuation
    <3> QED  BY <3>1, <3>2
  <2>7. CASE DerivationPassed
    <3>1. i - 1 = Len(body)
      BY <2>7, <2>0 DEF DerivationPassed, TypeOK
    <3>2. RightsUpTo(body', Len(body')) /\ RootUpTo(body', Len(body'))
      BY <3>1, <2>0, <2>7 DEF DerivationPassed, Attenuation
    <3> QED  BY <3>2, <2>2, <2>7 DEF DerivationPassed, Goto, Attenuation
  <2>8. CASE CompareRequest
    <3>1. CASE Return("rejected")
      BY <3>1, <2>1
    <3>2. CASE /\ Goto("operation")
               /\ GrantedBySome(body[Len(body)].capability,
                                body[Len(body) - 1].capabilities)
      <4>1. HasRequest' => GrantedBySome(input'.token.request.capability,
                                         body'[Len(body') - 1].capabilities)
        BY <3>2, <2>0, LastRequest DEF HasRequest
      <4>2. RightsUpTo(body', Len(body')) /\ RootUpTo(body', Len(body'))
        BY <2>0, <2>8 DEF CompareRequest, Attenuation
      <4> QED  BY <4>1, <4>2, <3>2, <2>2, <2>8 DEF CompareRequest, Goto, Attenuation
    <3> QED  BY <3>1, <3>2, <2>8 DEF CompareRequest
  <2>9. CASE CompareGarbage
    <3>1. CASE \E v \in {"rejected", "crashed"} : Return(v)
      BY <3>1, <2>1
    <3>2. CASE Goto("operation")
      <4>1. ~HasRequest'
        BY <2>0, <2>9, LastRequest DEF CompareGarbage, HasRequest, Request
      <4>2. RightsUpTo(body', Len(body')) /\ RootUpTo(body', Len(body'))
        BY <2>0, <2>9 DEF CompareGarbage, Attenuation
      <4> QED  BY <4>1, <4>2, <3>2, <2>2, <2>9 DEF CompareGarbage, Goto, Attenuation
    <3> QED  BY <3>1, <3>2, <2>9 DEF CompareGarbage
  <2>10. CASE CompareOperation
    <3>1. CASE \E v \in {"rejected", "crashed"} : Return(v)
      BY <3>1, <2>1
    <3>2. CASE /\ Return("accepted")
               /\ is_cap_bits_valid(input.token.request.capability.cap_bits,
                                    input.operation)
      <4>1. SUFFICES ASSUME HasRequest PROVE Attenuation'
        BY <3>2, <2>0 DEF Return, Attenuation, RightsFromEveryFrame, WithinRoot,
                          Accepted, HasRequest
      <4> DEFINE c == input.token.request.capability
      <4>2. /\ RightsUpTo(body, Len(body)) /\ RootUpTo(body, Len(body))
            /\ GrantedBySome(c, body[Len(body) - 1].capabilities)
        BY <2>10, <4>1 DEF CompareOperation, Attenuation
      <4>3. c \in CapabilityStructure /\ Len(body) > 1
        BY <4>1, <2>0, LastRequest DEF HasRequest
      <4>4. c.cap_bits \subseteq input.operation
        BY <3>2 DEF is_cap_bits_valid
      <4> HIDE DEF c
      <4>5. \A k \in 1 .. Len(body) - 1 : \E z \in DOMAIN body[k].capabilities :
              WithinRights(c, body[k].capabilities[z])
        BY <4>2, <4>3, <2>0, AcceptedRights
      <4>6. NeverShorter(body) => GrantedBySome(c, body[1].capabilities)
        BY <4>2, <4>3, <2>0, AcceptedRoot
      <4>7. RightsFromEveryFrame'
        BY <4>4, <4>5, <2>0 DEF RightsFromEveryFrame, c
      <4>8. WithinRoot'
        BY <4>6, <2>0 DEF WithinRoot, c
      <4> QED  BY <3>2, <4>7, <4>8 DEF Return, Attenuation
    <3> QED  BY <3>1, <3>2, <2>10 DEF CompareOperation
  <2>11. CASE UNCHANGED vars
    BY <2>11, <2>0 DEF vars, Attenuation, RightsFromEveryFrame, WithinRoot,
                       Accepted, HasRequest
  <2> QED
    BY <2>3, <2>4, <2>5, <2>6, <2>7, <2>8, <2>9, <2>10, <2>11
       DEF Next, Step, Terminated
<1> QED  BY <1>1, <1>2, TypeCorrect, PTL DEF Spec

(* An accepted request has no right that some frame of its token lacks.    *)
THEOREM RightsNeverGrow == Spec => []RightsFromEveryFrame
<1>1. Attenuation => RightsFromEveryFrame
  BY DEF Attenuation
<1> QED  BY <1>1, AttenuationHolds, PTL

(* With paths that never get shorter, an accepted request is granted by    *)
(* the root frame itself.                                                  *)
THEOREM StaysWithinRoot == Spec => []WithinRoot
<1>1. Attenuation => WithinRoot
  BY DEF Attenuation
<1> QED  BY <1>1, AttenuationHolds, PTL

-----------------------------------------------------------------------------
(***************************************************************************)
(* What each check establishes, and the decision of the whole.             *)
(***************************************************************************)
LEMMA SignedStart ==
  ASSUME NEW b \in Seq(Element)
  PROVE  SECRET = SignatureOf(SubSeq(b, 1, 0))
<1>1. SubSeq(b, 1, 0) = <<>>
  OBVIOUS
<1>2. body_to_string(<<>>) = <<>>
  BY DEF body_to_string
<1> QED  BY <1>1, <1>2 DEF SECRET, SignatureOf

(* One more element of the body goes into calculated_tag.                  *)
LEMMA SignedStep ==
  ASSUME NEW b \in Seq(Element), NEW n \in 1 .. Len(b)
  PROVE  compute_mac(element_to_string(b[n]), SignatureOf(SubSeq(b, 1, n - 1)))
           = SignatureOf(SubSeq(b, 1, n))
<1> DEFINE short == SubSeq(b, 1, n - 1)
           long  == SubSeq(b, 1, n)
<1>1. /\ short \in Seq(Element) /\ Len(short) = n - 1
      /\ long \in Seq(Element) /\ Len(long) = n
      /\ \A k \in 1 .. n - 1 : short[k] = b[k]
      /\ \A k \in 1 .. n : long[k] = b[k]
  OBVIOUS
<1> HIDE DEF short, long
<1>2. /\ body_to_string(short) \in Seq(ElementText)
      /\ Len(body_to_string(short)) = n - 1
      /\ \A k \in 1 .. n - 1 : body_to_string(short)[k] = element_to_string(b[k])
  BY <1>1, BodyTextType
<1>3. /\ body_to_string(long) \in Seq(ElementText)
      /\ Len(body_to_string(long)) = n
      /\ \A k \in 1 .. n : body_to_string(long)[k] = element_to_string(b[k])
  BY <1>1, BodyTextType
<1>4. element_to_string(b[n]) \in ElementText
  BY ElementTextType
<1>5. Append(body_to_string(short), element_to_string(b[n])) = body_to_string(long)
  <2>1. \E m : m = element_to_string(b[n])
    OBVIOUS
  <2>2. PICK m : m = element_to_string(b[n])
    BY <2>1
  <2> DEFINE s == body_to_string(short)
             l == body_to_string(long)
  <2>3. s \in Seq(ElementText) /\ Len(s) = n - 1 /\ m \in ElementText
    BY <1>2, <1>4, <2>2
  <2>4. \A k \in 1 .. n - 1 : l[k] = s[k]
    BY <1>2, <1>3
  <2>5. l[n] = m /\ l \in Seq(ElementText) /\ Len(l) = n
    BY <1>3, <2>2
  <2> HIDE DEF s, l
  <2>6. Append(s, m) = l
    BY <2>3, <2>4, <2>5
  <2> QED  BY <2>2, <2>6 DEF s, l
<1>6. SignatureOf(short) = [base |-> "secret", chain |-> body_to_string(short)]
  BY DEF SignatureOf
<1>7. compute_mac(element_to_string(b[n]), SignatureOf(short))
        = [base |-> "secret",
           chain |-> Append(body_to_string(short), element_to_string(b[n]))]
  <2>1. SignatureOf(short) \in Tag
    BY <1>2, <1>6 DEF Tag
  <2> QED  BY <1>4, <1>6, <2>1, ComputeMacEffect
<1>8. compute_mac(element_to_string(b[n]), SignatureOf(short)) = SignatureOf(long)
  BY <1>5, <1>7 DEF SignatureOf
<1> QED  BY <1>8 DEF short, long

(* The derivation loop looks at the constraints of one more frame.         *)
LEMMA ConstraintsStart ==
  ASSUME ~identity_constraint_checked
  PROVE  ConstraintsUpTo(body, 0)
BY DEF ConstraintsUpTo

LEMMA FirstOfMore ==
  ASSUME NEW b, NEW n \in Nat, n + 1 \in 1 .. Len(b) - 1,
         b[n + 1].constraints # <<>>
  PROVE  FirstConstrained(b, n + 1) <=> ~\E k \in 1 .. n : b[k].constraints # <<>>
BY DEF FirstConstrained

(* A token that every check has passed is bound to an identity.            *)
LEMMA TrustedIsBound ==
  ASSUME input \in Calls, Signed(input.token),
         id # NULL => is_valid_identity_token(input.token.tag, id),
         IdentityAccepted(body, id)
  PROVE  \A k \in 1 .. Len(body) - 1 :
           FirstConstrained(body, k) =>
             \A c \in DOMAIN body[k].constraints :
               body[k].constraints[c].function = "identity_constraint" =>
                 /\ id # NULL
                 /\ body[k].constraints[c].parameters = <<id.identity_token>>
                 /\ id.tag = IdSignatureOf(id.identity_token, SignatureOf(body))
<1> SUFFICES ASSUME NEW k \in 1 .. Len(body) - 1, FirstConstrained(body, k),
                    NEW c \in DOMAIN body[k].constraints,
                    body[k].constraints[c].function = "identity_constraint"
             PROVE  /\ id # NULL
                    /\ body[k].constraints[c].parameters = <<id.identity_token>>
                    /\ id.tag = IdSignatureOf(id.identity_token, SignatureOf(body))
  OBVIOUS
<1>1. body \in Seq(Element) /\ k \in 1 .. Len(body)
  BY CallTypes
<1>2. body[k].constraints \in Seq(Constraint)
  <2>1. body[k] \in Frame \cup Request
    BY <1>1 DEF Element
  <2>2. <<>> \in Seq(Constraint)
    OBVIOUS
  <2> QED  BY <2>1, <2>2 DEF Frame, Request
<1>3. body[k].constraints[c].parameters \in Seq(Principal)
  <2>1. body[k].constraints[c] \in Constraint
    BY <1>2
  <2> QED  BY <2>1 DEF Constraint
<1>4. /\ id # NULL
      /\ Len(body[k].constraints[c].parameters) = 1
      /\ id.identity_token = body[k].constraints[c].parameters[1]
  BY DEF IdentityAccepted, ConstraintsHold, is_valid_constraint
<1>5. body[k].constraints[c].parameters = <<id.identity_token>>
  BY <1>3, <1>4
<1>6. id.tag = IdSignatureOf(id.identity_token, input.token.tag)
  BY <1>4 DEF is_valid_identity_token, is_valid_id_signature
<1> QED  BY <1>4, <1>5, <1>6 DEF Signed, body

(* Each check, and each turn of a loop, establishes its part.              *)
LEMMA EstablishedStep ==
  ASSUME TypeOK, Established, [Next]_vars
  PROVE  Established'
<1>0. /\ input \in Calls /\ input' = input /\ body' = body /\ id' = id
      /\ body \in Seq(Element) /\ Len(body) \in Nat
  <2>1. input \in Calls
    BY DEF TypeOK
  <2>2. input' = input
    BY DEF Next, Step, Terminated, vars, CheckIdentity, ExtendTag, CompareTag,
           DeriveNext, DerivationPassed, CompareRequest, CompareGarbage,
           CompareOperation, Return, Goto
  <2> QED  BY <2>1, <2>2, CallTypes DEF body, id
<1>1. ASSUME NEW v \in {"rejected", "crashed"}, Return(v)
      PROVE  Established'
  BY <1>1 DEF Return, Established, BoundToIdentity, Accepted
<1>2. ASSUME pc # "done", verdict' = verdict, pc' # "done"
      PROVE  verdict' = "pending" /\ BoundToIdentity'
  BY <1>2 DEF Established, BoundToIdentity, Accepted
<1>3. CASE CheckIdentity
  <2>1. CASE Return("rejected")
    BY <2>1, <1>1
  <2>2. CASE ~Return("rejected")
    <3>1. /\ pc = "identity"
          /\ pc' = "signature" /\ i' = i
          /\ UNCHANGED <<calculated_tag, identity_constraint_checked, verdict>>
          /\ id # NULL => is_valid_identity_token(input.token.tag, id)
      BY <2>2, <1>3 DEF CheckIdentity, Goto
    <3>2. SignedUpTo(body, i - 1)' /\ ~identity_constraint_checked'
      BY <3>1, <1>0 DEF Established, SignedUpTo
    <3> QED  BY <3>1, <3>2, <1>0, <1>2 DEF Established
  <2> QED  BY <2>1, <2>2
<1>4. CASE ExtendTag
  <2>1. /\ pc = "signature" /\ i \in 1 .. Len(body)
        /\ UNCHANGED <<pc, identity_constraint_checked, verdict>>
        /\ i' - 1 = i
    BY <1>4, <1>0 DEF ExtendTag, TypeOK
  <2>2. calculated_tag' = SignatureOf(SubSeq(body, 1, i))
    <3>1. calculated_tag = SignatureOf(SubSeq(body, 1, i - 1))
      BY <2>1 DEF Established, SignedUpTo
    <3>2. calculated_tag' = compute_mac(element_to_string(body[i]), calculated_tag)
      BY <1>4 DEF ExtendTag
    <3> QED  BY <3>1, <3>2, <2>1, <1>0, SignedStep
  <2>3. SignedUpTo(body, i - 1)'
    BY <2>1, <2>2, <1>0 DEF SignedUpTo
  <2> QED  BY <2>1, <2>3, <1>0, <1>2 DEF Established
<1>5. CASE CompareTag
  <2>1. CASE Return("rejected")
    BY <2>1, <1>1
  <2>2. CASE ~Return("rejected")
    <3>1. /\ pc = "signature" /\ i = Len(body) + 1
          /\ calculated_tag = input.token.tag /\ body # <<>>
          /\ pc' = "derivation" /\ i' = 2
          /\ UNCHANGED <<calculated_tag, identity_constraint_checked, verdict>>
      BY <2>2, <1>5, <1>0 DEF CompareTag, Goto, TypeOK
    <3>2. SubSeq(body, 1, i - 1) = body
      BY <3>1, <1>0
    <3>3. Signed(input.token)'
      BY <3>1, <3>2, <1>0 DEF Established, SignedUpTo, Signed, body
    <3>4. DerivedUpTo(body, i - 1)'
      BY <3>1, <1>0 DEF DerivedUpTo
    <3>5. ConstraintsUpTo(body, i - 2)'
      BY <3>1, <1>0 DEF Established, ConstraintsUpTo
    <3> QED  BY <3>1, <3>3, <3>4, <3>5, <1>0, <1>2 DEF Established
  <2> QED  BY <2>1, <2>2
<1>6. CASE DeriveNext
  <2>1. CASE Return("rejected")
    BY <2>1, <1>1
  <2>2. CASE ~Return("rejected")
    <3> DEFINE n == i - 2
               checked == identity_constraint_checked
               due == ~checked /\ body[i - 1].constraints # <<>>
    <3>1. /\ CapabilitiesDerived(body[i], body[i - 1])
          /\ ~due \/ ConstraintsHold(body[i - 1], id)
          /\ identity_constraint_checked' = (checked \/ due)
          /\ i' = i + 1 /\ pc' = pc /\ verdict' = verdict
      BY <2>2, <1>6, Zenon DEF DeriveNext
    <3>2. /\ pc = "derivation" /\ i \in 2 .. Len(body)
          /\ DerivedUpTo(body, i - 1) /\ ConstraintsUpTo(body, n)
      BY <1>6, <1>0 DEF DeriveNext, Established, TypeOK
    <3>3. DerivedUpTo(body, i - 1)'
      BY <3>1, <3>2, <1>0 DEF DerivedUpTo
    <3>4. /\ n \in Nat /\ n + 1 \in 1 .. Len(body) - 1 /\ i - 1 = n + 1
          /\ i' - 2 = n + 1
      BY <3>1, <3>2, <1>0
    <3>5. checked <=> \E k \in 1 .. n : body[k].constraints # <<>>
      BY <3>2 DEF ConstraintsUpTo
    <3>6. identity_constraint_checked'
            <=> \E k \in 1 .. n + 1 : body[k].constraints # <<>>
      <4>1. identity_constraint_checked' <=> checked \/ body[n + 1].constraints # <<>>
        BY <3>1, <3>4
      <4> HIDE DEF n, checked
      <4>2. 1 .. n + 1 = 1 .. n \cup {n + 1}
        BY <3>4
      <4> QED  BY <3>5, <4>1, <4>2
    <3>7. ASSUME NEW k \in 1 .. n + 1, FirstConstrained(body, k)
          PROVE  ConstraintsHold(body[k], id)
      <4>1. CASE k <= n
        <5>1. k \in 1 .. n
          BY <3>4, <4>1
        <5> QED  BY <3>2, <3>7, <5>1 DEF ConstraintsUpTo
      <4>2. CASE k = n + 1
        <5>1. body[n + 1].constraints # <<>> /\ ~checked
          BY <3>4, <3>5, <3>7, <4>2 DEF FirstConstrained
        <5> QED  BY <3>1, <3>4, <4>2, <5>1
      <4> QED  BY <3>4, <4>1, <4>2
    <3>8. ConstraintsUpTo(body, i - 2)'
      <4>1. (i - 2)' = n + 1
        BY <3>4
      <4> HIDE DEF n
      <4> QED  BY <3>6, <3>7, <4>1, <1>0 DEF ConstraintsUpTo
    <3>9. i' >= 2
      BY <3>1, <3>2
    <3>10. /\ Signed(input.token)' /\ body' # <<>>
           /\ id' # NULL => is_valid_identity_token(input'.token.tag, id')
      BY <3>2, <1>0 DEF Established
    <3> HIDE DEF n, checked
    <3> QED  BY <3>1, <3>2, <3>3, <3>8, <3>9, <3>10, <1>2 DEF Established
  <2> QED  BY <2>1, <2>2
<1>7. CASE DerivationPassed
  <2>1. /\ pc = "derivation" /\ i = Len(body) + 1 /\ pc' = "request"
        /\ UNCHANGED <<i, calculated_tag, identity_constraint_checked, verdict>>
        /\ DerivedUpTo(body, i - 1) /\ ConstraintsUpTo(body, i - 2)
    BY <1>7, <1>0 DEF DerivationPassed, Goto, TypeOK, Established
  <2>2. i - 1 = Len(body) /\ i - 2 = Len(body) - 1
    BY <2>1, <1>0
  <2>3. Derived(body)
    BY <2>1, <2>2 DEF DerivedUpTo, Derived
  <2>4. IdentityAccepted(body, id)
    BY <2>1, <2>2 DEF ConstraintsUpTo, IdentityAccepted
  <2> QED  BY <2>1, <2>3, <2>4, <1>0, <1>2 DEF Established
<1>8. ASSUME CompareRequest \/ CompareGarbage, Goto("operation"), i' = i,
             HasRequest => GrantedBySome(body[Len(body)].capability,
                                         body[Len(body) - 1].capabilities)
      PROVE  Established'
  <2>1. /\ pc = "request" /\ pc' = "operation"
        /\ UNCHANGED <<calculated_tag, identity_constraint_checked, verdict>>
    BY <1>8 DEF CompareRequest, CompareGarbage, Goto
  <2>2. HasRequest' <=> HasRequest
    BY <1>0 DEF HasRequest
  <2> QED  BY <2>1, <2>2, <1>8, <1>0, <1>2 DEF Established
<1>9. CASE CompareRequest
  BY <1>1, <1>8, <1>9 DEF CompareRequest
<1>10. CASE CompareGarbage
  <2>1. ~HasRequest
    BY <1>10, <1>0, LastRequest DEF CompareGarbage, HasRequest, Request
  <2> QED  BY <1>1, <1>8, <1>10, <2>1 DEF CompareGarbage
<1>11. CASE CompareOperation
  <2>1. CASE \E v \in {"rejected", "crashed"} : Return(v)
    BY <2>1, <1>1
  <2>2. CASE Return("accepted")
    <3>1. /\ Signed(input.token) /\ IdentityAccepted(body, id)
          /\ id # NULL => is_valid_identity_token(input.token.tag, id)
      BY <1>11 DEF CompareOperation, Established
    <3>2. BoundToIdentity'
      BY <3>1, <1>0, TrustedIsBound DEF BoundToIdentity
    <3> QED  BY <2>2, <3>2 DEF Return, Established
  <2> QED  BY <2>1, <2>2, <1>11 DEF CompareOperation
<1>12. CASE UNCHANGED vars
  <2>1. UNCHANGED <<pc, i, calculated_tag, identity_constraint_checked, verdict>>
    BY <1>12 DEF vars
  <2> QED
    BY <2>1, <1>0 DEF Established, SignedUpTo, DerivedUpTo, ConstraintsUpTo,
                      HasRequest, BoundToIdentity, Accepted
<1> QED
  BY <1>3, <1>4, <1>5, <1>6, <1>7, <1>9, <1>10, <1>11, <1>12
     DEF Next, Step, Terminated

(* The loop invariants hold for every call: what the two loops compute     *)
(* element by element is what is said of the whole body.                   *)
THEOREM EstablishedHolds == Spec => []Established
<1>1. Init => Established
  <2> SUFFICES ASSUME Init PROVE Established
    OBVIOUS
  <2>1. input \in Calls /\ body \in Seq(Element)
    BY InputAssumption, CallTypes DEF Init
  <2>2. SignedUpTo(body, i - 1)
    BY <2>1, SignedStart DEF Init, SignedUpTo
  <2> QED  BY <2>2 DEF Init, Established, BoundToIdentity, Accepted
<1>2. TypeOK /\ Established /\ [Next]_vars => Established'
  BY EstablishedStep
<1> QED  BY <1>1, <1>2, TypeCorrect, PTL DEF Spec

(* No request is accepted under a constraint on the identity without an    *)
(* identity token of that identity, signed for exactly this token.         *)
THEOREM BoundToIdentityHolds == Spec => []BoundToIdentity
<1>1. Established => BoundToIdentity
  BY DEF Established
<1> QED  BY <1>1, EstablishedHolds, PTL

-----------------------------------------------------------------------------
(***************************************************************************)
(* The sequence of checks implements the decision.                         *)
(***************************************************************************)
LEMMA NoRequestInFrames ==
  ASSUME input \in Calls, body # <<>>, body[Len(body)].kind # "request"
  PROVE  input.token.request = NULL
BY LastRequest DEF Request

LEMMA OneStepBack ==
  ASSUME TypeOK, Established, pc = "derivation", i <= Len(body),
         ~identity_constraint_checked, body[i - 1].constraints # <<>>
  PROVE  FirstConstrained(body, i - 1)
<1> DEFINE n == i - 2
<1>1. input \in Calls /\ Len(body) \in Nat
  BY CallTypes DEF TypeOK
<1>2. i \in 2 .. Len(body) /\ ConstraintsUpTo(body, n)
  BY <1>1 DEF TypeOK, Established
<1>3. n \in Nat /\ n + 1 \in 1 .. Len(body) - 1 /\ i - 1 = n + 1
  BY <1>1, <1>2
<1>4. ~\E k \in 1 .. n : body[k].constraints # <<>>
  BY <1>2 DEF ConstraintsUpTo
<1>5. body[n + 1].constraints # <<>>
  BY <1>3
<1> HIDE DEF n
<1>6. FirstConstrained(body, n + 1)
  BY <1>3, <1>4, <1>5, FirstOfMore
<1> QED  BY <1>3, <1>6

(* A step of the call leaves it unanswered or gives a right answer.        *)
LEMMA AnswerStep ==
  ASSUME TypeOK, Established, [Next]_vars
  PROVE  \/ verdict = "pending" /\ verdict' \in Verdicts(input) /\ input' = input
         \/ UNCHANGED <<input, verdict>>
<1> DEFINE Decided ==
             verdict = "pending" /\ verdict' \in Verdicts(input) /\ input' = input
<1>0. input \in Calls /\ body \in Seq(Element) /\ Len(body) \in Nat
  BY CallTypes DEF TypeOK
<1>1. ASSUME NEW v, Return(v), pc # "done", v \in Verdicts(input)
      PROVE  Decided
  BY <1>1 DEF Return, Established
<1>2. ASSUME pc # "done", Return("rejected"), ~Trusted(input)
      PROVE  Decided
  BY <1>1, <1>2 DEF Verdicts
<1>3. CASE CheckIdentity
  <2>1. CASE Return("rejected")
    <3>1. CASE id # NULL /\ ~is_valid_identity_token(input.token.tag, id)
      BY <1>2, <1>3, <2>1, <3>1 DEF CheckIdentity, Trusted, id
    <3>2. CASE Goto("signature")
      BY <3>2 DEF Goto
    <3> QED  BY <1>3, <3>1, <3>2 DEF CheckIdentity
  <2>2. CASE Goto("signature")
    BY <2>2 DEF Goto
  <2> QED  BY <1>3, <2>1, <2>2 DEF CheckIdentity
<1>4. CASE ExtendTag
  BY <1>4 DEF ExtendTag
<1>5. CASE CompareTag
  <2>1. CASE calculated_tag # input.token.tag \/ body = <<>>
    <3>1. pc = "signature" /\ i = Len(body) + 1 /\ Return("rejected")
      BY <1>5, <2>1, <1>0 DEF CompareTag, TypeOK
    <3>2. SubSeq(body, 1, i - 1) = body
      BY <3>1, <1>0
    <3>3. calculated_tag = SignatureOf(body)
      BY <3>1, <3>2 DEF Established, SignedUpTo
    <3>4. ~Trusted(input)
      BY <2>1, <3>3 DEF Trusted, Signed, body
    <3> QED  BY <1>2, <3>1, <3>4
  <2>2. CASE Goto("derivation")
    BY <2>2 DEF Goto
  <2> QED  BY <1>5, <2>1, <2>2 DEF CompareTag
<1>6. CASE DeriveNext
  <2>1. CASE ~CapabilitiesDerived(body[i], body[i - 1])
    <3>1. Return("rejected") /\ pc = "derivation" /\ i \in 2 .. Len(body)
      BY <1>6, <2>1, <1>0 DEF DeriveNext, Established, TypeOK
    <3>2. ~Derived(body)
      BY <2>1, <3>1 DEF Derived
    <3> QED  BY <1>2, <3>1, <3>2 DEF Trusted, body
  <2>2. CASE /\ ~identity_constraint_checked /\ body[i - 1].constraints # <<>>
             /\ ~ConstraintsHold(body[i - 1], id)
    <3>1. Return("rejected") /\ pc = "derivation" /\ i <= Len(body)
      BY <1>6, <2>2 DEF DeriveNext
    <3>2. FirstConstrained(body, i - 1)
      BY <2>2, <3>1, OneStepBack
    <3>3. ~IdentityAccepted(body, id)
      BY <2>2, <3>2 DEF IdentityAccepted, FirstConstrained
    <3> QED  BY <1>2, <3>1, <3>3 DEF Trusted, body, id
  <2>3. CASE UNCHANGED <<input, pc, calculated_tag, verdict>>
    BY <2>3
  <2> QED  BY <1>6, <2>1, <2>2, <2>3, Zenon DEF DeriveNext
<1>7. CASE DerivationPassed
  BY <1>7 DEF DerivationPassed, Goto
<1>8. CASE CompareRequest
  <2>1. CASE ~GrantedBySome(body[Len(body)].capability,
                            body[Len(body) - 1].capabilities)
    <3>1. Return("rejected") /\ pc = "request"
      BY <1>8, <2>1 DEF CompareRequest
    <3>2. input.token.request # NULL
      <4>1. Len(body) \in DOMAIN body /\ body[Len(body)].kind = "request"
        BY <1>8, <1>0 DEF CompareRequest
      <4> QED  BY <4>1, <1>0, CallTypes DEF RequestAtEnd
    <3>3. ~Granted(input) /\ Len(body) # 1
      BY <1>8, <2>1, <1>0 DEF CompareRequest, Granted, body
    <3>4. "rejected" \in Verdicts(input)
      BY <3>2, <3>3 DEF Verdicts, body
    <3> QED  BY <1>1, <3>1, <3>4
  <2>2. CASE Goto("operation")
    BY <2>2 DEF Goto
  <2> QED  BY <1>8, <2>1, <2>2 DEF CompareRequest
<1>9. CASE CompareGarbage
  <2>1. CASE Goto("operation")
    BY <2>1 DEF Goto
  <2>2. ASSUME NEW v \in {"rejected", "crashed"}, Return(v)
        PROVE  Decided
    <3>1. pc = "request" /\ body # <<>>
      BY <1>9 DEF CompareGarbage, Established
    <3>2. Len(body) = 1 \/ input.token.request = NULL
      BY <1>9, <3>1, <1>0, NoRequestInFrames DEF CompareGarbage
    <3>3. Trusted(input) => v \in Verdicts(input)
      BY <3>2 DEF Verdicts, body
    <3>4. Trusted(input)
      BY <3>1 DEF Established, Trusted, body, id
    <3> QED  BY <1>1, <2>2, <3>1, <3>3, <3>4
  <2> QED  BY <1>9, <2>1, <2>2 DEF CompareGarbage
<1>10. CASE CompareOperation
  <2>1. pc = "operation" /\ Trusted(input)
    BY <1>10 DEF CompareOperation, Established, Trusted, body, id
  <2>2. CASE input.token.request = NULL
    BY <1>1, <1>10, <2>1, <2>2 DEF CompareOperation, Verdicts
  <2>3. CASE input.token.request # NULL
    <3> DEFINE ok == is_cap_bits_valid(input.token.request.capability.cap_bits,
                                       input.operation)
    <3>1. Return(IF ok THEN "accepted" ELSE "rejected")
      BY <1>10, <2>3 DEF CompareOperation
    <3>2. (IF ok THEN "accepted" ELSE "rejected") \in Verdicts(input)
      <4>1. CASE Len(body) = 1
        BY <2>1, <2>3, <4>1 DEF Verdicts, body
      <4>2. CASE Len(body) # 1
        <5>1. Len(body) > 1
          <6>1. body # <<>>
            BY <2>1 DEF Trusted, body
          <6>2. \A s \in Seq(Element) : Len(s) = 0 => s = <<>>
            OBVIOUS
          <6>3. Len(body) # 0
            BY <6>1, <6>2, <1>0, Zenon
          <6>4. \A n \in Nat : n # 0 /\ n # 1 => n > 1
            OBVIOUS
          <6> QED  BY <4>2, <6>3, <6>4, <1>0, Zenon
        <5>2. GrantedBySome(body[Len(body)].capability,
                            body[Len(body) - 1].capabilities)
          BY <2>1, <2>3, <5>1 DEF Established, HasRequest
        <5>3. input.token.request = body[Len(body)]
          BY <2>3, <1>0, LastRequest
        <5>4. ok <=> Granted(input)
          BY <5>2, <5>3 DEF Granted, body
        <5> HIDE DEF ok
        <5> QED  BY <2>1, <2>3, <4>2, <5>4 DEF Verdicts, body
      <4> QED  BY <4>1, <4>2
    <3> QED  BY <1>1, <2>1, <3>1, <3>2
  <2> QED  BY <2>2, <2>3
<1>11. CASE UNCHANGED vars
  BY <1>11 DEF vars
<1> QED
  BY <1>3, <1>4, <1>5, <1>6, <1>7, <1>8, <1>9, <1>10, <1>11
     DEF Next, Step, Terminated

(* Every call that ends ends with an answer that is right for what it was  *)
(* given, and no call answers twice: the program refines Authorization.    *)
THEOREM ChecksDecide == Spec => Auth!Safety
<1>1. Init => Auth!Init
  BY InputAssumption DEF Init, Auth!Init
<1>2. TypeOK /\ Established /\ [Next]_vars => [Auth!Decide]_Auth!authVars
  BY AnswerStep DEF Auth!Decide, Auth!authVars
<1> QED
  BY <1>1, <1>2, TypeCorrect, EstablishedHolds, PTL DEF Spec, Auth!Safety
=============================================================================
