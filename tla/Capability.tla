----------------------------- MODULE Capability -----------------------------
(***************************************************************************)
(* The vocabulary of a capability token: paths, rights, capabilities,      *)
(* constraints and the elements of a token's body, with the comparisons    *)
(* that caplets.cpp and utilities.cpp make between them.  A path is the    *)
(* vector util::splitString(path, "/") makes of it; the bits of a          *)
(* std::bitset<3> are the set of the positions that are one (0 read,       *)
(* 1 write, 2 handler).                                                    *)
(***************************************************************************)
EXTENDS Integers, Sequences

CONSTANTS
  Component,   \* the names a path is made of, "*" excluded
  Principal,   \* the strings used as identity tokens and as parameters
  NULL         \* a null pointer

ASSUME StarIsNoComponent == "*" \notin Component

Star == "*"
Path == Seq(Component \cup {Star})

Bits == SUBSET (0 .. 2)
CapabilityType == {"device_cap", "user_cap", "owner_cap"}

CapabilityStructure ==
  [resource : Path, type : CapabilityType, cap_bits : Bits]

FunctionName == {"identity_constraint", "expiration_time", "other"}
Constraint == [function : FunctionName, parameters : Seq(Principal)]

(***************************************************************************)
(* The elements of CapabilityToken::body.  A Request is a Frame whose      *)
(* inherited vectors stay empty and that carries one capability of its     *)
(* own; its handler name and value are payload that no check reads.        *)
(***************************************************************************)
Frame ==
  [kind : {"frame"},
   capabilities : Seq(CapabilityStructure),
   constraints  : Seq(Constraint)]

Request ==
  [kind : {"request"},
   capabilities : {<<>>},
   constraints  : {<<>>},
   capability   : CapabilityStructure]

Element == Frame \cup Request

(* CapabilityToken::request points to the last element of the body, and no *)
(* other element is a request; a null pointer goes with frames only.       *)
RequestAtEnd(body, request) ==
  /\ request # NULL => body # <<>> /\ request = body[Len(body)]
  /\ \A i \in DOMAIN body :
       body[i].kind = "request" => i = Len(body) /\ request # NULL

-----------------------------------------------------------------------------
(***************************************************************************)
(* Comparisons.                                                            *)
(***************************************************************************)

(* The loop compares the components both paths have; a "*" of the granting *)
(* path matches any component.  Nothing is asked of a longer or a shorter  *)
(* tail.                                                                   *)
is_path_subset_of_path(part, full) ==
  \A i \in DOMAIN part :
    (i \in DOMAIN full /\ full[i] # Star) => part[i] = full[i]

(* Mutant of is_cap_bits_valid: (part & full) is compared with zero.       *)
AnyBitShared(part, full) == part \cap full # {}

is_cap_bits_valid(part, full) == part \cap full = part

is_cap_subset_of_cap(part, full) ==
  /\ part.type = full.type
  /\ is_cap_bits_valid(part.cap_bits, full.cap_bits)

(* One capability is granted by another: the two conditions that the       *)
(* derivation check and the request check both make.                       *)
GrantedBy(part, full) ==
  /\ is_path_subset_of_path(part.resource, full.resource)
  /\ is_cap_subset_of_cap(part, full)

(* Some capability of the vector caps grants c. *)
GrantedBySome(c, caps) == \E z \in DOMAIN caps : GrantedBy(c, caps[z])

(* Mutant of CapabilitiesDerived: valid_cap is not reset for each j.       *)
FirstDerived(less, more) ==
  less.capabilities # <<>> =>
    GrantedBySome(less.capabilities[1], more.capabilities)

(* Every capability of the less permissive element is granted by one of    *)
(* the more permissive element before it.                                  *)
CapabilitiesDerived(less, more) ==
  \A j \in DOMAIN less.capabilities :
    GrantedBySome(less.capabilities[j], more.capabilities)

(* Only the identity constraint is decided; an expiration time, and any    *)
(* function the code does not know, is accepted.                           *)
is_valid_constraint(c, id) ==
  c.function = "identity_constraint" =>
    /\ id # NULL
    /\ Len(c.parameters) = 1
    /\ id.identity_token = c.parameters[1]

ConstraintsHold(element, id) ==
  \A k \in DOMAIN element.constraints :
    is_valid_constraint(element.constraints[k], id)
=============================================================================
