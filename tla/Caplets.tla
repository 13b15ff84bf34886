------------------------------- MODULE Caplets ------------------------------
(***************************************************************************)
(* The parts together, as the programs of the repository use them: users   *)
(* make capability tokens and identity tokens and hand out their texts; a  *)
(* server reads, for one question after the other, the text of a token     *)
(* and perhaps that of an identity token into new objects (the loop of     *)
(* test_requests) and calls is_valid_request_cspot, while users go on.     *)
(***************************************************************************)
EXTENDS Decision

CONSTANTS
  User, Server,                                  \* the programs
  NewFrame, PlainText, MaxFrames, MaxTexts,      \* of CapabilityToken
  MaxMessages, MaxIdTexts,                       \* of IdentityTokens
  Operation                                      \* the operations asked for

ASSUME CapletsAssumption ==
  /\ Server \notin User
  /\ NewFrame \subseteq Frame
  /\ PlainText \subseteq Seq(ElementText)
  /\ "" \notin Principal
  /\ NULL \notin Principal \cup {""} \cup [identity_token : Principal \cup {""}]
  /\ MaxFrames \in Nat /\ MaxTexts \in Nat
  /\ MaxMessages \in Nat /\ MaxIdTexts \in Nat
  /\ Operation \subseteq Bits

VARIABLES
  token, parsing, crashed, wire, clean, genuine, attested,
  identity, id_wire, stage, issued, composed,
  input, pc, i, calculated_tag, identity_constraint_checked, verdict

Program == User \cup {Server}

T == INSTANCE CapabilityToken WITH Holder <- Program, NewRequest <- {}
I == INSTANCE IdentityTokens WITH Party <- Program, RequestTag <- {}
S == INSTANCE RequestCheck WITH Inputs <- {}

tokenVars    == <<token, parsing, crashed, wire, clean, genuine, attested>>
identityVars == <<identity, id_wire, stage, issued, composed>>
checkVars    ==
  <<input, pc, i, calculated_tag, identity_constraint_checked, verdict>>

vars == <<tokenVars, identityVars, checkVars>>

NoCall == [token |-> T!EmptyToken, id |-> NULL, operation |-> {}]

Init ==
  /\ T!Init
  /\ I!Init
  /\ input = NoCall
  /\ pc = "done"
  /\ i = 1
  /\ calculated_tag = SECRET
  /\ identity_constraint_checked = FALSE
  /\ verdict = "none"

-----------------------------------------------------------------------------
(* Capability tokens: what a user does, and what may happen to a text. *)
UserToken(u) == T!HolderNext(u) /\ UNCHANGED <<identityVars, checkVars>>

AlterToken == T!AlterText /\ UNCHANGED <<identityVars, checkVars>>

(* Identity tokens: the calls in the order of main, the request tag being  *)
(* the tag of the capability token that the user has at that moment.       *)
UserIdentity(u) ==
  /\ \/ I!CreateInitialToken(u)
     \/ stage[u] = "initial" /\ \E name \in Principal : I!AddIdentityToken(u, name)
     \/ T!Idle(u) /\ I!AddRequestTag(u, token[u].tag)
  /\ UNCHANGED <<tokenVars, checkVars>>

AlterIdentity == I!AlterIdentity /\ UNCHANGED <<tokenVars, checkVars>>

(* The server between two calls: it reads a token, then an identity. *)
Serving == verdict = "none" /\ T!Idle(Server)

ReadToken ==
  /\ verdict = "none"
  /\ \/ token[Server] = T!EmptyToken /\ \E t \in wire : T!FromString(Server, t)
     \/ T!PushFrame(Server)
  /\ UNCHANGED <<identityVars, checkVars>>

ReadIdentity ==
  /\ Serving
  /\ token[Server] # T!EmptyToken
  /\ identity[Server] = I!EmptyIdentity
  /\ \E t \in id_wire : I!ReadIdentity(Server, t)
  /\ UNCHANGED <<tokenVars, checkVars>>

(* is_valid_request_cspot(&id_token, operation), or with a null pointer.   *)
Call(id, operation) ==
  /\ Serving
  /\ token[Server] # T!EmptyToken
  /\ input' = [token |-> token[Server], id |-> id, operation |-> operation]
  /\ pc' = "identity"
  /\ i' = 1
  /\ calculated_tag' = SECRET
  /\ identity_constraint_checked' = FALSE
  /\ verdict' = "pending"
  /\ UNCHANGED <<tokenVars, identityVars>>

CheckStep == S!Step /\ UNCHANGED <<tokenVars, identityVars>>

(* The objects are destroyed at the end of the loop's body. *)
NextQuestion ==
  /\ verdict \in {"accepted", "rejected"}
  /\ T!NewToken(Server)
  /\ I!NewIdentity(Server)
  /\ input' = NoCall
  /\ verdict' = "none"
  /\ i' = 1
  /\ calculated_tag' = SECRET
  /\ identity_constraint_checked' = FALSE
  /\ UNCHANGED pc

Next ==
  \/ \E u \in User : UserToken(u) \/ UserIdentity(u)
  \/ AlterToken \/ AlterIdentity
  \/ ReadToken \/ ReadIdentity
  \/ \E id \in {NULL, identity[Server]}, operation \in Operation :
       Call(id, operation)
  \/ CheckStep
  \/ NextQuestion

(* A call runs to its end. *)
Spec == Init /\ [][Next]_vars /\ WF_vars(CheckStep)

-----------------------------------------------------------------------------
(***************************************************************************)
(* Properties.                                                             *)
(***************************************************************************)

(* The names put behind a body, as the chains of identity tokens tell. *)
Vouched ==
  {[name |-> c[2].name, body |-> c[3].tag.chain] :
     c \in {d \in composed : Len(d) = 3 /\ d[3].kind = "request_tag"
                              /\ d[3].tag.base = "secret"}}

A == INSTANCE Access WITH
       chains   <- attested,
       vouched  <- Vouched,
       question <- [body      |-> input.token.body,
                    name      |-> IF input.id = NULL THEN NULL
                                  ELSE input.id.identity_token,
                    operation |-> input.operation],
       answer   <- verdict

(* The programs together, with their texts and codes, implement the        *)
(* service that remembers: no altered, mixed or reread text makes the      *)
(* server accept a body that was not put together element by element, or a *)
(* name that was not put behind that very body; and each call is answered. *)
ImplementsAccess == A!Spec

(* The identity given was made for the token given, by the documented      *)
(* calls, or none was given.                                               *)
Honest ==
  /\ clean[Server]
  /\ input.id # NULL =>
       stage[Server] = "presented" /\ input.id.request_tag = input.token.tag

(* A question about unaltered texts is rejected only for what the frames   *)
(* and the request say, never for how the texts came about.                *)
HonestRejectedForCause ==
  verdict = "rejected" /\ Honest =>
    LET body == input.token.body
    IN  \/ ~Derived(body)
        \/ ~IdentityAccepted(body, input.id)
        \/ input.token.request = NULL
        \/ Len(body) = 1
        \/ ~Granted(input)

(***************************************************************************)
(* Why the two hold.                                                       *)
(***************************************************************************)

(* What the server has read before it calls: a token with an element, and  *)
(* an identity that verifies if the documented calls made it.              *)
ServerReads ==
  /\ T!Idle(Server) => token[Server] = T!EmptyToken \/ token[Server].body # <<>>
  /\ stage[Server] = "presented" =>
       is_valid_identity_token(identity[Server].request_tag, identity[Server])

(* While a call runs, and until the next question, what it was given is    *)
(* what the server has read, its loops keep what they have established,    *)
(* and its answer is right.                                                *)
Serves ==
  IF verdict = "none" THEN pc = "done"
  ELSE /\ T!Idle(Server) /\ token[Server] # T!EmptyToken
       /\ input.token = token[Server]
       /\ input.id \in {NULL, identity[Server]}
       /\ S!TypeOK /\ S!Established
       /\ verdict # "pending" => verdict \in Verdicts(input)
=============================================================================
