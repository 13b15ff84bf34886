--------------------------- MODULE MCRequestCheck ---------------------------
(* Calls of is_valid_request_cspot for TLC. *)
EXTENDS RequestCheck

Device(path, bits) ==
  [resource |-> path, type |-> "device_cap", cap_bits |-> bits]
User(path, bits) == [Device(path, bits) EXCEPT !.type = "user_cap"]

Only(name) ==
  [function |-> "identity_constraint", parameters |-> <<name>>]
OnlyBoth == [function |-> "identity_constraint",
             parameters |-> <<"alice", "bob">>]
Expires == [function |-> "expiration_time", parameters |-> <<"noon">>]

Give(capabilities, constraints) ==
  [kind |-> "frame", capabilities |-> capabilities,
   constraints |-> constraints]

Ask(path, bits) ==
  [kind |-> "request", capabilities |-> <<>>, constraints |-> <<>>,
   capability |-> Device(path, bits)]

(* Paths of one to three names that agree, differ and match by "*"; bits   *)
(* that shrink and that are incomparable; both types in one frame; frames  *)
(* constrained once, twice, by two names that nobody has both of, with a   *)
(* wrong number of parameters, and by what is not checked.                 *)
MCFrames ==
  { Give(<<Device(<<"home", "*">>, {0, 1, 2})>>, <<>>),
    Give(<<Device(<<"home", "*">>, {0, 1})>>, <<Only("alice"), Expires>>),
    Give(<<Device(<<"home", "log">>, {0, 2}),
           Device(<<"log", "day">>, {0, 1})>>, <<>>),
    Give(<<User(<<"home">>, {0, 1, 2}),
           Device(<<"home", "log", "day">>, {0, 1})>>, <<Expires>>),
    Give(<<Device(<<"home">>, {0, 1})>>, <<Only("bob")>>),
    Give(<<Device(<<"home", "log">>, {0, 1})>>,
         <<Only("alice"), Only("bob")>>),
    Give(<<Device(<<"home">>, {0, 1, 2})>>, <<OnlyBoth>>),
    Give(<<Device(<<"log">>, {0, 1, 2})>>, <<>>) }

MCRequests ==
  { Ask(<<"home", "log", "day">>, {0}), Ask(<<"home", "log">>, {0, 2}),
    Ask(<<"log", "day">>, {0}) }

(* Up to three frames, with and without a request behind them.             *)
Bodies ==
  LET Frames == UNION {[1 .. n -> MCFrames] : n \in 0 .. 3}
  IN  Frames \cup {Append(f, r) : f \in Frames, r \in MCRequests}

Last(b) == b[Len(b)]

(* A body with the right tag, or with the tag it had before its last       *)
(* element was added.                                                      *)
TokenOf(b, signed) ==
  [body    |-> b,
   tag     |-> SignatureOf(IF signed THEN b ELSE SubSeq(b, 1, Len(b) - 1)),
   request |-> IF b # <<>> /\ Last(b).kind = "request" THEN Last(b) ELSE NULL]

MCTokens == {TokenOf(b, signed) : b \in Bodies, signed \in BOOLEAN}

(* No identity token; one signed for the tag presented, of two people;     *)
(* one signed for another tag; one whose name was exchanged after signing; *)
(* one to which the request tag was never added.                           *)
Signing(name, signed, tag) ==
  [identity_token |-> name, request_tag |-> tag,
   tag |-> IdSignatureOf(signed, tag)]

MCIds(tag) ==
  << NULL, Signing("alice", "alice", tag), Signing("bob", "bob", tag),
     Signing("alice", "alice", OtherTag), Signing("alice", "bob", tag),
     [identity_token |-> "alice", request_tag |-> EmptyTag,
      tag |-> [base |-> "secret",
               chain |-> <<IDENTITY_TOKEN_DUMMY_BODY,
                           IdentityMessage("alice")>>]] >>

MCInputs ==
  {[token |-> t, id |-> MCIds(t.tag)[n], operation |-> bits] :
     t \in MCTokens, n \in 1 .. 6, bits \in {{0}, {0, 1, 2}}}
=============================================================================
