# A verification of the caplets token library

The library (`src/include`, `src/src`) implements capability tokens. A token is
a chain of *frames*, each granting capabilities over paths and imposing
constraints, that may end with a *request*. The tag of a token is a chain of
message authentication codes that starts from a shared `SECRET`. Whoever holds
a token may add a frame that narrows it, and a server decides with
`is_valid_request_cspot` whether the request at the end is granted.

This directory models that life in TLA+, checks it with TLC and proves the main
results with TLAPS for every value of the constants.

## 1. The system's parts

| part | state | operations | hard behaviour | what makes it correct | status |
|---|---|---|---|---|---|
| comparisons (`utilities.cpp` 81-122) | none | `is_path_subset_of_path`, `is_cap_subset_of_cap`, `is_cap_bits_valid` | the path comparison looks at the common length only, so it is not transitive | a grant narrows from frame to frame | modelled |
| splitting, trimming (`utilities.cpp` 16-55, `caplets.cpp` 155-187) | the iterators of a call | `splitString`, `ltrim`, `rtrim`, `trim` | a last empty piece is dropped; `npos` wraps around; pieces may hold a part of the separator | pieces in order, none lost, cut where they were joined | modelled |
| texts (`caplets.cpp` 9-120, 132-216) | none | `to_string` and `from_string` of each part | bits go through a decimal number; empty pieces; the third type; undefined reads | reading gives back what was printed | modelled |
| codes (`utilities.cpp` 60-74) | none | `compute_mac` | | the codes of different messages or keys differ (assumed) | modelled |
| `CapabilityToken` (`caplets.cpp` 132-259, `caplets.h` 131-157) | `body`, `tag`, `request` | `add_frame`, `from_string`, `to_string`, `set_request`, `set_body_frames`, `update_tag`, `is_valid_signature` | the tag is kept incrementally by several programs in turn and recomputed in one pass by another; objects are used again; texts are altered on the way | both tags agree; what verifies was put there piece by piece | modelled |
| validation (`caplets.cpp` 264-414) | locals of the calls | `is_valid_request_cspot`, `is_valid_request`, `is_valid_token`, `is_valid_derivation`, `is_valid_constraint`, `is_valid_identity_token` | neighbours only are compared; one flag ends the constraint check; three functions read the last element in three ways | an accepted request has no right that some frame lacks, and its identity is the one asked for | modelled |
| `IdentityToken` (`caplets.cpp` 416-478) | `identity_token`, `request_tag`, `tag` | `create_initial_token`, `add_identity_token`, `add_request_tag`, `from_string`, `is_valid_signature` | two methods store what they compute and one does not; `from_string` clears nothing | what verifies went through three steps with its very name and request tag | modelled |
| the programs together (`main.cpp` 8-19, `tests.cpp` 238-278) | objects, texts, one call | users hand out texts, a server reads two of them and validates | token and identity of one call come from different holders, moments, or altered copies | only what was put together and vouched for is accepted; each call is answered | modelled |
| `secure_channel/` | locals of three `main`s | an OpenSSL envelope sealed and opened again, a Botan PKCS#11 and RSA example, a ZeroMQ pair | | | not modelled: straight-line calls of other libraries that do not use this one |
| `tests.cpp`, `run_tests.cpp`, `main.cpp`, `examples/` | none | straight-line calls | | | not modelled for themselves: straight-line calls, read as the documentation of what callers do and expect; the loop of `test_requests` and the calls of `main` are in `Caplets` |
| build files | | | | | not modelled |

How they interact: programs exchange *texts* only. A holder reads a text into a
`CapabilityToken`, adds to it, prints it again. An `IdentityToken` is bound to
one capability token by the tag of that token (`add_request_tag`). The server
reads both, and its one call of `is_valid_request_cspot` uses the chain of
codes, the comparisons and the identity token's own chain. There are no
threads, files or timers in the library, so interleaving is between programs
and what is hard is sequence: which calls, in which order, on which object,
with which text.

## 2. The modules

    Capability                vocabulary and comparisons
      TokenText               printing, reading, tags
        CapabilityToken       objects and texts, a state machine
          MCCapabilityToken   values for TLC
        SharedFrames          the same objects with frames by pointer
          MCSharedFrames
        IdentityText          identity tokens, their chain and its check
          IdentityTokens      identity objects and texts, a state machine
            MCIdentityTokens
          Decision            the right answer, said of the whole token
            RequestCheck      is_valid_request_cspot, a state machine
              MCRequestCheck
            Access            the service without texts and codes (abstract)
            Caplets           users and a server: CapabilityToken,
                              IdentityTokens and RequestCheck composed
              MCCaplets
    TextSplit                 from_string down to characters
      MCTextSplit
    Authorization             one call, one right answer (abstract)
    TokenTextProofs, CapabilityTokenProofs, CapabilityTokenCallsProofs,
    SharedFramesProofs, IdentityTokensProofs, RequestCheckProofs,
    TextSplitProofs, CapletsProofs

**Capability** has the types of `caplets.h` and the comparisons. A path is what
`splitString(path, "/")` makes of it. A `std::bitset<3>` is the set of its
positions that are one. A request keeps its own capability; its handler name
and value are read by no check and are left out, so two requests that differ in
these alone are one in the model.

**TokenText** has a text as the pieces that the separators cut it into, with the
losses of the conversions: bits are printed as binary digits and read by `atoi`
as a decimal number of which `std::bitset<3>` keeps three bits; a type other
than 0 and 1 leaves a local variable uninitialised (`residue`, any of the three
types); a frame with constraints only prints with a leading `$` (`lead`), and
to read that is undefined; a last frame that prints as nothing is dropped
(`str_frames`). A tag is a term: what it was first computed from, and the
messages added since. Two such terms are equal only if all of that is equal,
which is the assumption that HMAC does not collide.

**CapabilityToken** has an object per holder (`token`), the state of a
`from_string` in progress (`parsing`), the holders stopped by undefined
behaviour (`crashed`) and the texts in circulation (`wire`). Three history
variables are for the properties: `clean` (objects built by the documented
calls from unaltered texts), `genuine` (texts printed from such objects) and
`attested` (chains that `update_tag` has computed from the secret).

| action | code |
|---|---|
| `NewToken` | a new object, `tests.cpp` 228 |
| `AddFrame` | `add_frame` with `update_tag`, 219-238, of a frame or, under `SetterNext`, of a request |
| `FromString`, `FromPlainText` | `from_string`, tag in the text or computed, 155-187 |
| `PushFrame` | one turn of the loop of `from_string_no_tag`, 189-214 |
| `PrintToken` | `to_string(true)`, 132-148; under `SetterNext` of an empty object too |
| `AlterText` | a copy in circulation with another tag, or a frame replaced, added or missing (external: `test_signatures.txt`) |
| `SetRequest` | `set_request`, `caplets.h` 144, of a request or a null pointer, with and without `update_tag` |
| `SetBodyFrames` | `set_body_frames`, `caplets.h` 143; given are the body of any object and its first elements, where the code takes any vector |

`Next` has the calls the repository's programs make: a text with a tag is read
into a new object, and nothing is added to a body that ends with a request.
`SetterNext` has every public call on every object. A call that is not a
documented one (a setter, a frame behind a request, reading an altered text, or
any text into a used object, reading a text that cannot be read) makes the object
not `clean`.

**RequestCheck** makes one call of `is_valid_request_cspot`. `pc` is the check
to make next, `i` the position of the loops, and the two variables of the code
that outlive a turn of a loop are kept (`calculated_tag`,
`identity_constraint_checked`). `CheckIdentity`, `ExtendTag`, `CompareTag`,
`DeriveNext`, `DerivationPassed`, `CompareRequest` and `CompareOperation` are
the code's checks in its order, each with its early return. `CompareGarbage` is
what the build may do where the code reads `body[-1]` (a body of one element)
or casts a frame to a request: go on, return false, or crash. A null `request`
pointer at the end is a crash.

**IdentityTokens** has an `IdentityToken` object per party and the texts in
circulation (`id_wire`). A text is its tag and the pieces behind the dummy body:
none, a name, or a name and a request tag. `create_initial_token` sets the tag
only, so a used object keeps its name; `add_request_tag` gives out a text and
stores nothing; `to_string` leaves the request tag out; `from_string` keeps a
field for which the text has no piece. Histories: `stage` (how far an object is
in the calls that `caplets.h` 62-64 documents), `issued` (texts these calls
gave), `composed` (chains computed from the secret).

| action | code |
|---|---|
| `NewIdentity` | a new object, `tests.cpp` 257 |
| `CreateInitialToken` | `create_initial_token`, 460-463; its text may be handed out or dropped, as in `main` |
| `AddIdentityToken` | `add_identity_token`, 450-453 |
| `AddRequestTag` | `add_request_tag`, 455-458 |
| `SetRequestTag` | `set_request_tag`, `caplets.h` 60 |
| `PrintIdentity` | `to_string`, 416-429, with and without the tag |
| `ReadIdentity` | `from_string`, 433-447 |
| `AlterIdentity` | a copy in circulation with another tag or other pieces (external) |

**TextSplit** runs one call of `from_string` on a text, character by character:
`TakeTag` (157-159, with `trim`), `TakeBody` (177, where `npos + 7` wraps around
in the width of a size), `Cut` and `LastPiece` (the loop of `splitString`),
`FindRequest` (182, undefined without a piece). The history `printed` says what
the text was printed from. This is where `TokenText` gets its pieces from:
`ReadsBack` says for which names that is right.

**SharedFrames** has a heap of frames, and bodies of addresses. `AddFrame` keeps
the pointer it is given, `SetBodyFrames` copies pointers, `FrameFromString`
appends to a frame wherever it is in use. `Objects` is the mapping to the
objects of `CapabilityToken`, with the values the frames have now.

**Caplets** puts the machines together by `INSTANCE`. Every user has a
capability token and an identity token; the server is a program with the same
two objects and one call of the validation.

| action | code |
|---|---|
| `UserToken`, `AlterToken` | actions of `CapabilityToken` |
| `UserIdentity`, `AlterIdentity` | actions of `IdentityTokens`, in the order of `main.cpp` 14-19, the request tag being the tag the user's capability token has at that moment |
| `ReadToken`, `ReadIdentity` | `tests.cpp` 259, 263: one text each, any in circulation, into new objects |
| `Call` | the call, with the identity read or a null pointer |
| `CheckStep` | a step of `RequestCheck` |
| `NextQuestion` | the next turn of the loop, with new objects |

**Access** is what this is for, said without texts, tags, objects or order of
checks: the bodies put together element by element, the names put behind a
body, one question, one answer. `Caplets!ImplementsAccess` is its specification
under the mapping `chains <- attested`, `vouched <- Vouched` (read off the
chains of codes that were computed), `question <- input`, `answer <- verdict`.

**Decision** says the same answer of the whole token, without order or loops;
**Authorization** is the machine that gives a right answer once.
`RequestCheck!Authorized` is its specification.

## 3. What is checked

| run | question | result |
|---|---|---|
| `holders` | two holders, the documented calls: do the two ways of computing the tag agree, does reading give back what was printed, was each frame that verifies put there by `update_tag` behind the frames before it, does each reader of an unaltered text come to its end, is the request that the pointer holds the one at the end of the body | holds |
| `setters` | every public call: was what verifies still attested; does the program of an object made as documented go on | holds |
| `request_check` | calls of the validation on tokens of up to three frames, with and without a request: is the answer the right one, and given once; do rights only shrink; is the request within the root, as paths are compared; is the identity the one asked for and bound to this very body | holds |
| `identities` | all calls on an identity object, new or used, and altered texts: did what verifies go through the documented steps; is what they gave accepted | holds |
| `service` | a user and a server exchange tokens and identities, altered under way or not: do the programs implement `Access`; is an unaltered token rejected only for what it says | holds |
| `splitting` | texts taken apart: is nothing lost, is each piece cut where it was joined, what reads back, what is taken for a frame when there is none, does the splitting come to its pieces | holds |
| `sharing` | frames shared by pointer and edited: does every object that has the frame show it; are frames as values right otherwise | holds |
| `constraint_only_frame` | the text of an object made as documented can be read | violated, for a frame that only constrains |
| `trailing_empty_frame` | an empty last frame survives printing and reading | violated |
| `used_object` | `from_string` gives the token of the text | violated, on an object in use |
| `frames_are_subsets` | a frame's capabilities reach no more than the previous frame's | violated |
| `constraints_hold` | the constraints of every frame are checked | violated |

The five violations are disagreements between what a comment or a test of the
repository says and what the code does; `PROJECT.json` quotes each one.

*Properties of tokens.* `CleanTokenVerifies`: a token made by documented calls
passes `is_valid_signature` at every moment, through any number of holders.
`VerifiedWasAttested`: if a token passes, every prefix of its body was once
computed by `update_tag` from the secret, whatever was done to the text.
`AddingKeepsVerdict`: adding a frame to a token neither breaks a good tag nor
repairs a bad one. `ReadsWhatWasPrinted`: reading a text with its tag and
printing the object gives the same frames. `RequestIsLast`: the two places from
which the validation takes the request are the same element. `ReadersGoOn`: no
program is stopped by undefined behaviour on an object made by the documented
calls, whatever is done to other objects meanwhile. It takes frames that grant
something (`FramesGrant`): one that only constrains prints with a leading `$`,
and the run `constraint_only_frame` shows what the next reader does with it.

*Properties of identity tokens.* `VerifiedWasComposed`: if one verifies, its tag
was started from the secret, its very name was put into that, its very request
tag into that; a name or a request tag left over in a used object does not pass.
`IssuedVerifies`: a text made by the documented calls is accepted for the token
it was made for, whichever object reads it.

*Properties of texts.* `PiecesRebuildContent` is the invariant of the loop of
`splitString`: the pieces so far, each with the separator behind it, and the
rest are the content. `CutAtFirstMark`: no separator is left in a piece or
skipped. `ReadsBack`: the tag and the frames come back (without an empty last
one) if no separator is in a frame or arises where a frame and the separator
behind it meet; of other texts, which may read back by chance, it says nothing.
`TagAlone`: of a text without a mark, a tag alone, what is behind its first six
characters is taken for a frame, since `npos + 7` wraps to 6; a shorter text ends
in an exception and one of six characters in an access outside of the vector.
`ComesToPieces`: when there is a frame that is not empty, the splitting ends
with its pieces, without an exception or an access outside of the vector on the
way. Of what `Frame::from_string` then does with a piece it says nothing: not
every piece is the text of a frame, and to read one that is not (`a`, say, for
want of a `:`) is undefined. That part is in `CapabilityToken`, for the texts
that frames are printed as.

*Properties of shared frames.* `VerifiesWhileUnedited`: an object made with
`add_frame` verifies exactly as long as each of its frames reads as it did when
it was added. `NeverRepaired`: since `Frame::from_string` appends, what an edit
has broken stays broken. `ValuesUnlessEdited`: every step but an edit is a step
of `CapabilityToken` on the values, so frames as values are exact for programs
that add a frame when it is finished, as those of the repository do.

*Properties of the whole.* `ImplementsAccess`: the server accepts only a body
that was put together element by element, under a name that was put behind this
very body, with a request within its last frame; and each call is answered.
`HonestRejectedForCause` is the other direction: with unaltered texts made by the
documented calls, a rejection has its reason in the frames, the constraint or
the request.

*Properties of the validation.* `RightsFromEveryFrame`: type and bits of an
accepted request are within some capability of every frame. It says nothing of
the operation. The code compares that with the request alone, and only so that
the request's bits are among the operation's (410): a request for `{0}` passes
with the operation `{0, 1, 2}`, so an operation may exceed the request and every
frame. `WithinRoot`: if paths never get shorter from frame to frame, path and
rights together are within one capability of the first frame. Within is meant as
the code compares paths: it looks at the common length, and the condition is on
frames, so a request may still name `/home` under a root of `/home/log`. Without
the condition the frames between may already do so, and the statement is false.
`BoundToIdentity`:
an accepted request under an identity constraint came with an identity token of
that name, signed for the tag of this body. `Authorized`: the machine implements
`Authorization`, the call returning included.

### Bounds

`holders`: bodies of three elements (`MaxFrames`), two texts (`MaxTexts`), three
attested chains (`MaxAttested`). Three elements are the least with a first, a
middle and a last frame, which `update_tag` and the signature loop treat
differently; two texts let one be read while an altered copy of another
circulates. `setters`: two elements, one text and three chains, because each call is
then allowed on each object; two elements already tell `update_tag` under the
secret from `update_tag` under the old tag (with one text there is no room for
an altered copy: `holders` and the proof have those). `OneOdd` stops it once
every object has been used otherwise than documented, so what is explored is an
object made as documented beside one on which every call is made, and each
object's first steps away from the documented calls. `Bounded` also stops at a
crash: a crashed holder takes no step, and no other holder can tell. Frames are one
plain root frame and one frame with two capabilities, both types, bits with a
hole and a constraint; the violation runs add the frames that do not survive
printing. Holders run the same code and no property names one, so they are
symmetric; no liveness is checked under symmetry. `CHECK_DEADLOCK FALSE` is said
in the runs of `CapabilityToken` because holders may really stop: at the bounds,
or after a crash.

`identities`: one party and one name, so that two texts and three codes fit: the
two names that differ are a name and none, and pieces that do not belong to a
code come from `AlterIdentity` (two persons are in `request_check`). With the
party's object used again and again, one party meets every text that several
would. `MaxComposed` bounds the histories.

`service`: one user and the server, one name, and two whole tokens that the user
may read and tag: a frame constrained to that name, with a request within the
frame or beyond it. Three texts of both kinds together (`MaxCirculating`), two of
one kind at most, three chains and three codes. So a good token meets no
identity, its own, the one of the other token and an altered one, and an altered
or foreign token a good identity.
The bounds on histories are state constraints. They cut no call short: a
`CheckStep` changes no history, so the liveness of the answer is checked on
every call that begins within the bounds.

`splitting`: texts of up to three frames out of seven (empty, plain, with white
space, with the start, the end or the whole of a separator in it) behind one of
six tags, one of which has six characters, where a tag alone is split into no
piece at all; so each cut has a frame before and after it. Sizes have 16 bits
where the build has 64; all that matters is that texts are shorter.

`sharing`: two objects and two frames, bodies of two, frames of one capability
and one constraint, so that a frame can be twice in one body, in two bodies, and
be edited between and after. `MaxAttested` allows two chains, and the run stops
once both objects got their bodies by `set_body_frames`. Objects are interchangeable, and so are frames.

`request_check`: eight frames (paths of one to three names that agree, differ and
match by `*`; bits that shrink and that are incomparable; both types in one
frame; constrained by one of two identities, by both of them one after the other,
by an identity and an expiration time, by an expiration time alone, with two
parameters where one is asked for, or not at all), all sequences of up to three
of them, with and without a request (one of three) behind them, with
the right tag and with the tag of the body without its last element, six kinds
of identity token (none, right, of another person, for another tag, with the
name exchanged after signing, without a request tag) and two sets of operation
bits. Three frames are needed to tell a comparison with the neighbour from one
with the root, and a first constrained frame from a second one.

### Fairness

Calls have it, and nothing else: `WF_vars(Step)` in `RequestCheck`,
`WF_vars(CheckStep)` in `Caplets`, `WF_vars(Next)` in `TextSplit`, each the steps
of one call. A call is sequential code without waiting, in one thread, so if it
can take its next step it takes it. Holders, users and the server between two
calls have no fairness: no program has to go on.

### Assumptions of the models

- Codes do not collide, and all programs share the one `SECRET` of `secrets.h`.
- Names contain no separator (`/`, `+`, `$`, `:`, `%`) and not the words
  `FUNCTION:` and `request:`. `trim` removes nothing from such texts.
  `TextSplit` has texts that do, for `%FRAME%`.
- A frame is a value, except in `SharedFrames`. The code keeps pointers, and
  `ValuesUnlessEdited` says what the difference is.
- No name of a person is itself the text of a code or of the dummy body: what is
  written as a name is then never read where a request tag belongs.
- Of the order of a frame's pieces only the order of its capabilities and that
  of its constraints is kept: `from_string` files them in two vectors.

## 4. What is proved

All proofs are for any holders, frames, texts, names and any length of tokens.
They rest on the assumptions named in the modules: of which types the constants
are (all of them); that the calls made of the validation are on tokens whose
request pointer and last element agree (`RequestAtEnd`, in `InputAssumption`);
that `*` is no component of a
path (`StarIsNoComponent`); that `NULL` is no object, no frame and no name
(`TokenAssumption`, `NullIsNoObject`, `FrameAssumption`, `CapletsAssumption`) and
the empty text no name (`IdentityAssumption`); that the server is none of the
users (`CapletsAssumption`); and that a text and a mark are shorter than the largest size
(`SplitAssumption`). TLC evaluates them on the values of the runs.

`RequestAtEnd` is more than a type. `RequestIsLastHolds` justifies it for the
documented calls, and in `CapletsProofs` the calls are made on such tokens. After
`set_request`, `set_body_frames` or `from_string` on a used object it may be
false, and nothing is said here of a validation of such an object.

Three theorems have one hypothesis more, `FramesSurvive`: every frame that is
added prints as something, and has no capability type that `from_string` does
not know. `ReadsWhatWasPrinted` is false without it, as the run
`trailing_empty_frame` shows: an empty last frame is lost on the way, and with it
the signature, which is `CleanTokenVerifies`, on which `HonestRejectedForCause`
rests. The frames of the runs `holders` and `service`, and all those of the
repository's programs, satisfy it.

Each strengthening below was an invariant of a TLC run before it was proved.

One theorem has `FramesGrant` instead: `ReadersGoOnHolds`, which is false
without it, as `constraint_only_frame` shows.

**TokenTextProofs.** `BitsRoundTrip`: printing bits as binary digits, reading
them as a decimal number and keeping three bits is the identity. The proof is by
the three digits: 10 is even and 100 a multiple of four. The lemmas type every
conversion, and state when the path comparison *is* transitive
(`PathTransitive`: if the middle path is at least as long as the granting one).

**CapabilityTokenProofs**, all about `SetterSpec`, the largest machine; as
`CallersUseSetters` shows, `Spec` implies it.
- `TypeCorrect`: `TypeOK` is inductive. The loop of `from_string` is the one
  action that needs lemmas (`PushFrameEffect`): whatever the piece, the body
  gets one element of the right type or nothing.
- `VerifiedWasAttestedHolds`: the property is not inductive, for it says nothing
  of objects that do not verify and of texts, and these may verify later.
  `TagsAttested` says of *every* tag in an object or a text that the prefixes of
  its chain are attested, whatever the body beside it. It is inductive: a setter
  may separate a tag from its body but not change the tag's past. If the
  signature is valid the tag's chain is the body, and the property follows.

**CapabilityTokenCallsProofs**, about the calls that programs make (`Spec`), where
more is true than of every public call.
- `RequestIsLastHolds` rests on `RequestsRead`: until `from_string` has read the
  last piece of a text, nothing it has put into the body is a request.
- `AddingKeepsVerdictHolds`: `update_tag` extends the tag by exactly what the
  signature loop computes for the new last element, so both sides of its
  comparison change alike, and terms are equal after it only if before.
- `ReadsWhatWasPrintedHolds` rests on `Durable`: all that is in an object
  survives printing, all that is in a text is as it was printed, and what a
  reader has put into its body and what it has still to read are together the
  text. The lemmas under it (`ReadPrints`, `PrintedDigits`) say that each
  conversion is undone by its counterpart.
- `CleanTokenVerifiesHolds` rests on `CleanTags`: the tag of an object made by
  documented calls is the code of its body and of what is still to be read.
- `ReadersGoOnHolds` is about `SetterSpec` again: other objects may be used in any
  way. It rests on `ReadsOn`: a clean object holds frames that grant something
  and a request at its end at most, it has such frames still to read, and the
  texts printed from clean objects are made of these. `NoGrantDropped` and
  `GrantingPrints` carry that over printing, `ReadGrants` over reading.
- `SecretKeptHolds`: no tag is the secret itself, since each is the code of at
  least one element.

**SharedFramesProofs.**
- `VerifiedWasAttestedHolds` is by `TagsAttested`, as for frames as values.
- `VerifiesWhileUneditedHolds` rests on `TagsWritten`: the tag that `add_frame`
  keeps is the code of what its frames read as then, not of what they read as
  now. The signature is computed from the latter, and codes are equal only if
  these are.
- `NeverRepairedHolds` rests on `Grown`: both lists of each frame of a body have
  what they had when it was added as a prefix. A frame that reads differently
  has therefore become longer, and longer it stays.
- `ValuesUnlessEditedHolds` is a step simulation, one lemma per action: what the
  action does to pointers is what `CapabilityToken` does to the values.

**IdentityTokensProofs**, about all calls on any number of objects.
- `VerifiedWasComposedHolds` rests on `TagsComposed`: every tag from the secret,
  in an object or in a text, tells of a chain each prefix of which was computed,
  whatever name stands beside it.
- `IssuedVerifiesHolds` rests on `Stages`: at stage *named* the tag of an object
  is the code of the very name it holds under the initial tag, and a text that
  was issued has the tag of its stage. The stage is lost by each call that is
  not the documented next one, and only then.

**RequestCheckProofs.**
- `TypeCorrect`: `i` never leaves the body, in all loops, for every call.
- `RightsNeverGrow`, `StaysWithinRoot`: the loop compares neighbours only. The
  invariant `Attenuation` says what it has established for the first `i - 1`
  elements: each capability is within some capability of *each* frame before
  it (rights), and within one of the first frame (path and rights, if paths do
  not get shorter). A turn of the loop extends it by transitivity, and the last
  comparison adds the request.

- `BoundToIdentityHolds` rests on `Established`: what has been shown when the
  call comes to a check. The signature has been recomputed up to `i - 1`, the
  capabilities are derived up to there, and of the elements up to `i - 2` the
  first one with constraints has had them checked, which is what the one flag of
  the code means.
- `ChecksDecide`: the call implements the safety half of `Authorization`. Its
  answer is a right one at the step that gives it, since by `Established` what
  the checks have shown is together what `Decision` says of the whole token, and
  each early return has found a reason to reject.

**TextSplitProofs**, for any texts over any characters.
- `PiecesRebuildContentHolds` and `CutAtFirstMarkHolds`: besides the types, the
  loop keeps `AtNextMark`, that the second iterator is where `std::search` finds
  the next separator. The lemmas on the search say that it finds the first one
  and misses none.
- `ReadsBackHolds` rests on `InStep`: the loop takes the text apart in step with
  how it was put together, so that the pieces so far are the first frames and
  took up as many characters as these with their separators did.
- `TagAloneHolds` rests on `TakenForFrame`: when there is no mark the loop starts
  at the seventh character, and its one search finds the end.

  The library has the text of a list of pieces as a function recursive in its
  length. What is needed of it for every length (`FlattenAppend`: one piece more
  is its characters more) is proved from a least counterexample, which
  well-founded minimality gives without induction over an operator.

**CapletsProofs** takes the modules above by `INSTANCE` and adds no second proof of
what they say.
- `TokensAreTokens`, `IdentitiesAreIdentities`: whatever the programs do together,
  their capability tokens behave as `CapabilityToken` and their identity tokens as
  `IdentityTokens`. So every theorem about these holds here too.
- `ServerReadsHolds`: before its call, the server has read a token with at least
  one element, and an identity made by the documented calls verifies.
- `ServesHolds`: as long as a call runs, and until the next question, the objects
  of the server are those the call was given, `Established` holds of its loops,
  and an answer is one that `Decision` allows. No action of a user comes between.
- `HonestRejectedForCauseHolds` follows: the token verifies by
  `CleanTokenVerifies`, the identity by `ServerReads`, the answer is right by
  `Serves`; what is left as a reason is in frames, constraints and request.
- `ServiceRemembers`: the safety half of `ImplementsAccess`, with the mapping of
  section 2. A user's call extends `attested` by one chain that prolongs a known
  one, or `composed` by one chain, which vouches for one name and body at most
  (`VouchesOne`). The one step that needs more is the answer (`AnswerIsRight`): an
  accepted token verifies, so by `VerifiedWasAttested` its body is known to
  `Access`, and an accepted identity verifies, so by `VerifiedWasComposed` its
  name was put behind this very body.

Only model-checked:
- `ComesToPieces`, and of `Authorized` and `ImplementsAccess` that each call
  is answered: liveness under weak fairness, which speaks of `ENABLED`.
- The violation runs, which show a counterexample each.

So every invariant and every action property that a passing run checks is also a
theorem, for every value of the constants.

## 5. Not modelled

- `secure_channel/`: three stand-alone demonstrations of other libraries, each a
  straight line of calls without state, loop or error path of its own, and left
  out of the build (`src/src/CMakeLists.txt` 38).
- `run_tests.cpp` and the printing in `tests.cpp`: they compare and print.
- `expiration_time`: the comment at `caplets.cpp` 302 says that it should be
  checked there, and the code accepts it with a TODO (320, 333). The models accept
  it too: there is no clock and no format of a time to check it against.
- The setters of `Request`, and a text with a leading `$`, in `SharedFrames`: its
  frames are frames only. `CapabilityToken` has requests and such texts, by value.
- The bytes of HMAC and of hexadecimal tags; collisions are assumed away.
- Memory: frames are never freed, and no code of the library frees them.

## 6. The plan

The parts, their composition and the two abstract specifications are modelled,
and all that is claimed of their safety is proved. What would extend this:

- theorems about `SetterSpec` beyond `VerifiedWasAttested` and `ReadersGoOn`:
  which of the other results on the documented calls survive which setter;
- requests in `SharedFrames`, with the setters of `Request`, which unlike
  `from_string` can put back what they changed;
- `WithinRoot` for the whole service: under which frames the programs together
  never widen a path;
- `RequestCheck` on bodies of `SharedFrames`, where a frame could change between
  two checks of one call if calls ran in several threads. The repository has
  no such program.
