--------------------------- MODULE CapabilityToken --------------------------
(***************************************************************************)
(* The life of capability tokens.  A holder is a program with one          *)
(* CapabilityToken object, or one of several objects of a program: it adds *)
(* frames, reads a token from text, prints it for others.  from_string is  *)
(* one step per frame it reads, as its loop is.  Printed texts circulate   *)
(* in wire, where they can be read any number of times, in any order, or   *)
(* never, and where a copy may come to differ from what was printed, as in *)
(* the negative cases of examples/test_signatures.txt.                     *)
(***************************************************************************)
EXTENDS TokenText, FiniteSets

CONSTANTS
  Holder,      \* the objects, each with its program
  NewFrame,    \* the frames a holder may add
  PlainText,   \* the texts without a tag that a holder may read
  NewRequest,  \* the requests given to set_request and to add_frame
  MaxFrames,   \* bound on the length of a body
  MaxTexts     \* bound on the number of texts in circulation

ASSUME TokenAssumption ==
  /\ NewFrame \subseteq Frame
  /\ PlainText \subseteq Seq(ElementText)
  /\ NewRequest \subseteq Request
  /\ NULL \notin Request
  /\ MaxFrames \in Nat
  /\ MaxTexts \in Nat

VARIABLES
  token,     \* the object of each holder
  parsing,   \* the frames from_string has still to read, its calc_tag, and
             \* (history) the frames of the text it reads
  crashed,   \* the holders that undefined behaviour has stopped
  wire,      \* the texts in circulation
  clean,     \* history: holders whose token was made by the documented calls
  genuine,   \* history: the texts that clean holders printed
  attested   \* history: the chains that update_tag computed from SECRET

vars == <<token, parsing, crashed, wire, clean, genuine, attested>>

Object ==
  [body : Seq(Element), tag : Tag, request : Request \cup {NULL}]

EmptyToken == [body |-> <<>>, tag |-> EmptyTag, request |-> NULL]

NotParsing == [calc_tag |-> FALSE, rest |-> <<>>, source |-> <<>>]

Idle(h) == h \notin crashed /\ parsing[h].rest = <<>>

(* The body has no request. *)
Open(h) == \A i \in DOMAIN token[h].body : token[h].body[i].kind = "frame"

-----------------------------------------------------------------------------
(***************************************************************************)
(* The methods of CapabilityToken.                                         *)
(***************************************************************************)

(* Mutants of update_tag: always keyed with the old tag; always keyed with *)
(* the SECRET.                                                             *)
OldTagAlways(body, tag) == compute_mac(element_to_string(body[Len(body)]), tag)
SecretAlways(body, tag) ==
  compute_mac(element_to_string(body[Len(body)]), SECRET)

(* The first frame is keyed with the SECRET, any other with the old tag. *)
update_tag(body, tag) ==
  compute_mac(element_to_string(body[Len(body)]),
              IF Len(body) = 1 THEN SECRET ELSE tag)

push_back(t, e) == [t EXCEPT !.body = Append(@, e)]

add_frame(t, e) ==
  LET longer == push_back(t, e)
  IN  [longer EXCEPT !.tag = update_tag(longer.body, t.tag)]

(* Mutant of is_valid_signature: the loop stops before the last element.   *)
AllButLastSigned(t) ==
  t.tag = SignatureOf(SubSeq(t.body, 1, Len(t.body) - 1))

is_valid_signature(t) == t.tag = SignatureOf(t.body)

(* Mutant of set_read_request: a local variable hides the field.           *)
NoRequestKept(t, r) == t

set_read_request(t, r) == [t EXCEPT !.request = r]

Attest(tag) ==
  attested' = IF tag.base = "secret" THEN attested \cup {tag.chain}
                                     ELSE attested

-----------------------------------------------------------------------------
Init ==
  /\ token    = [h \in Holder |-> EmptyToken]
  /\ parsing  = [h \in Holder |-> NotParsing]
  /\ crashed  = {}
  /\ wire     = {}
  /\ clean    = [h \in Holder |-> TRUE]
  /\ genuine  = {}
  /\ attested = {}

(* A holder starts on a new object. *)
NewToken(h) ==
  /\ Idle(h)
  /\ token' = [token EXCEPT ![h] = EmptyToken]
  /\ clean' = [clean EXCEPT ![h] = TRUE]
  /\ UNCHANGED <<parsing, crashed, wire, genuine, attested>>

(* add_frame(e).  It takes any Frame*, and a Request is one; documented is *)
(* a frame added to a body without a request.                              *)
AddFrame(h, e) ==
  /\ Idle(h)
  /\ Len(token[h].body) < MaxFrames
  /\ token' = [token EXCEPT ![h] = add_frame(@, e)]
  /\ Attest(token'[h].tag)
  /\ clean' = [clean EXCEPT ![h] = @ /\ Open(h) /\ e.kind = "frame"]
  /\ UNCHANGED <<parsing, crashed, wire, genuine>>

(* The part of from_string_no_tag before its loop: split the text.  One    *)
(* without a frame ends the program: it is too short (an exception), reads *)
(* before the start of an empty vector, or has its tag for a frame, which  *)
(* has no "+" (TextSplit).                                                 *)
StartParsing(h, frames, calc_tag) ==
  LET rest == str_frames(frames)
  IN  /\ Len(token[h].body) + Len(rest) <= MaxFrames
      /\ IF rest = <<>>
         THEN crashed' = crashed \cup {h} /\ UNCHANGED parsing
         ELSE /\ parsing' = [parsing EXCEPT
                   ![h] = [calc_tag |-> calc_tag, rest |-> rest, source |-> frames]]
              /\ UNCHANGED crashed

(* Mutant of Readable: the last piece is not recognised as a request.      *)
NoRequestFound(rest) == Head(rest).kind # "request" /\ ~Head(rest).lead

(* A text is read as a request at the end only.  Anywhere else, a request  *)
(* read as a frame has no second piece between "+", and a frame that       *)
(* starts with "$" has an empty first piece: both are read outside of a    *)
(* vector.                                                                 *)
Readable(rest) ==
  IF Head(rest).kind = "request" THEN Len(rest) = 1 ELSE ~Head(rest).lead

ReadableText(frames) ==
  /\ str_frames(frames) # <<>>
  /\ \A k \in DOMAIN frames :
       IF frames[k].kind = "request" THEN k = Len(frames) ELSE ~frames[k].lead

(* from_string(text), calc_tag false: the tag comes with the text, and the *)
(* frames are appended to those the object already holds.  Documented is   *)
(* to read into a new object.                                              *)
FromString(h, t) ==
  /\ Idle(h)
  /\ StartParsing(h, t.frames, FALSE)
  /\ token' = [token EXCEPT ![h].tag = t.tag]
  /\ clean' = [clean EXCEPT ![h] = t \in genuine /\ token[h] = EmptyToken]
  /\ UNCHANGED <<wire, genuine, attested>>

(* from_string(text, true): the tag is computed frame by frame, onto what  *)
(* the object already holds.                                               *)
FromPlainText(h, frames) ==
  /\ Idle(h)
  /\ StartParsing(h, frames, TRUE)
  /\ clean' = [clean EXCEPT ![h] = @ /\ Open(h) /\ ReadableText(frames)]
  /\ UNCHANGED <<token, wire, genuine, attested>>

(* One iteration of the loop of from_string_no_tag. *)
Advance(p) ==
  IF Len(p.rest) = 1 THEN NotParsing ELSE [p EXCEPT !.rest = Tail(p.rest)]

PushFrame(h) ==
  /\ h \notin crashed
  /\ parsing[h].rest # <<>>
  /\ LET text == Head(parsing[h].rest)
         Push(e, t) == IF parsing[h].calc_tag THEN add_frame(t, e)
                                              ELSE push_back(t, e)
     IN \/ /\ text.kind = "request"
           /\ Readable(parsing[h].rest)
           /\ LET r == request_from_string(text)
              IN  token' = [token EXCEPT
                              ![h] = Push(r, set_read_request(@, r))]
           /\ UNCHANGED crashed
        \/ /\ text.kind = "frame"
           /\ Readable(parsing[h].rest)
           /\ \E residue \in [DOMAIN text.capabilities -> CapabilityType] :
                token' = [token EXCEPT
                            ![h] = Push(frame_from_string(text, residue), @)]
           /\ UNCHANGED crashed
        \/ /\ ~Readable(parsing[h].rest)
           /\ crashed' = crashed \cup {h}
           /\ UNCHANGED token
  /\ parsing' = [parsing EXCEPT ![h] = Advance(@)]
  /\ IF parsing[h].calc_tag THEN Attest(token'[h].tag) ELSE UNCHANGED attested
  /\ UNCHANGED <<wire, clean, genuine>>

(* to_string(true).  Without an element it gives the tag alone, which no   *)
(* program of the repository prints.                                       *)
TextOf(t) == [tag |-> t.tag, frames |-> body_to_string(t.body)]

PrintToken(h) ==
  /\ Idle(h)
  /\ Cardinality(wire \cup {TextOf(token[h])}) <= MaxTexts
  /\ wire' = wire \cup {TextOf(token[h])}
  /\ genuine' = IF clean[h] /\ token[h].body # <<>>
                THEN genuine \cup {TextOf(token[h])} ELSE genuine
  /\ UNCHANGED <<token, parsing, crashed, clean, attested>>

(* What a text in circulation may be altered to: another tag, or a frame   *)
(* replaced, added at the end, or missing there.                           *)
AlteredFrames(s) ==
  {[s EXCEPT ![i] = frame_to_string(f)] : i \in DOMAIN s, f \in NewFrame}
    \cup {Append(s, frame_to_string(f)) : f \in NewFrame}
    \cup {SubSeq(s, 1, Len(s) - 1)}

Altered(t) ==
  {[t EXCEPT !.tag = OtherTag]}
    \cup {[t EXCEPT !.frames = s] : s \in AlteredFrames(t.frames)}

AlterText ==
  /\ Cardinality(wire) < MaxTexts
  /\ \E t \in wire : \E altered \in Altered(t) : wire' = wire \cup {altered}
  /\ UNCHANGED <<token, parsing, crashed, clean, genuine, attested>>

(* set_request(r, update), r a request or a null pointer.  It stores the   *)
(* pointer only: the body does not get the request, and update_tag takes   *)
(* the last frame of the body again.                                       *)
SetRequest(h, r, update) ==
  /\ Idle(h)
  /\ IF update /\ token[h].body = <<>>
     THEN /\ crashed' = crashed \cup {h}
          /\ UNCHANGED <<token, attested>>
     ELSE /\ token' = [token EXCEPT
               ![h].request = r,
               ![h].tag = IF update THEN update_tag(token[h].body, @) ELSE @]
          /\ Attest(token'[h].tag)
          /\ UNCHANGED crashed
  /\ clean' = [clean EXCEPT ![h] = FALSE]
  /\ UNCHANGED <<parsing, wire, genuine>>

(* set_body_frames takes any vector; given here are what get_body returns, *)
(* of any object, and its first elements.                                  *)
SetBodyFrames(h, other, n) ==
  /\ Idle(h)
  /\ Idle(other)
  /\ token' = [token EXCEPT ![h].body = SubSeq(token[other].body, 1, n)]
  /\ clean' = [clean EXCEPT ![h] = FALSE]
  /\ UNCHANGED <<parsing, crashed, wire, genuine, attested>>

(* The calls that the tests and the programs of the repository make: each  *)
(* text with a tag is read into a new object, and nothing is added to a    *)
(* body that ends with a request.                                          *)
HolderNext(h) ==
  \/ NewToken(h)
  \/ Open(h) /\ \E f \in NewFrame : AddFrame(h, f)
  \/ token[h] = EmptyToken /\ \E t \in wire : FromString(h, t)
  \/ Open(h) /\ \E s \in PlainText : FromPlainText(h, s)
  \/ PushFrame(h)
  \/ token[h].body # <<>> /\ PrintToken(h)

Next == AlterText \/ \E h \in Holder : HolderNext(h)

(* All public calls, in any order: the setters too, reading into a used    *)
(* object, adding a request, or to a body that has one, and printing an    *)
(* empty object.                                                           *)
SetterNext ==
  \/ \E h \in Holder :
       \/ NewToken(h)
       \/ \E e \in NewFrame \cup NewRequest : AddFrame(h, e)
       \/ \E t \in wire : FromString(h, t)
       \/ \E s \in PlainText : FromPlainText(h, s)
       \/ PushFrame(h)
       \/ PrintToken(h)
       \/ \E r \in NewRequest \cup {NULL}, update \in BOOLEAN :
            SetRequest(h, r, update)
       \/ \E other \in Holder : \E n \in 0 .. Len(token[other].body) :
            SetBodyFrames(h, other, n)
  \/ AlterText

Spec == Init /\ [][Next]_vars
SetterSpec == Init /\ [][SetterNext]_vars

-----------------------------------------------------------------------------
(***************************************************************************)
(* Properties.                                                             *)
(***************************************************************************)

(* The fields of every object, text and history variable keep their types. *)
TypeOK ==
  /\ token \in [Holder -> Object]
  /\ parsing \in [Holder -> [calc_tag : BOOLEAN, rest : Seq(ElementText),
                             source : Seq(ElementText)]]
  /\ crashed \subseteq Holder
  /\ wire \subseteq TokenString
  /\ clean \in [Holder -> BOOLEAN]
  /\ genuine \subseteq wire
  /\ attested \subseteq Seq(ElementText)

(* A token made by add_frame, by from_string of an unaltered text or by    *)
(* from_string with calc_tag, however many holders it went through, passes *)
(* is_valid_signature: the tag that update_tag keeps step by step is the   *)
(* one that the loop of is_valid_signature computes from the SECRET.       *)
CleanTokenVerifies ==
  \A h \in Holder :
    Idle(h) /\ clean[h] /\ token[h].body # <<>>
      => is_valid_signature(token[h])

(* Why CleanTokenVerifies holds: between any two steps, also in the middle *)
(* of from_string, the tag of a clean object is the code of its body and,  *)
(* if the tag came with the text, of what is still to be read of it.       *)
Covered(h) ==
  body_to_string(token[h].body)
    \o IF parsing[h].calc_tag THEN <<>> ELSE parsing[h].rest

CleanTags ==
  /\ \A h \in Holder :
       h \notin crashed /\ clean[h] /\ Covered(h) # <<>> =>
         token[h].tag = [base |-> "secret", chain |-> Covered(h)]
  /\ \A t \in genuine :
       t.frames # <<>> /\ t.tag = [base |-> "secret", chain |-> t.frames]

(***************************************************************************)
(* What CleanTokenVerifies and ReadsWhatWasPrinted need of the frames: an  *)
(* element survives printing and reading if it prints as something and     *)
(* has no type that from_string does not know.                             *)
(***************************************************************************)
Survives(e) ==
  e.kind = "frame" =>
    /\ e.capabilities # <<>> \/ e.constraints # <<>>
    /\ \A j \in DOMAIN e.capabilities : e.capabilities[j].type # "owner_cap"

ReadsAsSurviving(t) ==
  t.kind = "frame" =>
    /\ t.capabilities # <<>> \/ t.constraints # <<>>
    /\ \A j \in DOMAIN t.capabilities : t.capabilities[j].type \in {0, 1}

FramesSurvive ==
  /\ \A f \in NewFrame : Survives(f)
  /\ \A s \in PlainText : \A k \in DOMAIN s : ReadsAsSurviving(s[k])

(* The texts that to_string gives of such elements.                        *)
ThreeDigits(n) == BitsNumeral(BitsOfNumeral(n)) = n

AsPrinted(t) ==
  /\ ReadsAsSurviving(t)
  /\ t.kind = "request" => ThreeDigits(t.cap_bits)
  /\ t.kind = "frame" =>
       /\ t.lead <=> t.capabilities = <<>>
       /\ \A j \in DOMAIN t.capabilities : ThreeDigits(t.capabilities[j].cap_bits)

(* Every element of an object survives, every text with a tag is as it was *)
(* printed, and what from_string has read and still has to read of one is  *)
(* the text.                                                               *)
Durable ==
  /\ \A h \in Holder :
       /\ \A k \in DOMAIN token[h].body : Survives(token[h].body[k])
       /\ \A k \in DOMAIN parsing[h].rest :
            LET t == parsing[h].rest[k]
            IN  ReadsAsSurviving(t) /\ (parsing[h].calc_tag \/ AsPrinted(t))
       /\ h \notin crashed /\ parsing[h].rest # <<>> /\ ~parsing[h].calc_tag =>
            Covered(h) = parsing[h].source
  /\ \A t \in wire : \A k \in DOMAIN t.frames : AsPrinted(t.frames[k])

(* No program is stopped by undefined behaviour on an object made by the   *)
(* documented calls: the text of such an object, whoever has extended it   *)
(* and printed it on the way, is read to its end, whatever is done to      *)
(* other objects meanwhile.                                                *)
ReadersGoOn == \A h \in crashed : ~clean[h]

(* What it needs of the frames: one without a capability prints with a     *)
(* leading "$" or as nothing.                                              *)
FramesGrant ==
  /\ \A f \in NewFrame : f.capabilities # <<>>
  /\ \A s \in PlainText : \A k \in DOMAIN s :
       s[k].kind = "frame" => s[k].capabilities # <<>>

(* Why it holds: a clean object has no frame without a capability and a    *)
(* request at its end only, and reads such a text.                         *)
Grants(e) == e.kind = "frame" => e.capabilities # <<>>

RequestOnlyLast(s) == \A k \in DOMAIN s : s[k].kind = "request" => k = Len(s)

ReadsOn ==
  /\ ReadersGoOn
  /\ \A h \in Holder : clean[h] =>
       /\ \A k \in DOMAIN token[h].body : Grants(token[h].body[k])
       /\ RequestOnlyLast(token[h].body)
       /\ parsing[h].rest # <<>> =>
            /\ Open(h)
            /\ RequestOnlyLast(parsing[h].rest)
            /\ \A k \in DOMAIN parsing[h].rest :
                 Grants(parsing[h].rest[k])
                 /\ (parsing[h].rest[k].kind = "frame" => ~parsing[h].rest[k].lead)
  /\ \A t \in genuine :
       /\ ReadableText(t.frames)
       /\ \A k \in DOMAIN t.frames : Grants(t.frames[k])

(* If is_valid_signature accepts a token, read from whatever text, then    *)
(* each frame of it was put there by update_tag directly after the frames  *)
(* before it: none was replaced, removed or reordered.                     *)
VerifiedWasAttested ==
  \A h \in Holder :
    Idle(h) /\ is_valid_signature(token[h]) =>
      \A n \in 1 .. Len(token[h].body) :
        SubSeq(body_to_string(token[h].body), 1, n) \in attested

(* Why VerifiedWasAttested holds: whatever an object's body has become,    *)
(* a tag that comes from the SECRET, in an object or in a text, tells of   *)
(* the frames of its whole chain that update_tag has put each one there.   *)
TagsAttested ==
  /\ \A h \in Holder : PrefixesIn(token[h].tag, attested)
  /\ \A t \in wire : PrefixesIn(t.tag, attested)

(* The SECRET itself is never the tag of an object or a text: each tag     *)
(* that comes from it is the code of something.                            *)
SecretKept ==
  /\ \A h \in Holder : token[h].tag # SECRET
  /\ \A t \in wire : t.tag # SECRET

(* Adding an element to a token that has one does not change the verdict   *)
(* of is_valid_signature: it neither breaks a good tag nor repairs a bad   *)
(* one.                                                                    *)
AddingKeepsVerdict ==
  [][\A h \in Holder :
       (/\ token[h].body # <<>>
        /\ Len(token'[h].body) = Len(token[h].body) + 1
        /\ Idle(h) \/ parsing[h].calc_tag)
         => is_valid_signature(token'[h]) = is_valid_signature(token[h])]_vars

(* When from_string has read a text with its tag, to_string gives that     *)
(* text back, as test_token expects: no frame is lost, added or changed by *)
(* printing and reading.                                                   *)
ReadsWhatWasPrinted ==
  [][\A h \in Holder :
       (/\ parsing[h].rest # <<>>
        /\ ~parsing[h].calc_tag
        /\ Idle(h)')
         => body_to_string(token'[h].body) = parsing[h].source]_vars

(* The request that is_valid_request_cspot takes from the request pointer  *)
(* is the element that is_valid_request takes from the end of the body,    *)
(* and a token without a request pointer has no request in its body.       *)
RequestIsLast ==
  \A h \in Holder : Idle(h) => RequestAtEnd(token[h].body, token[h].request)

(* Why it holds: until from_string has read the last piece of a text, no   *)
(* element it has put into the body is a request.                          *)
RequestsRead ==
  \A h \in Holder :
    h \notin crashed =>
      IF parsing[h].rest = <<>>
      THEN RequestAtEnd(token[h].body, token[h].request)
      ELSE Open(h) /\ token[h].request = NULL
=============================================================================
