---------------------------- MODULE SharedFrames ----------------------------
(***************************************************************************)
(* Frames by pointer.  CapabilityToken::body is a vector of Frame*: the    *)
(* caller of add_frame keeps the pointer, get_body and set_body_frames     *)
(* pass it on to another object, and one frame may be added twice.         *)
(* Frame::from_string on a frame in use appends to its vectors, and so     *)
(* changes every body that has it while no tag is computed again.  The     *)
(* elements are frames here; the setters of Request are not modelled.      *)
(* CapabilityToken has frames as values; this module shows what is lost    *)
(* by that: an edit is the only step its calls cannot explain.             *)
(***************************************************************************)
EXTENDS TokenText, FiniteSets

CONSTANTS
  Address,    \* the frames a program can make
  Holder,     \* the CapabilityToken objects
  PieceText,  \* the texts given to Frame::from_string
  MaxFrames,  \* bound on the length of a body
  MaxPieces   \* bound on the capabilities and constraints of a frame

ASSUME FrameAssumption ==
  /\ PieceText \subseteq FrameText
  /\ NULL \notin Frame \cup Seq(FrameText)
  /\ MaxFrames \in Nat
  /\ MaxPieces \in Nat

VARIABLES
  heap,      \* what is at an address: a frame, or NULL
  body,      \* the vector of each object
  tag,       \* the tag of each object
  attested,  \* history: the chains that update_tag computed from SECRET
  written    \* history: what the frames that add_frame took read as then,
             \* or NULL for an object that got its body otherwise

vars == <<heap, body, tag, attested, written>>

EmptyFrame == [kind |-> "frame", capabilities |-> <<>>, constraints |-> <<>>]

(* A body as the methods find it. *)
ValuesOf(pointers) == [i \in DOMAIN pointers |-> heap[pointers[i]]]
Values(h) == ValuesOf(body[h])

(* The objects, with the frames they hold now as their values.             *)
Objects ==
  [h \in Holder |-> [body |-> Values(h), tag |-> tag[h], request |-> NULL]]

T == INSTANCE CapabilityToken WITH
       NewFrame   <- {},
       PlainText  <- {},
       NewRequest <- {},
       MaxTexts   <- 0,
       token      <- Objects,
       parsing    <- [h \in Holder |->
                        [calc_tag |-> FALSE, rest |-> <<>>, source |-> <<>>]],
       crashed    <- {},
       wire       <- {},
       clean      <- [h \in Holder |-> written[h] # NULL],
       genuine    <- {}

Text(h) == body_to_string(Values(h))
Valid(h) == T!is_valid_signature(Objects[h])

-----------------------------------------------------------------------------
Init ==
  /\ heap     = [a \in Address |-> NULL]
  /\ body     = [h \in Holder |-> <<>>]
  /\ tag      = [h \in Holder |-> EmptyTag]
  /\ attested = {}
  /\ written  = [h \in Holder |-> <<>>]

(* new Frame() *)
NewFrame(a) ==
  /\ heap[a] = NULL
  /\ heap' = [heap EXCEPT ![a] = EmptyFrame]
  /\ UNCHANGED <<body, tag, attested, written>>

(* Mutant of appended: the vectors are cleared first.                      *)
Replaced(f, t, residue) == frame_from_string(t, residue)

(* What Frame::from_string makes of a frame. *)
appended(f, t, residue) ==
  [f EXCEPT !.capabilities = @ \o frame_from_string(t, residue).capabilities,
            !.constraints  = @ \o t.constraints]

(* frame->from_string(t), before or after the frame was added somewhere.   *)
(* A text that starts with "$" is left out: to read it is undefined, and   *)
(* CapabilityToken has the end that makes.                                 *)
FrameFromString(a, t) ==
  /\ heap[a] # NULL
  /\ ~t.lead
  /\ Len(heap[a].capabilities) + Len(t.capabilities) <= MaxPieces
  /\ Len(heap[a].constraints) + Len(t.constraints) <= MaxPieces
  /\ \E residue \in [DOMAIN t.capabilities -> CapabilityType] :
       heap' = [heap EXCEPT ![a] = appended(@, t, residue)]
  /\ UNCHANGED <<body, tag, attested, written>>

NewToken(h) ==
  /\ body' = [body EXCEPT ![h] = <<>>]
  /\ tag' = [tag EXCEPT ![h] = EmptyTag]
  /\ written' = [written EXCEPT ![h] = <<>>]
  /\ UNCHANGED <<heap, attested>>

(* Mutant of AddFrame: the tag is computed before the frame is added.      *)
TagFirst(h, a) ==
  /\ heap[a] # NULL
  /\ Len(body[h]) < MaxFrames
  /\ body' = [body EXCEPT ![h] = Append(@, a)]
  /\ tag' = [tag EXCEPT ![h] = IF body[h] = <<>> THEN @
                                ELSE T!update_tag(Values(h), @)]
  /\ T!Attest(tag'[h])
  /\ written' = [written EXCEPT
       ![h] = IF @ = NULL THEN @ ELSE Append(@, frame_to_string(heap[a]))]
  /\ UNCHANGED heap

(* add_frame(a): the pointer is kept, the tag is computed from what the    *)
(* frame is now.                                                           *)
AddFrame(h, a) ==
  /\ heap[a] # NULL
  /\ Len(body[h]) < MaxFrames
  /\ body' = [body EXCEPT ![h] = Append(@, a)]
  /\ tag' = [tag EXCEPT ![h] = T!update_tag(ValuesOf(body'[h]), @)]
  /\ T!Attest(tag'[h])
  /\ written' = [written EXCEPT
       ![h] = IF @ = NULL THEN @ ELSE Append(@, frame_to_string(heap[a]))]
  /\ UNCHANGED heap

(* set_body_frames with what get_body returns, or its first elements: the  *)
(* frames are shared.                                                      *)
SetBodyFrames(h, other, n) ==
  /\ body' = [body EXCEPT ![h] = SubSeq(body[other], 1, n)]
  /\ written' = [written EXCEPT ![h] = NULL]
  /\ UNCHANGED <<heap, tag, attested>>

Next ==
  \/ \E a \in Address :
       NewFrame(a) \/ \E t \in PieceText : FrameFromString(a, t)
  \/ \E h \in Holder :
       \/ NewToken(h)
       \/ \E a \in Address : AddFrame(h, a)
       \/ \E other \in Holder : \E n \in 0 .. Len(body[other]) :
            SetBodyFrames(h, other, n)

Spec == Init /\ [][Next]_vars

-----------------------------------------------------------------------------
(***************************************************************************)
(* Properties.                                                             *)
(***************************************************************************)

(* Pointers point to frames, and frames have the fields of frames. *)
TypeOK ==
  /\ heap \in [Address -> Frame \cup {NULL}]
  /\ \A h \in Holder : \A i \in DOMAIN body[h] : heap[body[h][i]] # NULL
  /\ tag \in [Holder -> Tag]
  /\ attested \subseteq Seq(ElementText)
  /\ written \in [Holder -> Seq(FrameText) \cup {NULL}]

(* If is_valid_signature accepts an object, then the frames it holds now   *)
(* read as frames that update_tag put there behind one another, however    *)
(* frames are shared between objects and edited behind their backs.        *)
VerifiedWasAttested == T!VerifiedWasAttested

(* An object made with add_frame verifies as long as each of its frames    *)
(* reads as it did when it was added, and not a moment longer: editing a   *)
(* frame shows in every object that took the pointer, also when the object *)
(* took one frame twice, or took further frames after the edit.            *)
VerifiesWhileUnedited ==
  \A h \in Holder :
    written[h] # NULL /\ body[h] # <<>> => (Valid(h) <=> Text(h) = written[h])

(* Why it holds: the pointers of a body go to what was made, and the tag   *)
(* that add_frame keeps is the code of what its frames read as then.       *)
Pointers == body \in [Holder -> Seq(Address)]

TagsWritten ==
  \A h \in Holder : written[h] # NULL =>
    /\ Len(written[h]) = Len(body[h])
    /\ body[h] # <<>> => tag[h] = [base |-> "secret", chain |-> written[h]]

(* Why VerifiedWasAttested holds: as in CapabilityToken, for the tags.     *)
TagsAttested == \A h \in Holder : PrefixesIn(tag[h], attested)

(* What Frame::from_string does to the text of a frame: both of its lists  *)
(* get longer at the end.                                                  *)
Prolongs(longer, s) ==
  Len(s) <= Len(longer) /\ \A k \in DOMAIN s : longer[k] = s[k]

GrewFrom(new, old) ==
  /\ Prolongs(new.capabilities, old.capabilities)
  /\ Prolongs(new.constraints, old.constraints)

LeadIsOwn(t) == t.lead <=> t.capabilities = <<>> /\ t.constraints # <<>>

(* Why NeverRepaired holds: the text of each frame has grown from what it  *)
(* was when the frame was added.                                           *)
Grown ==
  \A h \in Holder : written[h] # NULL =>
    \A k \in DOMAIN body[h] :
      /\ LeadIsOwn(written[h][k])
      /\ GrewFrom(frame_to_string(heap[body[h][k]]), written[h][k])

(* Since frames only grow, what an edit has broken stays broken: neither a *)
(* further edit nor a further frame makes the object verify again.         *)
NeverRepaired ==
  [][\A h \in Holder :
       (/\ written[h] # NULL /\ body[h] # <<>> /\ ~Valid(h)
        /\ written'[h] # NULL /\ body'[h] # <<>>)
         => ~Valid(h)']_vars

Edited == \E a \in Address : heap[a] # NULL /\ heap'[a] # heap[a]

(* Frames may be thought of as values, as CapabilityToken does: but for an *)
(* edit, each step is a call of CapabilityToken on the values the objects  *)
(* hold, or leaves all objects as they are.                                *)
ValuesUnlessEdited ==
  [][\/ Edited
     \/ Objects' = Objects
     \/ \E h \in Holder :
          \/ T!NewToken(h)
          \/ \E a \in Address : heap[a] # NULL /\ T!AddFrame(h, heap[a])
          \/ \E other \in Holder : \E n \in 0 .. Len(body[other]) :
               T!SetBodyFrames(h, other, n)]_vars
=============================================================================
