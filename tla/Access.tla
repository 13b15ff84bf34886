------------------------------- MODULE Access -------------------------------
(***************************************************************************)
(* What capability tokens and identity tokens are for, said without texts  *)
(* and codes: a service that remembers which bodies were put together      *)
(* element by element and which names stand behind which body, is asked    *)
(* whether a body may do an operation, and answers.  The answer "crashed"  *)
(* stands for a call that the code leaves undefined.                       *)
(***************************************************************************)
EXTENDS Decision

VARIABLES
  chains,    \* the bodies put together, and their beginnings
  vouched,   \* the names put behind a body
  question,  \* what is asked: a body, a name or NULL, an operation
  answer     \* "none", while a question is "pending", or what was answered

accessVars == <<chains, vouched, question, answer>>

Questions ==
  [body : Seq(Element), name : Principal \cup {"", NULL}, operation : Bits]

Silent == UNCHANGED <<question, answer>>

Init ==
  /\ chains = {}
  /\ vouched = {}
  /\ answer = "none"
  /\ question \in Questions

(* One element is put behind a body that is known, or begins one. *)
Extend ==
  /\ \E c \in chains' :
       /\ chains' = chains \cup {c}
       /\ Len(c) = 1 \/ SubSeq(c, 1, Len(c) - 1) \in chains
  /\ Silent /\ UNCHANGED vouched

(* A name is put behind a body, known or not. *)
Vouch ==
  /\ \E v \in vouched' : vouched' = vouched \cup {v}
  /\ Silent /\ UNCHANGED chains

Ask ==
  /\ answer = "none"
  /\ question' \in Questions
  /\ answer' = "pending"
  /\ UNCHANGED <<chains, vouched>>

(* Each element was put behind the elements before it. *)
PutTogether(body) ==
  \A n \in 1 .. Len(body) : SubSeq(body_to_string(body), 1, n) \in chains

(* A name is presented for exactly this body. *)
Presented(q) ==
  q.name # NULL => [name |-> q.name, body |-> body_to_string(q.body)] \in vouched

Permitted(q) ==
  /\ q.body # <<>>
  /\ PutTogether(q.body)
  /\ Presented(q)
  /\ Derived(q.body)
  /\ IdentityAccepted(q.body, IF q.name = NULL THEN NULL
                                ELSE [identity_token |-> q.name])

(* What is asked is within the last frame, and the operation is as asked.  *)
(* Undefined without a request at the end, or without a frame before it.   *)
Defined(body) == Len(body) > 1 /\ body[Len(body)].kind = "request"

Answers(q) ==
  {"rejected"} \cup
    IF ~Permitted(q) THEN {}
    ELSE IF Defined(q.body)
         THEN IF Granted([token |-> [body |-> q.body], operation |-> q.operation])
              THEN {"accepted"} ELSE {}
         ELSE {"accepted", "crashed"}

Answer ==
  /\ answer = "pending"
  /\ answer' \in Answers(question)
  /\ UNCHANGED <<chains, vouched, question>>

(* The service is ready for the next question. *)
Close ==
  /\ answer \notin {"none", "pending"}
  /\ answer' = "none"
  /\ question' \in Questions
  /\ UNCHANGED <<chains, vouched>>

Next == Extend \/ Vouch \/ Ask \/ Answer \/ Close

Safety == Init /\ [][Next]_accessVars

(* Every question is answered. *)
Spec == Safety /\ WF_accessVars(Answer)
=============================================================================
