-------------------------- MODULE NavigationService --------------------------
(***************************************************************************)
(* What hover, definition, declaration and implementation promise, however *)
(* they are computed: an answer is the answer to the text the request saw  *)
(* of its document, from the index that was installed when it was asked.   *)
(***************************************************************************)
CONSTANTS
  Requests, \* requests that may be under way at once
  Texts,    \* what a document can hold
  Indexes,  \* what the installed index can hold
  None      \* no text, no answer

VARIABLES
  seen,     \* the text of the document each request took
  index,    \* the installed index
  answer    \* what each request was answered

Init ==
  /\ seen = [r \in Requests |-> None]
  /\ index \in Indexes
  /\ answer = [r \in Requests |-> None]

Look(r, text) ==
  /\ seen' = [seen EXCEPT ![r] = text]
  /\ answer' = [answer EXCEPT ![r] = None]
  /\ UNCHANGED index

Answer(r) ==
  /\ seen[r] # None
  /\ answer' = [answer EXCEPT ![r] = [text |-> seen[r], index |-> index]]
  /\ UNCHANGED <<seen, index>>

Install ==
  /\ index' \in Indexes
  /\ UNCHANGED <<seen, answer>>

Next ==
  \/ \E r \in Requests : Answer(r) \/ \E text \in Texts \cup {None} : Look(r, text)
  \/ Install

Spec == Init /\ [][Next]_<<seen, index, answer>>
=============================================================================
