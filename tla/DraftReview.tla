----------------------------- MODULE DraftReview ------------------------------
(***************************************************************************)
(* The review of generated drafts as an author may imagine it: every draft *)
(* is offered by its run, decided by one reviewer at a time once the run   *)
(* is over, and enters the manuscript at most once.  It knows no managers, *)
(* objects, threads or hooks.                                              *)
(***************************************************************************)
EXTENDS Naturals

CONSTANT Job

VARIABLES
  over,         \* jobs whose run has nothing more to say
  draft,        \* what the stored record says of the draft
  claim,        \* how far the acceptance is that is under way: none, open,
                \* used (the text is written), answering (and accepted)
  text          \* how often the draft was written into the manuscript

vars == <<over, draft, claim, text>>

Draft == {"hidden", "offered", "accepting", "accepted", "uncertain", "rejected"}

Init ==
  /\ over = {}
  /\ draft = [j \in Job |-> "hidden"]
  /\ claim = [j \in Job |-> "none"]
  /\ text = [j \in Job |-> 0]

Becomes(j, d) == draft' = [draft EXCEPT ![j] = d]
Claims(j, c)  == claim' = [claim EXCEPT ![j] = c]

\* The run offers its draft, or does not, and may be over with that.
Run(j) ==
  /\ j \notin over
  /\ over' \in {over, over \cup {j}}
  /\ \E d \in {"hidden", "offered"} : Becomes(j, d)
  /\ UNCHANGED <<claim, text>>

\* Nothing is decided before the run is over.
Claim(j) ==
  /\ j \in over /\ claim[j] = "none" /\ draft[j] = "offered"
  /\ Becomes(j, "accepting") /\ Claims(j, "open")
  /\ UNCHANGED <<over, text>>

Write(j) ==
  /\ claim[j] = "open"
  /\ text' = [text EXCEPT ![j] = @ + 1]
  /\ Claims(j, "used")
  /\ UNCHANGED <<over, draft>>

Accept(j) ==
  /\ claim[j] = "used"
  /\ Becomes(j, "accepted") /\ Claims(j, "answering")
  /\ UNCHANGED <<over, text>>

\* The reviewer learns that the draft is accepted: no review changes it again.
Answer(j) ==
  /\ claim[j] = "answering"
  /\ Claims(j, "none")
  /\ UNCHANGED <<over, draft, text>>

\* An acceptance that fails before it is answered stays visible, if that can be
\* stored.
Fail(j) ==
  /\ claim[j] # "none"
  /\ Becomes(j, "uncertain") \/ UNCHANGED draft
  /\ Claims(j, "none")
  /\ UNCHANGED <<over, text>>

Reject(j) ==
  /\ j \in over /\ claim[j] = "none" /\ draft[j] = "offered"
  /\ Becomes(j, "rejected")
  /\ UNCHANGED <<over, claim, text>>

\* A cancellation may hide a draft; it does not take a claim back.
Cancel(j) ==
  /\ Becomes(j, "hidden")
  /\ UNCHANGED <<over, claim, text>>

\* Processes end: some runs are over, some claims are left behind.
Die ==
  /\ \E J \in SUBSET Job : over' = over \cup J
  /\ \E J \in SUBSET Job :
       claim' = [j \in Job |-> IF j \in J THEN "none" ELSE claim[j]]
  /\ UNCHANGED <<draft, text>>

Decide(j) ==
  Claim(j) \/ Write(j) \/ Accept(j) \/ Answer(j) \/ Fail(j) \/ Reject(j)

Next == Die \/ \E j \in Job : Run(j) \/ Decide(j) \/ Cancel(j)

Spec == Init /\ [][Next]_vars
=============================================================================
