-------------------------- MODULE SubmissionPromise --------------------------
(***************************************************************************)
(* What the service promises about a submission, without the workers, the  *)
(* monitor, their failures or the order of their statements.  An id is     *)
(* given out, a row appears under it, data is posted, and the row comes to *)
(* carry an extrinsic, after a post and for good; every bill has a post of *)
(* its own behind it.                                                      *)
(*                                                                         *)
(* The state a customer is told is weaker than that.  An error entry hides *)
(* an extrinsic the row already has, so "Finalized" may turn to "Error";   *)
(* but only once, while the submission's worker is still at it, and only   *)
(* an extrinsic recorded later takes "Error" away.  "Pending" never comes  *)
(* back.                                                                   *)
(***************************************************************************)
EXTENDS Naturals

CONSTANTS Subs, Signers

VARIABLES
  answered,  \* submissions whose id was returned
  status,    \* "state" of GET get_submission_info; "notFound": 404
  recorded,  \* submissions whose row carries an extrinsic
  closed,    \* answered submissions no worker holds a message of any more
  posts,     \* extrinsics per signer and submission
  charges    \* bills per signer and submission

promise == <<answered, status, recorded, closed, posts, charges>>

Init ==
  /\ answered = {} /\ recorded = {} /\ closed = {}
  /\ status = [s \in Subs |-> "notFound"]
  /\ posts = [p \in Signers |-> [s \in Subs |-> 0]]
  /\ charges = [p \in Signers |-> [s \in Subs |-> 0]]

Report(s, state) == status' = [status EXCEPT ![s] = state]

\* No worker will report an error of these submissions any more.
Close(S) == closed' = closed \cup S

\* The message may go to a worker that no longer receives.
Answer(s) ==
  /\ s \notin answered
  /\ answered' = answered \cup {s}
  /\ Close({}) \/ Close({s})
  /\ UNCHANGED <<status, recorded, posts, charges>>

Store(s) ==
  /\ s \in answered /\ status[s] = "notFound"
  /\ Report(s, "Pending")
  /\ UNCHANGED <<answered, recorded, closed, posts, charges>>

Post(p, s) ==
  /\ s \in answered
  /\ posts' = [posts EXCEPT ![p][s] = @ + 1]
  /\ UNCHANGED <<answered, status, recorded, closed, charges>>

\* An extrinsic is recorded after a post, whoever made it, and takes the place
\* of whatever state was reported before.
Record(s) ==
  /\ status[s] # "notFound"
  /\ \E p \in Signers : posts[p][s] > 0
  /\ Report(s, "Finalized")
  /\ recorded' = recorded \cup {s}
  /\ UNCHANGED <<answered, closed, posts, charges>>

\* The worker reports that it failed, be there an extrinsic or not, and is done.
Fail(s) ==
  /\ s \in answered \ closed /\ status[s] # "notFound"
  /\ Report(s, "Error")
  /\ Close({s})
  /\ UNCHANGED <<answered, recorded, posts, charges>>

\* The debit may be the last thing a worker does for a submission.
Bill(p, s) ==
  /\ charges[p][s] < posts[p][s]
  /\ charges' = [charges EXCEPT ![p][s] = @ + 1]
  /\ Close({}) \/ Close({s})
  /\ UNCHANGED <<answered, status, recorded, posts>>

\* Messages are lost, skipped or dealt with.
LetGo ==
  /\ \E S \in SUBSET answered : Close(S)
  /\ UNCHANGED <<answered, status, recorded, posts, charges>>

Next ==
  \/ LetGo
  \/ \E s \in Subs :
       \/ Answer(s) \/ Store(s) \/ Record(s) \/ Fail(s)
       \/ \E p \in Signers : Post(p, s) \/ Bill(p, s)

Spec == Init /\ [][Next]_promise
=============================================================================
