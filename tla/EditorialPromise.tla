-------------------------- MODULE EditorialPromise --------------------------
(***************************************************************************)
(* What the portal promises about the editorial status of a publication,   *)
(* whatever its pipelines do: a paper enters the site as a draft or by an  *)
(* editor's hand, and from then on its status moves only when a save an    *)
(* editor asked for is carried out.  EditorialRecord implements this.      *)
(***************************************************************************)

CONSTANTS
    Pubs,       \* record ids
    Editors,    \* people (and scripts) allowed to decide
    States      \* the editorial states a paper can be in

VARIABLES
    status,     \* status[p]: a state, "absent" before creation, "deleted" after
    asked       \* asked[e]: the save e has under way, or NoAsk

NoAsk == [pub |-> "none", status |-> "none"]
Live(p) == status[p] \in States

PromiseInit ==
    /\ status = [p \in Pubs |-> "absent"]
    /\ asked = [e \in Editors |-> NoAsk]

(* An editor submits a save that carries the status s. *)
Ask(e, p, s) ==
    /\ asked[e] = NoAsk
    /\ Live(p)
    /\ asked' = [asked EXCEPT ![e] = [pub |-> p, status |-> s]]
    /\ UNCHANGED status

(* The save is carried out on the paper it was asked for, or fails. *)
Decide(e, p, s) ==
    /\ asked[e] = [pub |-> p, status |-> s]
    /\ Live(p)
    /\ status' = [status EXCEPT ![p] = s]
    /\ asked' = [asked EXCEPT ![e] = NoAsk]

Decline(e) ==
    /\ asked[e] # NoAsk
    /\ asked' = [asked EXCEPT ![e] = NoAsk]
    /\ UNCHANGED status

(* A pipeline adds a paper: always as a draft in the review queue. *)
Draft(p) ==
    /\ status[p] = "absent"
    /\ status' = [status EXCEPT ![p] = "pending_review"]
    /\ UNCHANGED asked

(* An editor adds a paper by hand, in the state they choose. *)
Author(p, s) ==
    /\ status[p] = "absent"
    /\ status' = [status EXCEPT ![p] = s]
    /\ UNCHANGED asked

Remove(p) ==
    /\ Live(p)
    /\ status' = [status EXCEPT ![p] = "deleted"]
    /\ UNCHANGED asked

PromiseNext ==
    \/ \E e \in Editors, p \in Pubs, s \in States : Ask(e, p, s) \/ Decide(e, p, s)
    \/ \E e \in Editors : Decline(e)
    \/ \E p \in Pubs : Draft(p) \/ Remove(p)
    \/ \E p \in Pubs, s \in States : Author(p, s)

Promise == PromiseInit /\ [][PromiseNext]_<<status, asked>>
=============================================================================
