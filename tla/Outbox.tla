------------------------------- MODULE Outbox -------------------------------
(***************************************************************************)
(* What sync promises a user about an edit, whatever the tasks, requests,  *)
(* failures and restarts that carry it: the last edit of an entry waits    *)
(* until it is known to have arrived at a server, or until the user edits  *)
(* or deletes the entry.  Copies of an edit may be taken, lost, or arrive  *)
(* late and more than once, but nothing arrives that was not a copy of an  *)
(* edit that waited.                                                       *)
(*                                                                         *)
(* HistorySync implements this specification.                              *)
(***************************************************************************)
CONSTANTS Client, Content,
          Edit,     \* what identifies an edit
          None      \* no edit waits

VARIABLES
    waiting,    \* waiting[c][k]: the edit of k that c has still to push, or None
    flying,     \* edits of which some task or request holds a copy
    arrived     \* edits that a server has stored

vars == <<waiting, flying, arrived>>

TypeOK ==
    /\ waiting \in [Client -> [Content -> Edit \cup {None}]]
    /\ flying \subseteq Edit
    /\ arrived \subseteq Edit

Init ==
    /\ waiting = [c \in Client |-> [k \in Content |-> None]]
    /\ flying = {}
    /\ arrived = {}

\* A new edit by the user replaces the one that waits, and may be copied at once.
Record(c, k) ==
    LET e == waiting'[c][k] IN
    /\ e \in Edit \ (flying \cup arrived)
    /\ \A d \in Client, l \in Content : waiting[d][l] # e
    /\ waiting' = [waiting EXCEPT ![c][k] = e]
    /\ flying' \in {flying, flying \cup {e}}
    /\ UNCHANGED arrived

\* The user deletes the entry.
Withdraw(c, k) ==
    /\ waiting' = [waiting EXCEPT ![c][k] = None]
    /\ UNCHANGED <<flying, arrived>>

\* A task takes copies of edits that wait.
Copy ==
    /\ \A e \in flying' \ flying : \E c \in Client, k \in Content : e = waiting[c][k]
    /\ flying \subseteq flying'
    /\ UNCHANGED <<waiting, arrived>>

\* A copy arrives; another one may still be on its way.
Arrive(e) ==
    /\ arrived' = arrived \cup {e}
    /\ flying' \in {flying, flying \ {e}}
    /\ UNCHANGED waiting

\* Copies are given up or lost.
Lose ==
    /\ flying' \subseteq flying
    /\ UNCHANGED <<waiting, arrived>>

\* An edit that has arrived stops waiting.
Confirm(c, k) ==
    /\ waiting[c][k] \in arrived
    /\ waiting' = [waiting EXCEPT ![c][k] = None]
    /\ flying' \subseteq flying
    /\ UNCHANGED arrived

Next ==
    \/ \E c \in Client, k \in Content :
          Record(c, k) \/ Withdraw(c, k) \/ Confirm(c, k)
    \/ \E e \in flying : Arrive(e)
    \/ Copy \/ Lose

Spec == Init /\ [][Next]_vars
=============================================================================
