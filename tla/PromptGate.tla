----------------------------- MODULE PromptGate -----------------------------
(***************************************************************************)
(* What a gate that asks the user promises, whatever its bookkeeping: a     *)
(* client asks about a subject, and is answered once; "yes" only for a      *)
(* subject the user has granted, at any time before; and every client that  *)
(* asks is answered.                                                        *)
(***************************************************************************)
CONSTANTS Clients, Subjects, NoSubject

VARIABLES
    subject,   \* what each client asks about
    outcome,   \* "none" before it asks, "asking", then "yes" or "no"
    granted    \* the subjects the user has granted

vars == <<subject, outcome, granted>>

Init ==
    /\ subject = [c \in Clients |-> NoSubject]
    /\ outcome = [c \in Clients |-> "none"]
    /\ granted \subseteq Subjects

Ask(c) ==
    /\ outcome[c] = "none"
    /\ \E s \in Subjects : subject' = [subject EXCEPT ![c] = s]
    /\ outcome' = [outcome EXCEPT ![c] = "asking"]
    /\ UNCHANGED granted

Grant(s) ==
    /\ granted' = granted \cup {s}
    /\ UNCHANGED <<subject, outcome>>

Answer(c) ==
    /\ outcome[c] = "asking"
    /\ \/ subject[c] \in granted /\ outcome' = [outcome EXCEPT ![c] = "yes"]
       \/ outcome' = [outcome EXCEPT ![c] = "no"]
    /\ UNCHANGED <<subject, granted>>

Next == (\E c \in Clients : Ask(c) \/ Answer(c)) \/ (\E s \in Subjects : Grant(s))

Spec == Init /\ [][Next]_vars /\ \A c \in Clients : WF_vars(Answer(c))
=============================================================================
