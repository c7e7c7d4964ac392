---------------------------- MODULE MCWorkspaces ----------------------------
(* Instances of Accounts, Membership and ActionCards for TLC: a behaviour   *)
(* moves in one of Part, and the others stay as they begin.                 *)
EXTENDS Workspaces, TLC

CONSTANTS n1, Part   \* the name of all accounts, and what a behaviour may move

VARIABLE part    \* the one that moves

\* Accounts of one name.
SameName == [a \in Account |-> n1]

Symmetry ==
    Permutations(Account) \cup Permutations(Admin \cap Joiner) \cup Permutations(Admin \ Joiner)
    \cup Permutations(Joiner \ Admin) \cup Permutations(Tab) \cup Permutations(Email)

MCInit == part \in Part /\ Init /\ People!Init /\ Cards!Init
MCNext ==
    \/ part = "cards" /\ Cards!Next /\ UNCHANGED <<part, vars, peopleVars>>
    \/ part = "people" /\ People!Next /\ UNCHANGED <<part, vars, cardVars>>
    \/ part = "pages" /\ Next /\ UNCHANGED <<part, peopleVars, cardVars>>
MCSpec == MCInit /\ [][MCNext]_<<part, vars, peopleVars, cardVars>>
=============================================================================
