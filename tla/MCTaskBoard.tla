---------------------------- MODULE MCTaskBoard ----------------------------
(***************************************************************************)
(* One task of the seed with 90 seconds left, one that may be created, an  *)
(* agent and an NPC: enough for two to log work on one task inside each    *)
(* other's calls, to finish, reopen and comment on it, to depend on the    *)
(* other task and to overrun the call in progress.  bob is not of the      *)
(* company.                                                                *)
(***************************************************************************)
EXTENDS TaskBoard

CONSTANTS agent, ann, bob, t1, t2, none, empty

OneSeed == [t \in {t1} |-> [status |-> "Backlog", estimate |-> 90,
                            remaining |-> 0, depends_on |-> {},
                            assignee |-> agent]]

\* No estimate, a negative one (nothing forbids it) and a positive one.
SomeEstimates == {none, -1, 30}
=============================================================================
