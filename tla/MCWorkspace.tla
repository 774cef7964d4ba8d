---------------------------- MODULE MCWorkspace ----------------------------
(* Workspace for TLC.                                                     *)
EXTENDS Workspace, TLC

CONSTANTS retail, Retail

\* "Retail" and "retail" differ by case only.
CaseFold == [n \in {retail, Retail} |-> retail]

\* A wizard that invites everybody, and one that invites nobody.
TwoWizards == {[items |-> {<<"segment", retail>>}, roles |-> [u \in Users |-> "analyst"]],
               [items |-> {<<"segment", Retail>>}, roles |-> <<>>]}

\* Requests and people are interchangeable names.
WorkspaceSymmetry == Permutations(Requests) \cup Permutations(Users)
=============================================================================
