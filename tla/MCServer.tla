------------------------------ MODULE MCServer ------------------------------
(***************************************************************************)
(* The server with three interchangeable clients: with three, an erase in  *)
(* the middle of the list leaves a stale slot behind a record the loop has *)
(* not come to.                                                            *)
(***************************************************************************)
EXTENDS Server, TLC

\* Clients differ in nothing but their names.  Sound for invariants and step
\* properties only.
ClientSymmetry == Permutations(Client)

Safety == Init /\ [][Next]_vars

\* The behaviours Serves and TermReturns are about: nothing races term(),
\* nobody types.
Unraced ==
    /\ Init /\ [][Next /\ ~raced' /\ ~input']_vars
    /\ WF_vars(Loop)
    /\ WF_vars(Term /\ app # "serving")
=============================================================================
