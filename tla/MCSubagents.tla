---------------------------- MODULE MCSubagents ----------------------------
(***************************************************************************)
(* Team, and the lease of the process that owns the session's subagents.   *)
(* They share no variable; `part`, chosen at the start, says which of them *)
(* moves.                                                                  *)
(***************************************************************************)
EXTENDS Team

CONSTANT Procs

VARIABLES
    part,
    lock, owner, reaping, young, fresh, pc, blind, twice  \* ParentLease

L == INSTANCE ParentLease

leaseVars == <<lock, owner, reaping, young, fresh, pc, blind, twice>>

MCInit ==
    /\ part \in {"team", "lease"}
    /\ Init /\ L!Init

MCNext ==
    /\ UNCHANGED part
    /\ \/ part = "team" /\ Next /\ UNCHANGED leaseVars
       \/ part = "lease" /\ L!Next /\ UNCHANGED vars

MCSpec == MCInit /\ [][MCNext]_<<part, vars, leaseVars>>

\* The state of the parts has its types.
SubagentsTypeOK == TypeOK /\ L!TypeOK

\* One process owns the session's subagents (ownership.ts).  The properties of Team are
\* stated there.
OneParent == L!OneParent
=============================================================================
