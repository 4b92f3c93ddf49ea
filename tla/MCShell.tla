------------------------------ MODULE MCShell -------------------------------
(* The shell, and two things its commands do that share no state with the   *)
(* rest of it: a behaviour is one of the shell, one of the filters the user *)
(* types for target, select, delete and noscope, or one of the processes    *)
(* that move, open and delete workspaces.                                   *)
EXTENDS Shell

CONSTANTS Columns, Texts, ParamColumn, MaxConds, Things

VARIABLES
  part,                                             \* which of the three it is
  conds, conns,                                     \* of Filters
  old, new, open, pc, arg, cmd, names, kept, still  \* of Workspaces

filterVars == <<conds, conns>>
workspaceVars == <<old, new, open, pc, arg, cmd, names, kept, still>>

F == INSTANCE Filters
W == INSTANCE Workspaces WITH Names <- Workspaces

ASSUME FiltersAssumption == F!FiltersAssumption
ASSUME WorkspacesAssumption == W!WorkspacesAssumption

(* What does not move in a behaviour starts in one way only.                *)
PartsInit ==
  /\ part \in {"shell", "filter", "workspaces"}
  /\ Init /\ F!Init /\ W!Init
  /\ part # "shell" => sh.ws = CHOOSE w \in Workspaces : TRUE
  /\ part # "workspaces" => old = [w \in Workspaces |-> W!Absent] /\ new = [w \in Workspaces |-> W!NoDir]

PartsNext ==
  /\ UNCHANGED part
  /\ \/ part = "shell" /\ Next /\ UNCHANGED <<filterVars, workspaceVars>>
     \/ part = "filter" /\ F!Next /\ UNCHANGED <<vars, workspaceVars>>
     \/ part = "workspaces" /\ W!Next /\ UNCHANGED <<vars, filterVars>>

PartsSpec == PartsInit /\ [][PartsNext]_<<part, vars, filterVars, workspaceVars>>

AccessOf == [m \in Modules |-> {"n"}]
NoKeySource == [m \in Modules |-> IF m = "scan" THEN "n" ELSE None]
SourceOf == [m \in Modules |-> IF m = "scan" THEN "keyring" ELSE "notifications"]
TheKeys == {<<"n", "k">>}
ScriptOf == [c1 |-> "notify", c2 |-> "scan"]
OnlyOf == [c1 |-> {}, c2 |-> {"w1"}]
TopicsOf == [c1 |-> {"insert"}, c2 |-> {}]

FilterExact == part = "filter" => F!FilterExact
TargetsInScope == part = "filter" => F!TargetsInScope
NothingLost == part = "workspaces" => W!NothingLost
OpenIsMigrated == part = "workspaces" => W!OpenIsMigrated
DeletedIsGone == W!DeletedIsGone
=============================================================================
