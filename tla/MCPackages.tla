----------------------------- MODULE MCPackages -----------------------------
(* A behaviour is one of a user who also installs modules, while releases   *)
(* are published one after the other, or one of two rivals who publish the  *)
(* same version at once, and of the check that runs in the background.      *)
EXTENDS Packages, TLC

VARIABLE part

MCModules == {<<"a", "x">>, <<"b", "y">>}
MCRedirects == {<<<<"a", "x">>, <<"b", "y">>>>}
MCFeatured == {<<"b", "y">>}
MCPublished == {[module |-> <<"a", "x">>, version |-> 1, code |-> "c", published |-> 0]}
MCInstalls == {<<"a", "x">>} \X {None} \X BOOLEAN \cup {<<<<"b", "y">>, 1, FALSE>>}

Both == {<<<<"a", "x">>, 2, "c">>, <<<<"b", "y">>, 1, "c">>}
Later == <<<<"b", "y">>, 2, "c">>
Rival == <<<<"b", "y">>, 1, "d">>
MCUploads == Both \cup {Later, Rival}

Begun == {txn[r] : r \in {x \in Requests : txn[x] # NoTxn}}
Asks(t, u) == <<t.module, t.version, t.code>> = u
OneAfterTheOther == clock = 0 /\ Cardinality({r \in Requests : txn[r] # NoTxn}) <= 1

PartsInit == part \in {"install", "rivals"} /\ Init
PartsNext ==
  /\ UNCHANGED part
  /\ Next
  /\ part = "install" => OneAfterTheOther' /\ ~ \E t \in Begun' : Asks(t, Rival)
  /\ part = "rivals" => cmd' # "install" /\ ~ \E t \in Begun' : Asks(t, Later)
PartsSpec == PartsInit /\ [][PartsNext]_<<part, packageVars>>

Symmetry == Permutations(Requests)
=============================================================================
