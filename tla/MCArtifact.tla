------------------------------ MODULE MCArtifact ------------------------------
(* An instance of Artifact: a path that may be a file or the directory of     *)
(* another, and one with an ignored name.                                     *)
EXTENDS Artifact

MCOrder == <<<<"a">>, <<"a", "b">>, <<"c">>, <<"d">>>>

MCIgnored == {<<"d">>}

==============================================================================
