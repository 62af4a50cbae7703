------------------------------- MODULE MCDiff -------------------------------
(***************************************************************************)
(* Small instances of Diff: two paths, one below a directory.              *)
(***************************************************************************)
EXTENDS Diff

Foo == <<"core", "Foo">>
Bar == <<"Bar">>
PlainPaths == {Foo, Bar}
AccentedPaths == {Bar}
BlankPaths == {Foo}
=============================================================================
