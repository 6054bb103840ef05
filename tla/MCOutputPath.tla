---------------------------- MODULE MCOutputPath ----------------------------
(***************************************************************************)
(* OutputPath in the working directory /w, for output directories that     *)
(* are there, can be made and cannot be made, with and without dots, and   *)
(* for packages that fit into package_path and that are cut.               *)
(***************************************************************************)
EXTENDS OutputPath

MCCwd == << <<"w">> >>

MCChar == {".", "/", "a", "b", "c", "d", "g", "l", "n", "o", "q", "t", "v", "w",
           "1", "C"}

PlainDirs == {<<".">>, <<"o">>, <<"o", "/">>, <<"/">>, <<"/", "t">>, <<"o", "/", "q">>,
              <<"l", "o", "n", "g", "l", "o", "n", "g">>}
DottedDirs == {<<".", "/", "o">>, <<".", ".">>, <<"v", ".", "1">>}

MCOutputDirs == PlainDirs \cup DottedDirs

MCPackages == {<<"a">>, <<"a", ".", "b">>, <<"a", "b", ".", "c", ".", "d">>}

Bare == {<<>>, MCCwd}

(* A bare one, one with the output directory o, one that has what an
   earlier run in "." left, and one with a directory v/1. *)
MCFileSystems == {Bare,
                  Bare \cup {MCCwd \o << <<"o">> >>},
                  Bare \cup {MCCwd \o << <<"a">> >>},
                  Bare \cup {MCCwd \o << <<"v">> >>, MCCwd \o << <<"v">>, <<"1">> >>}}

=============================================================================
