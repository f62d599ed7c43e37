----------------------------- MODULE MCAsyncVfs -----------------------------
(***************************************************************************)
(* The files of a small tree, two at a time, in blocks of two bytes.       *)
(***************************************************************************)
EXTENDS AsyncVfs

ReadMe == <<"workspace", "readme">>
Log == <<"log", "actions">>
New == <<"workspace", "new">>
MCPaths == {<<>>, <<"tools">>, <<"workspace">>, ReadMe, New, New \o <<"x">>, <<"log">>, Log}
MCFilePaths == {ReadMe, New, Log}
MCContents == {<<8>>}
=============================================================================
