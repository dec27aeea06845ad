------------------------ MODULE MCResumableDownload ------------------------
(* Small instances of ResumableDownload for TLC. *)
EXTENDS ResumableDownload, TLC

(* Two versions that differ in every byte, and a shorter one *)
SmallFiles == {<<"a", "b">>, <<"c", "d">>, <<"a">>}
FirstFile == <<"a", "b">>
=============================================================================
