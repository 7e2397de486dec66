---------------------------- MODULE MCExportQueue ----------------------------
(* A small instance: files of two chunks, and sources changed, cut and grown. *)
EXTENDS ExportQueue

MCChunks == {"c1", "c2", "c3", "xx"}
MCOriginal == [i \in Items |-> <<"c1", "c2">>]
MCContents == {<<"c1", "c2">>, <<"c1">>, <<"c1", "xx">>, <<"c1", "c2", "c3">>}
=============================================================================
