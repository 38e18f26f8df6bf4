---------------------------- MODULE MCRetention ----------------------------
(* Schemas for Retention: a configuration file cannot write sequences.       *)
EXTENDS Retention

\* Two columns or items, and the first of them dropped: what is then the first is of
\* another type, a row has one datum too many or too few, an item is gone or is new.
MCSchemas == {<<"int", "str">>, <<"str">>}

\* A configuration that never changes.
MCOneSchema == {<<"int", "str">>}
=============================================================================
