---- MODULE MCMetadataPipe ----
(* MetadataPipe with an empty item, a short one and one that is wrapped.   *)
EXTENDS MetadataPipe

MCPayloads == {<< >>, <<"a">>, <<"a", "b">>}
====
