----------------------------- MODULE MCSegmenter -----------------------------
(* Segmenter with two tags, one of which begins like the other.                *)
EXTENDS Segmenter

MCOfficialTags == {<<"[", "g", "]">>, <<"[", "g", "g", "]">>}

================================================================================
