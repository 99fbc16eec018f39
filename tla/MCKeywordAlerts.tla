--------------------------- MODULE MCKeywordAlerts ---------------------------
(* Two programs of half an hour, and a day that begins with the second.    *)
EXTENDS KeywordAlerts

TwoPrograms == {1, 2}
TwoStarts == <<0, 6>>
TwoEnds == <<6, 12>>
=============================================================================
