--------------------------- MODULE MCAnalysisSession ---------------------------
(* A small instance of AnalysisSession for TLC: one section, which          *)
(* validation requires, stands for each of them.                           *)
EXTENDS AnalysisSession

Skips == {{}, {"dynamic"}}
IntoLayout == {TRUE}
OneSection == {"section"}
Partial == {<<"statespace", "broken">>}
Building == {"graph"}
Third == {3}
=============================================================================
