--------------------------- MODULE MCResearchTask ---------------------------
(* Requests to check: every workflow with up to two input files of every    *)
(* kind, with and without a URL, a provider and a platform where these      *)
(* make a difference; and plans of a model.                                 *)
EXTENDS ResearchTask

Ask(workflows, urls, inputs, providers, platforms) ==
    [workflow : workflows, urls : urls, inputs : inputs, provider : providers, platform : platforms]

UpToTwo == UNION {[1..n -> Kinds] : n \in 0..2}

ReportProviders == {"none", "ready"}

AllRequests ==
    Ask({"content_save_draft"}, {0}, UpToTwo, {"none"}, BOOLEAN) \cup
    Ask({"document_to_markdown"}, {0}, UpToTwo, {"none"}, {FALSE}) \cup
    Ask({"crawler_report", "file_report"}, {0}, UpToTwo, ReportProviders, {FALSE}) \cup
    Ask({"research_report", "web_to_markdown"}, 0..1, UpToTwo, ReportProviders, {FALSE}) \cup
    Ask({"auto"}, {0}, {<<>>}, {"none", "broken"}, {FALSE}) \cup
    Ask({"auto"}, {0}, {<<"text">>, <<"yaml">>}, {"ready"}, {TRUE}) \cup
    Ask({"auto"}, {1}, {<<>>, <<"text">>}, {"ready"}, {TRUE})

(* One text file, for a plan a model proposes. *)
DraftRequests == Ask({"auto"}, {0}, {<<"text">>}, {"ready"}, {TRUE})
=============================================================================
