------------------------------ MODULE PlanRules ------------------------------
(***************************************************************************)
(* Which plans there are: the rules a plan proposed by a model must keep   *)
(* (research_assistant/planner.py, make_model_step in workflows.py) and    *)
(* the plans the bundled workflow files are compiled to (workflows.py and  *)
(* workflows/*.yaml).  A step is a tool and the number of the URL or input *)
(* file it names (0: none); arguments the rules do not look at are left    *)
(* out.                                                                    *)
(***************************************************************************)
EXTENDS SequencesExt

Tools == {"web.fetch", "web.search", "file.read", "url_list.read", "browser.extract",
          "document.inspect", "document.convert", "markdown.validate", "content.prepare_draft",
          "data.normalize", "data.to_markdown", "report.summarize", "report.compose"}

SourceTools == {"web.fetch", "web.search", "file.read", "url_list.read", "browser.extract",
                "document.inspect"}

FileTools == {"file.read", "url_list.read", "browser.extract", "document.inspect",
              "document.convert"}

FinalTools == {"content.prepare_draft", "report.compose"}

(* The kinds of input file, by suffix: crawler configs, Markdown or plain   *)
(* text, CSV or JSON, DOCX or PDF.                                          *)
Kinds == {"yaml", "text", "data", "document"}

DocumentKinds == {"text", "document"}

-----------------------------------------------------------------------------
(* Plans a model proposes.                                                 *)

(* Mutant: sources are accepted again after a transformation. *)
SourcesAnywhere(before, tool) == TRUE

(* No new sources after the first transformation. *)
SourcesFirst(before, tool) == tool \in SourceTools => before \subseteq SourceTools

(* Mutant: any source will do for a table, a summary or a report. *)
SourceFirst(before, tool) ==
    tool \in {"data.to_markdown", "report.summarize", "report.compose"} =>
        before \cap SourceTools # {}

DatasetFirst(before, tool) ==
    tool \in {"data.to_markdown", "report.summarize", "report.compose"} =>
        "data.normalize" \in before

(* A tool may come after the tools in before. *)
Acceptable(before, tool) ==
    /\ before \cap FinalTools = {}
    /\ SourcesFirst(before, tool)
    /\ tool \in {"document.convert", "data.normalize"} => before \cap SourceTools # {}
    /\ tool = "data.normalize" => tool \notin before
    /\ DatasetFirst(before, tool)
    /\ tool = "markdown.validate" => "document.convert" \in before
    /\ tool = "content.prepare_draft" => "markdown.validate" \in before

(* A model may only name what the user named: URLs, input files (as         *)
(* input:<index>), the configured provider.                                 *)
Permitted(r, tool, ref) ==
    /\ ref \in CASE tool = "web.fetch" -> 1..r.urls
                 [] tool \in FileTools -> 1..Len(r.inputs)
                 [] OTHER -> {0}
    /\ tool = "report.summarize" => r.provider # "none"

-----------------------------------------------------------------------------
(* Plans of the bundled workflows.                                         *)

Indices(n) == [i \in 1..n |-> i]

InputsOf(r, kinds) == SelectSeq(Indices(Len(r.inputs)), LAMBDA i : r.inputs[i] \in kinds)

(* What a step of a definition is repeated over, as numbers of URLs or      *)
(* input files; a step without for_each is compiled once.                   *)
Collection(r, name) ==
    CASE name = "" -> <<0>>
      [] name = "urls" -> Indices(r.urls)
      [] name = "input_files" -> InputsOf(r, Kinds)
      [] name = "yaml_input_files" -> InputsOf(r, {"yaml"})
      [] name = "document_input_files" -> InputsOf(r, DocumentKinds)

ConditionMatches(r, when) ==
    CASE when = "always" -> TRUE
      [] when = "has_urls" -> r.urls > 0
      [] when = "has_input_files" -> r.inputs # <<>>
      [] when = "no_sources" -> r.urls = 0 /\ r.inputs = <<>>
      [] when = "provider_configured" -> r.provider # "none"

Satisfied(r, requirement) ==
    CASE requirement = "input_files" -> r.inputs # <<>>
      [] requirement = "sources" -> r.urls > 0 \/ r.inputs # <<>>
      [] requirement = "yaml_inputs" -> InputsOf(r, {"yaml"}) # <<>>
      [] requirement = "document_inputs" -> InputsOf(r, DocumentKinds) # <<>>
      [] requirement = "platform" -> r.platform

Do(tool) == [tool |-> tool, each |-> "", when |-> "always"]
DoWhen(when, tool) == [Do(tool) EXCEPT !.when = when]
DoEach(each, tool) == [Do(tool) EXCEPT !.each = each]
DoEachWhen(when, each, tool) == [DoEach(each, tool) EXCEPT !.when = when]

ContentSaveDraft ==
    [requires |-> {"document_inputs", "platform"},
     steps |-> <<DoEach("document_input_files", "document.inspect"),
                 DoEach("document_input_files", "document.convert"),
                 Do("markdown.validate"), Do("content.prepare_draft")>>]

DocumentToMarkdown ==
    [requires |-> {"document_inputs"},
     steps |-> <<DoEach("document_input_files", "document.inspect"),
                 DoEach("document_input_files", "document.convert"),
                 Do("markdown.validate")>>]

CrawlerReport ==
    [requires |-> {"yaml_inputs"},
     steps |-> <<DoEach("yaml_input_files", "browser.extract"), Do("data.normalize"),
                 DoWhen("provider_configured", "report.summarize"), Do("report.compose")>>]

FileReport ==
    [requires |-> {"input_files"},
     steps |-> <<DoEach("input_files", "file.read"), Do("data.normalize"),
                 DoWhen("provider_configured", "report.summarize"), Do("report.compose")>>]

ResearchReport ==
    [requires |-> {},
     steps |-> <<DoEachWhen("has_urls", "urls", "web.fetch"),
                 DoEachWhen("has_input_files", "input_files", "file.read"),
                 DoWhen("no_sources", "web.search"), Do("data.normalize"),
                 DoWhen("provider_configured", "report.summarize"), Do("report.compose")>>]

WebToMarkdown ==
    [requires |-> {"sources"},
     steps |-> <<DoEachWhen("has_urls", "urls", "web.fetch"),
                 DoEachWhen("has_input_files", "input_files", "file.read"),
                 Do("data.normalize"), Do("data.to_markdown"),
                 DoWhen("provider_configured", "report.summarize"), Do("report.compose")>>]

Definitions ==
    [content_save_draft |-> ContentSaveDraft, document_to_markdown |-> DocumentToMarkdown,
     crawler_report |-> CrawlerReport, file_report |-> FileReport,
     research_report |-> ResearchReport, web_to_markdown |-> WebToMarkdown]

Workflows == DOMAIN Definitions \cup {"auto"}

RequirementsHold(r) == \A x \in Definitions[r.workflow].requires : Satisfied(r, x)

(* The steps a raw step of a definition is compiled to. *)
Compiled(r, raw) ==
    IF ConditionMatches(r, raw.when)
    THEN LET refs == Collection(r, raw.each)
         IN [k \in DOMAIN refs |-> [tool |-> raw.tool, ref |-> refs[k]]]
    ELSE <<>>

Expanded(r) ==
    LET raw == Definitions[r.workflow].steps
    IN FlattenSeq([k \in DOMAIN raw |-> Compiled(r, raw[k])])
=============================================================================
