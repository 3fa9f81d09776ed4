----------------------------- MODULE MCPipeline -----------------------------
(***************************************************************************)
(* Instance of Pipeline: prompts of one or two phrases that meet the       *)
(* detectors in every way that matters (a kind of material, a format, a    *)
(* class, a number, words inside other words), answers with one defect, or *)
(* a defect beside a prompt that is long or missing.                       *)
(***************************************************************************)
EXTENDS Pipeline

MCTyped == {"rpp", "slide", "lembar kerja", "latihan soal", "silabus", "modul", "kelas 10",
            "5 halaman", "0 slide", "dokumen", "cetak", "mudahkan"}

MCPrompts ==
  {<<a>> : a \in MCTyped \ {"mudahkan", "cetak", "dokumen", "kelas 10", "0 slide"}}
  \cup {<<"lembar kerja", "latihan soal">>, <<"rpp", "kelas 10">>, <<"slide", "5 halaman">>,
        <<"modul", "0 slide">>, <<"slide", "cetak">>, <<"latihan soal", "mudahkan">>,
        <<"modul", "dokumen">>}

MCInside ==
  [x \in MCTyped |->
     CASE x = "rpp"          -> {"rpp"}
       [] x = "slide"        -> {"slide"}
       [] x = "lembar kerja" -> {"lembar kerja"}
       [] x = "latihan soal" -> {"latihan", "soal", "latihan soal"}
       [] x = "silabus"      -> {"silabus"}
       [] x = "modul"        -> {"modul"}
       [] x = "kelas 10"     -> {"kelas", "10", "1", "kelas 1", "kelas 10", "digit"}
       [] x = "5 halaman"    -> {"halaman", "hal", "digit"}
       [] x = "0 slide"      -> {"slide", "digit"}
       [] x = "dokumen"      -> {"dokumen"}
       [] x = "cetak"        -> {"cetak"}
       [] x = "mudahkan"     -> {"mudah"}]
  @@ [v \in {"SD_Kelas_4"} |-> {"sd", "kelas", "4", "kelas 4", "digit"}]
  @@ [v \in {"pptx"} |-> {"pptx", "ppt"}]
  @@ [v \in {"docx"} |-> {"docx", "doc"}]
  @@ [v \in {"memahami"} |-> {"memahami"}]
  @@ [v \in {"mudah"} |-> {"mudah"}]
  @@ [v \in {"praktik"} |-> {"praktik"}]

MCWords ==
  [x \in MCTyped |-> {}] @@ [v \in {"SD_Kelas_4"} |-> {"sd", "kelas", "4"}]
  @@ [v \in {"mudah"} |-> {"mudah"}]

MCQuantity ==
  [x \in MCTyped |-> [u \in Units |-> CASE x = "5 halaman" /\ u = "halaman" -> 5
                                        [] x = "0 slide" /\ u = "slide" -> 0
                                        [] OTHER -> NoNumber]]

MCPreferences == {"auto", "docx"}
MCPickable == {"SD_Kelas_4", "pptx", "docx", "long", "2x45", "praktik", "oral", "mudah",
               "visual", "yes", "no"}
MCFreeText == [learning_objectives |-> {"memahami"}, question_count |-> {"10"}]
MCTokens  == [v \in {"SD_Kelas_4"} |-> {"sd", "kelas", "4"}]
MCCleaned == [v \in {"praktik"} |-> "praktik"]
MCSlideLists == {{}, {1, 21}}

\* An answer without a defect.
Good ==
  [envelope |-> "object", schema_version |-> "text", teacher_prompt |-> "text",
   language |-> "text", reasoning |-> "text", delivery |-> "text",
   intent |-> "object", goal |-> "text", clarify |-> "false",
   constraints |-> "object", preferred |-> "auto", duration |-> "number",
   candidates |-> "array", named |-> << <<"docx", 7000>>, <<"pdf", 6000>> >>,
   blueprint |-> "object", title |-> "text", summary |-> "text", sections |-> "objects",
   usable |-> <<2, 0>>, activities |-> 1, visual |-> FALSE,
   confidence |-> "object", score |-> 9, audience |-> "object", integrity |-> "absent",
   assets |-> "array", objectives |-> "array", plan |-> "absent", active |-> "absent",
   fields |-> "object", difficulty |-> "text", questions |-> "number", counts |-> "null",
   missing |-> "array"]

\* The defects, one field at a time.
Defects ==
  {<<"envelope", s>> : s \in {"padded", "blank", "not_json", "not_object"}}
  \cup {<<"schema_version", s>> : s \in {"absent", "blank"}}
  \cup {<<"delivery", s>> : s \in {"absent", "blank", "long"}}
  \cup {<<"intent", s>> : s \in {"absent", "null"}} \cup {<<"clarify", s>> : s \in {"true", "absent"}}
  \cup {<<"constraints", s>> : s \in {"absent", "null"}}
  \cup {<<"preferred", s>> : s \in {"pptx", "blank"}} \cup {<<"duration", "text">>}
  \cup {<<"candidates", s>> : s \in {"string", "object", "absent", "null"}}
  \cup {<<"blueprint", s>> : s \in {"string", "absent", "alias", "alias_string"}}
  \cup {<<"title", s>> : s \in {"absent", "number"}}
  \cup {<<"sections", s>> : s \in {"strings", "empty", "numbers"}}
  \cup {<<"confidence", "null">>, <<"integrity", "scoreless">>, <<"assets", "unmarked">>}
  \cup {<<"audience", s>> : s \in {"absent", "string"}}
  \cup {<<"objectives", s>> : s \in {"absent", "objects", "string"}}
  \cup {<<"plan", "object">>, <<"missing", "partial">>}
  \cup {<<"fields", "absent">>, <<"difficulty", "null">>, <<"questions", "text">>, <<"counts", "text">>}

MCAnswers ==
  {Good} \cup {[Good EXCEPT ![d[1]] = d[2]] : d \in Defects}
  \cup {[Good EXCEPT !.teacher_prompt = p, ![d[1]] = d[2]] :
          p \in {"long", "absent", "blank"},
          d \in {<<"language", "text">>, <<"delivery", "absent">>, <<"blueprint", "absent">>}}
  \cup {[Good EXCEPT !.score = 3, !.named = n, !.visual = TRUE] :
          n \in { << <<"pdf", 7000>>, <<"docx", 7000>> >>, << <<"ppt", -1>> >>, << >>,
                  << <<"pdf", 7001>>, <<"pptx", 7000>>, <<"docx", 7002>> >> }}

GoodDraft ==
  [envelope |-> "object", schema_version |-> "text", title |-> "text", summary |-> "text",
   delivery |-> "text", sections |-> "array", blocks |-> <<1, 2>>, slides |-> "absent",
   objectives |-> "array"]

MCDraftAnswers ==
  {GoodDraft, [GoodDraft EXCEPT !.envelope = "padded"], [GoodDraft EXCEPT !.envelope = "not_json"],
   [GoodDraft EXCEPT !.schema_version = "blank"], [GoodDraft EXCEPT !.title = "long"],
   [GoodDraft EXCEPT !.title = "blank", !.summary = "absent"],
   [GoodDraft EXCEPT !.blocks = <<0, 1>>], [GoodDraft EXCEPT !.blocks = <<-1>>],
   [GoodDraft EXCEPT !.sections = "absent", !.blocks = << >>],
   [GoodDraft EXCEPT !.sections = "absent", !.blocks = << >>, !.slides = "array"],
   [GoodDraft EXCEPT !.slides = "incomplete"], [GoodDraft EXCEPT !.objectives = "objects"]}
=============================================================================
