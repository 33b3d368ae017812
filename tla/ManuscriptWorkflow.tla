------------------------- MODULE ManuscriptWorkflow -------------------------
(***************************************************************************)
(* From the project's papers to the final manuscript: the tools the agent  *)
(* has for a project (make_project_tools) and the artefact endpoints the   *)
(* user has meanwhile.  Every tool loads what it needs, refuses or writes, *)
(* and commits once; the order of the steps is the agent's.                *)
(*                                                                         *)
(* An artefact is saved under a title, and a second one of its type and    *)
(* title replaces it.  There is one title of each type here, and several   *)
(* designs and results.  A text is known by the number of its version, a   *)
(* full draft by the section drafts it was made of: what somebody else     *)
(* than the tool that assembles it has written has no such parts.          *)
(***************************************************************************)
EXTENDS Naturals, Sequences

CONSTANTS
  None,
  Papers,      \* papers of the user
  Sections,    \* ids of sections (a blueprint wants three; any number here)
  Outputs,     \* types of artefacts that are only saved
  MaxDesigns, MaxResults, MaxText, MaxFull, MaxRefs,  \* bounds on versions
  Contents,    \* what somebody writes as the content of a full draft
  UserEdits    \* types the user edits or deletes

Reference == [entries : SUBSET Papers, version : Nat]
Part      == [text : Nat, cites : SUBSET Papers, open : BOOLEAN]
FullDraft == [version : Nat, parts : UNION {[some -> Part] : some \in SUBSET Sections},
              open : BOOLEAN, listed : Nat, whole : BOOLEAN]

ManuscriptAssumption ==
  /\ Outputs \subseteq {"research_brief", "literature_screening", "research_map",
                        "reading_plan", "evidence_matrix", "outline"}
  /\ UserEdits \subseteq {"experiment_design", "paper_blueprint", "section_draft",
                        "full_draft"}
  /\ Contents \subseteq [open : BOOLEAN, listed : Nat, whole : BOOLEAN]
  /\ {MaxDesigns, MaxResults, MaxText, MaxFull, MaxRefs} \subseteq Nat
  /\ None \notin Reference \union FullDraft

VARIABLES
  library,    \* papers of the project
  carded,     \* those of them with a card
  outputs,    \* types saved
  designs,    \* experiment designs, the last one updated last
  designed,   \* how many there were
  results,    \* design each experiment_results artefact belongs to, or 0
  blueprint, drafts, refs, full, report, final

manuscriptVars == <<library, carded, outputs, designs, designed, results,
                    blueprint, drafts, refs, full, report, final>>

ManuscriptInit ==
  /\ library = {} /\ carded = {} /\ outputs = {}
  /\ designs = <<>> /\ designed = 0 /\ results = [r \in 1..MaxResults |-> 0]
  /\ blueprint = None /\ drafts = [s \in Sections |-> None]
  /\ refs = None /\ full = None /\ report = None /\ final = None

-----------------------------------------------------------------------------
(* The library *)

(* Adding a paper again changes its role and notes only. *)
AddPaper(p) ==
  /\ p \notin library
  /\ library' = library \union {p}
  /\ UNCHANGED <<carded, outputs, designs, designed, results, blueprint, drafts,
                 refs, full, report, final>>

(* The card is a column of the membership and goes with it. *)
RemovePaper(p) ==
  /\ p \in library
  /\ library' = library \ {p} /\ carded' = carded \ {p}
  /\ UNCHANGED <<outputs, designs, designed, results, blueprint, drafts, refs,
                 full, report, final>>

SavePaperCard(p) ==
  /\ p \in library \ carded
  /\ carded' = carded \union {p}
  /\ UNCHANGED <<library, outputs, designs, designed, results, blueprint, drafts,
                 refs, full, report, final>>

-----------------------------------------------------------------------------
(* Artefacts that are only saved *)

(* What a type of artefact needs: a screening the brief, a plan papers, a  *)
(* matrix cards.                                                           *)
Ready(type) ==
  CASE type = "literature_screening" -> "research_brief" \in outputs
    [] type = "reading_plan"         -> library # {}
    [] type = "evidence_matrix"      -> carded # {}
    [] OTHER                         -> TRUE

SaveOutput(type) ==
  /\ Ready(type)
  /\ outputs' = outputs \union {type}
  /\ UNCHANGED <<library, carded, designs, designed, results, blueprint, drafts,
                 refs, full, report, final>>

-----------------------------------------------------------------------------
(* Design and results *)

DesignIds == {designs[i].id : i \in 1..Len(designs)}
DesignOf(id) == CHOOSE d \in {designs[i] : i \in 1..Len(designs)} : d.id = id
Others(id) ==
  IF id \notin DesignIds THEN designs
  ELSE LET i == CHOOSE k \in 1..Len(designs) : designs[k].id = id
       IN  SubSeq(designs, 1, i - 1) \o SubSeq(designs, i + 1, Len(designs))

SaveDesign(id, needs) ==
  /\ "evidence_matrix" \in outputs
  /\ id \in DesignIds \union {designed + 1}
  /\ designs' = Append(Others(id), [id |-> id, needs |-> needs])
  /\ designed' = IF id > designed THEN id ELSE designed
  /\ UNCHANGED <<library, carded, outputs, results, blueprint, drafts, refs,
                 full, report, final>>

(* Sources are unique and every metric has one: what does not is refused.  *)
SaveResults(r, id) ==
  /\ id \in DesignIds
  /\ results' = [results EXCEPT ![r] = id]
  /\ UNCHANGED <<library, carded, outputs, designs, designed, blueprint, drafts,
                 refs, full, report, final>>

-----------------------------------------------------------------------------
(* Blueprint, sections, references *)

Plans == (SUBSET Sections) \ {{}}

(* The blueprint takes the design that was updated last, if there is one. *)
SaveBlueprint(planned) ==
  /\ blueprint' = [sections |-> planned,
                   design |-> IF designs = <<>> THEN 0 ELSE designs[Len(designs)].id]
  /\ UNCHANGED <<library, carded, outputs, designs, designed, results, drafts,
                 refs, full, report, final>>

Bound(r) == r # 0 /\ results[r] # 0 /\ results[r] = blueprint.design

(* What a section cites, whether with a place in the paper, whether it has *)
(* placeholders, and the results it reports, if any.                       *)
SectionInputs ==
  {in \in [cites : SUBSET Papers, located : BOOLEAN, open : BOOLEAN,
           result : 0..MaxResults] : in.located => in.cites # {}}

Rewritten(in, text) ==
  [text |-> text, cites |-> in.cites, located |-> in.located, open |-> in.open,
   result |-> in.result]

SaveSection(s, in) ==
  /\ blueprint # None /\ s \in blueprint.sections
  /\ in.result # 0 => Bound(in.result)
  /\ in.cites \subseteq library
  /\ drafts' = [drafts EXCEPT ![s] =
       Rewritten(in, IF @ = None THEN 1 ELSE @.text + 1)]
  /\ UNCHANGED <<library, carded, outputs, designs, designed, results, blueprint,
                 refs, full, report, final>>

Drafted == {s \in Sections : drafts[s] # None}
Cited(parts) == UNION {parts[s].cites : s \in DOMAIN parts}
Current == [s \in Drafted |-> drafts[s]]

(* Papers have to be the user's; that they are still in the project is not *)
(* asked.                                                                  *)
BuildReferences ==
  /\ blueprint # None /\ Cited(Current) # {}
  /\ refs' = [entries |-> Cited(Current),
              version |-> IF refs = None THEN 1 ELSE refs.version + 1]
  /\ UNCHANGED <<library, carded, outputs, designs, designed, results, blueprint,
                 drafts, full, report, final>>

-----------------------------------------------------------------------------
(* Full draft, audit, final manuscript *)

NextVersion == IF full = None THEN 1 ELSE full.version + 1

ResultsAreMissing(used) ==
  /\ blueprint.design \in DesignIds
  /\ DesignOf(blueprint.design).needs
  /\ used = {}

(* What of a section's draft the full draft has. *)
Text(s) ==
  [text |-> drafts[s].text, cites |-> drafts[s].cites, open |-> drafts[s].open]

Assemble(tolerant) ==
  /\ blueprint # None /\ blueprint.sections # {}
  /\ blueprint.sections \subseteq Drafted /\ refs # None
  /\ LET parts == [s \in blueprint.sections |-> Text(s)]
         used  == {drafts[s].result : s \in blueprint.sections} \ {0}
         open  == \E s \in Drafted : drafts[s].open
     IN /\ open => tolerant
        /\ \A r \in used : Bound(r)
        /\ Cited(parts) \subseteq refs.entries
        /\ ~ResultsAreMissing(used)
        /\ full' = [version |-> NextVersion, parts |-> parts, open |-> open,
                    listed |-> refs.version, whole |-> TRUE]
  /\ UNCHANGED <<library, carded, outputs, designs, designed, results, blueprint,
                 drafts, refs, report, final>>

(* The audit looks at the drafts of the sections, as they are now. *)
Blocked ==
  \E s \in blueprint.sections :
    \/ drafts[s] = None
    \/ drafts[s] # None /\ drafts[s].open
    \/ drafts[s] # None /\ drafts[s].result # 0 /\ ~Bound(drafts[s].result)

(* Its report remembers, for the properties, what it is a report of.       *)
Audit(found) ==
  /\ full # None /\ full.whole /\ blueprint # None
  /\ report' = [version |-> full.version, blocked |-> found \/ Blocked, of |-> full]
  /\ UNCHANGED <<library, carded, outputs, designs, designed, results, blueprint,
                 drafts, refs, full, final>>

(* Faulty variant, for the mutation runs only: an audit is good for every   *)
(* later version.                                                          *)
MayFinalizeOnce ==
  /\ full # None /\ report # None
  /\ ~report.blocked /\ ~full.open /\ full.whole /\ blueprint # None
  /\ refs # None /\ refs.entries = Cited(Current)
  /\ full.listed = refs.version
  /\ \A s \in Drafted : drafts[s].cites # {} => drafts[s].located

MayFinalize ==
  /\ full # None /\ report # None /\ report.version = full.version
  /\ ~report.blocked /\ ~full.open /\ full.whole /\ blueprint # None
  /\ refs # None /\ refs.entries = Cited(Current)
  /\ full.listed = refs.version
  /\ \A s \in Drafted : drafts[s].cites # {} => drafts[s].located

Finalize ==
  /\ MayFinalize
  /\ final' = [version |-> full.version, cites |-> Cited(full.parts),
               open |-> \E s \in DOMAIN full.parts : full.parts[s].open]
  /\ UNCHANGED <<library, carded, outputs, designs, designed, results, blueprint,
                 drafts, refs, full, report>>

-----------------------------------------------------------------------------
(* What anybody may write as a full draft or a blueprint.                  *)
Written(version, content) ==
  [version |-> version, parts |-> <<>>, open |-> content.open,
   listed |-> content.listed, whole |-> content.whole]
WrittenBlueprints == [sections : SUBSET Sections, design : 0..MaxDesigns]

(* project_save_artifact takes any text with any content, and asks for     *)
(* nothing first; parent and meta of what it replaces stay, so that a list *)
(* of references is still one of the trusted tool, and a report one of the *)
(* audit, of which nobody knows what it was made of.                       *)
SaveArtifact ==
  \/ /\ \E content \in Contents : full' = Written(NextVersion, content)
     /\ UNCHANGED <<library, carded, outputs, designs, designed, results,
                    blueprint, drafts, refs, report, final>>
  \/ /\ refs # None
     /\ \E entries \in SUBSET Papers :
          refs' = [entries |-> entries, version |-> refs.version + 1]
     /\ UNCHANGED <<library, carded, outputs, designs, designed, results,
                    blueprint, drafts, full, report, final>>
  \/ /\ blueprint # None
     /\ blueprint' \in WrittenBlueprints
     /\ UNCHANGED <<library, carded, outputs, designs, designed, results, drafts,
                    refs, full, report, final>>
  \/ /\ report # None
     /\ \E version \in 0..MaxFull, blocked \in BOOLEAN :
          report' = [version |-> version, blocked |-> blocked, of |-> None]
     /\ UNCHANGED <<library, carded, outputs, designs, designed, results,
                    blueprint, drafts, refs, full, final>>
  \/ /\ \E type \in Outputs : outputs' = outputs \union {type}
     /\ UNCHANGED <<library, carded, designs, designed, results, blueprint,
                    drafts, refs, full, report, final>>

(* The user writes a full draft of their own, which has no report: POST.   *)
(* The one there was is left where it is.                                  *)
CreateArtifact ==
  /\ "full_draft" \in UserEdits
  /\ \E content \in Contents : full' = Written(1, content)
  /\ report' = None
  /\ UNCHANGED <<library, carded, outputs, designs, designed, results, blueprint,
                 drafts, refs, final>>

(* The papers in the bibliography a final manuscript is downloaded with.   *)
Exported == IF refs = None THEN {} ELSE refs.entries

(* PATCH: the user replaces the content or the text of what no integrity   *)
(* check protects, which is a new version, or a section's record, which is *)
(* none.                                                                   *)
EditArtifact ==
  \/ /\ "full_draft" \in UserEdits /\ full # None
     /\ \E content \in Contents : full' = Written(full.version + 1, content)
     /\ UNCHANGED <<library, carded, outputs, designs, designed, results,
                    blueprint, drafts, refs, report, final>>
  \/ /\ "section_draft" \in UserEdits
     /\ \E s \in Drafted, in \in SectionInputs :
          \E text \in drafts[s].text..drafts[s].text + 1 :
            drafts' = [drafts EXCEPT ![s] = Rewritten(in, text)]
     /\ UNCHANGED <<library, carded, outputs, designs, designed, results,
                    blueprint, refs, full, report, final>>
  \/ /\ "experiment_design" \in UserEdits
     /\ \E id \in DesignIds, needs \in BOOLEAN :
          designs' = Append(Others(id), [id |-> id, needs |-> needs])
     /\ UNCHANGED <<library, carded, outputs, designed, results, blueprint,
                    drafts, refs, full, report, final>>
  \/ /\ "paper_blueprint" \in UserEdits /\ blueprint # None
     /\ blueprint' \in WrittenBlueprints
     /\ UNCHANGED <<library, carded, outputs, designs, designed, results, drafts,
                    refs, full, report, final>>

(* What has a deleted artefact for a parent has none then, and the tools   *)
(* find it no more.                                                        *)
DeleteArtifact ==
  \/ /\ "full_draft" \in UserEdits /\ full # None
     /\ full' = None /\ report' = None
     /\ UNCHANGED <<library, carded, outputs, designs, designed, results,
                    blueprint, drafts, refs, final>>
  \/ /\ "section_draft" \in UserEdits
     /\ \E s \in Drafted : drafts' = [drafts EXCEPT ![s] = None]
     /\ UNCHANGED <<library, carded, outputs, designs, designed, results,
                    blueprint, refs, full, report, final>>
  \/ /\ "experiment_design" \in UserEdits
     /\ \E id \in DesignIds : designs' = Others(id)
     /\ UNCHANGED <<library, carded, outputs, designed, results, blueprint,
                    drafts, refs, full, report, final>>
  \/ /\ "paper_blueprint" \in UserEdits /\ blueprint # None
     /\ blueprint' = None /\ drafts' = [s \in Sections |-> None] /\ refs' = None
     /\ full' = IF full = None THEN None ELSE [full EXCEPT !.whole = FALSE]
     /\ UNCHANGED <<library, carded, outputs, designs, designed, results,
                    report, final>>

ManuscriptNext ==
  \/ \E p \in Papers : AddPaper(p) \/ RemovePaper(p) \/ SavePaperCard(p)
  \/ \E type \in Outputs : SaveOutput(type)
  \/ \E id \in 1..MaxDesigns : \/ \E needs \in BOOLEAN : SaveDesign(id, needs)
                               \/ \E r \in 1..MaxResults : SaveResults(r, id)
  \/ \E planned \in Plans : SaveBlueprint(planned)
  \/ \E s \in Sections, in \in SectionInputs : SaveSection(s, in)
  \/ BuildReferences
  \/ \E tolerant \in BOOLEAN : Assemble(tolerant)
  \/ \E found \in BOOLEAN : Audit(found)
  \/ Finalize \/ SaveArtifact \/ CreateArtifact \/ EditArtifact \/ DeleteArtifact

(* Bounds on the versions. *)
Bounded ==
  /\ \A s \in Sections : drafts[s] # None => drafts[s].text <= MaxText
  /\ full # None => full.version <= MaxFull
  /\ refs # None => refs.version <= MaxRefs

ManuscriptStep == ManuscriptNext /\ Bounded'

-----------------------------------------------------------------------------
(* What _build_workflow_status shows the user: which stages are done, and  *)
(* the first that is not, for which it has a prompt.                       *)
Done ==
  [research_brief       |-> "research_brief" \in outputs,
   literature_screening |-> "literature_screening" \in outputs,
   library              |-> library # {},
   research_map         |-> "research_map" \in outputs,
   reading_plan         |-> "reading_plan" \in outputs,
   deep_reading         |-> library # {} /\ carded = library,
   evidence_matrix      |-> "evidence_matrix" \in outputs,
   experiment_design    |-> designs # <<>>,
   experiment_results   |->
     /\ designs # <<>>
     /\ LET design == designs[Len(designs)]
        IN design.needs => \E r \in 1..MaxResults : results[r] = design.id,
   paper_blueprint      |-> blueprint # None,
   section_drafts       |->
     /\ blueprint # None /\ blueprint.sections # {}
     /\ blueprint.sections \subseteq Drafted
     /\ \A s \in Drafted : ~drafts[s].open,
   reference_list       |-> refs # None,
   full_draft           |-> full # None,
   audit                |-> report # None /\ ~report.blocked,
   final                |-> final # None]

Stages ==
  <<"research_brief", "literature_screening", "library", "research_map",
    "reading_plan", "deep_reading", "evidence_matrix", "experiment_design",
    "experiment_results", "paper_blueprint", "section_drafts",
    "reference_list", "full_draft", "audit", "final">>

Prompted(stage) ==
  \E i \in 1..Len(Stages) :
    /\ Stages[i] = stage /\ ~Done[stage]
    /\ \A j \in 1..i - 1 : Done[Stages[j]]

-----------------------------------------------------------------------------
(* Every variable has its type. *)
ManuscriptTypeOK ==
  /\ carded \subseteq library /\ library \subseteq Papers
  /\ outputs \subseteq Outputs
  /\ DesignIds \subseteq 1..designed /\ designed \in 0..MaxDesigns
  /\ results \in [1..MaxResults -> 0..MaxDesigns]
  /\ blueprint # None => blueprint.sections \subseteq Sections
  /\ \A s \in Drafted : drafts[s].cites \subseteq Papers
  /\ refs # None => refs.entries \subseteq Papers
  /\ report # None => full # None /\ report.version \in 0..MaxFull
  /\ final # None => final.version \in 1..MaxFull

(* What is locked as the final manuscript is what the last audit passed:   *)
(* nobody has written it over since, and it is locked only without a       *)
(* blocking issue.  If it is the text the tool assembled from the sections,*)
(* it has no section with a placeholder, and the reference list has every  *)
(* paper it cites.  Nothing of this is known of a report that the agent    *)
(* has saved itself, nor of the sections of a text that was written over   *)
(* or made by hand: what its content says of it is believed.               *)
Assembled == DOMAIN full.parts # {}

OnlySoundTextIsLocked ==
  [][final' # final =>
       /\ ~report.blocked /\ report.of \in {full, None}
       /\ Assembled => ~final'.open /\ final'.cites \subseteq refs.entries]_manuscriptVars

(* The same of every text: a placeholder that the user has taken off the   *)
(* content of a draft is locked with it.  Expected to fail.                *)
EveryLockedTextIsClosed ==
  [][final' # final => Assembled /\ report.of = full]_manuscriptVars

(* literature_research.py, message of the audit gate: a text changed after *)
(* the audit has to be audited again.  The audit that passes has looked at *)
(* the sections the full draft was made of.                                *)
AuditSawTheText ==
  [][report' # report /\ report' # None /\ ~report'.blocked =>
       \A s \in DOMAIN full.parts :
         drafts[s] # None /\ Text(s) = full.parts[s]]_manuscriptVars

(* projects.py, _artifact_integrity_locked: what takes part in a final     *)
(* manuscript's integrity stays.  The list a final manuscript is exported  *)
(* with has every paper the manuscript cites.                              *)
ExportStaysWhole == final # None => final.cites \subseteq Exported

(* projects.py, _build_workflow_status: the next safe action.  When the    *)
(* user is told to lock the manuscript, it can be locked.                  *)
PromptedStepIsOpen == Prompted("final") => MayFinalize
=============================================================================
