----------------------------- MODULE Production -----------------------------
(***************************************************************************)
(* What the stages of a production read, make and record                   *)
(* (agency/agents/stages.py), across failures, repairs and restarts, and   *)
(* the cleanup that removes old files under them (agency/lifecycle.py).    *)
(*                                                                         *)
(* A handler is a sequence of steps in the order of its code.  Between two *)
(* of them its process may die; a step that needs a file fails without it. *)
(* A failed stage is retried, repaired by a restart of the pipeline, or    *)
(* escalated as _attempt_repair (agency/workflow/engine.py) decides, in    *)
(* one step: Pipeline has the steps it takes.                              *)
(***************************************************************************)
EXTENDS Integers, Sequences

CONSTANT
    MaxFaults       \* bound of the exploration: failures, crashes, and times that weeks
                    \* pass; see FailStage for the failures that are not counted

ASSUME ProductionAssumption == MaxFaults \in Nat

VARIABLES
    at,         \* the executor: [stage, step]; stage 0 if there is none
    ctx,        \* keys of its context["state"]
    done,       \* stages with a done task row
    tries,      \* tries[s]: the attempts stage s has rows of, until it is done; two are as
                \* many as more
    repairs,    \* jobs.repair_count
    owed,       \* the stage responsible for a failure, where a repair restarts, until it
                \* has run; 0 if none
    status,     \* projects.status
    disk,       \* disk[f]: how often f was rendered, what is there now, made of which renderings
    artifacts,  \* rows of artifacts, old ones before the cutoff of the cleanup
    rows,       \* rows[t]: how many rows the job added to table t
    passed,     \* passed[l]: the rendering of the master that QA layer l passed, 0 if none
    deliverables,   \* what the rows of deliverables say: [file, of], of being a rendering
    sweep,      \* the cleanup
    failures, ages

attempts == <<tries, repairs>>
counts   == <<failures, ages>>
records  == <<status, artifacts, rows, passed, deliverables>>
vars     == <<at, ctx, done, attempts, owed, disk, records, sweep, counts>>

-----------------------------------------------------------------------------
\* Steps of a handler.

\* What a stage works on; a missing key fails with the class.
Need(keys)         == [op |-> "need", all |-> keys, any |-> keys, class |-> "crash"]
NeedOr(key, class) == [op |-> "need", all |-> {key}, any |-> {key}, class |-> class]

\* The keys, and the narration: cleaned, or as it was spoken.
NeedNarration(keys) ==
    [op |-> "need", all |-> keys, any |-> {"ctx_cleanup", "ctx_narration"}, class |-> "crash"]

Check(class)       == [op |-> "check", class |-> class]
Make(file, from, class) == [op |-> "make", file |-> file, from |-> from, class |-> class]
Read(file, class)  == [op |-> "read", file |-> file, class |-> class]
Register(kind, file) == [op |-> "register", kind |-> kind, file |-> file]
Insert(table)      == [op |-> "insert", table |-> table]
SetStatus(value)   == [op |-> "status", value |-> value]
Report(layer, classes) == [op |-> "report", layer |-> layer, classes |-> classes]
Deliver(file)      == [op |-> "deliver", file |-> file]
Put(key)           == [op |-> "put", key |-> key]

-----------------------------------------------------------------------------
\* The handlers: their steps and the keys they return, which the task row keeps.
\* One file stands for those of all scenes.

Intake ==
    [name |-> "intake", out |-> {"ctx_spec"},
     steps |-> <<Check("invalid_brief"), SetStatus("in_production")>>]

Research ==
    [name |-> "research", out |-> {"ctx_research"},
     steps |-> <<NeedOr("ctx_spec", "state_missing")>>]

CreativeDirection ==
    [name |-> "creative_direction", out |-> {"ctx_creative", "ctx_palette"},
     steps |-> <<Need({"ctx_spec"})>>]

\* A language model that does not answer is replaced by a template.
ScriptWriting ==
    [name |-> "script_writing", out |-> {"ctx_script"},
     steps |-> <<Need({"ctx_spec"}), Insert("script_versions")>>]

Storyboard ==
    [name |-> "storyboard", out |-> {"ctx_scenes"},
     steps |-> <<Need({"ctx_spec", "ctx_script"}), Insert("storyboards")>>]

AssetAcquisition ==
    [name |-> "asset_acquisition", out |-> {"ctx_images", "ctx_assets_meta"},
     steps |-> <<Need({"ctx_spec", "ctx_scenes"}), Make("images", {}, "crash"),
                 Register("generated_image", "images")>>]

NarrationStage ==
    [name |-> "narration", out |-> {"ctx_narration"},
     steps |-> <<Need({"ctx_spec", "ctx_scenes"}), Make("segments", {}, "crash"),
                 Make("narration_full", {"segments"}, "crash"),
                 Register("narration_audio", "narration_full"), Insert("cost_entries")>>]

Autocleanup ==
    [name |-> "autocleanup", out |-> {"ctx_cleanup"},
     steps |-> <<NeedOr("ctx_narration", "state_missing"),
                 Make("narration_clean", {"narration_full"}, "crash"),
                 Register("cleaned_narration", "narration_clean")>>]

EditorialAssembly ==
    [name |-> "editorial_assembly", out |-> {"ctx_scene_clips", "ctx_edl"},
     steps |-> <<NeedNarration({"ctx_spec", "ctx_scenes", "ctx_images"}),
                 Make("scene_clips", {"images"}, "crash"), Read("images", "invalid_timeline"),
                 Insert("timelines")>>]

MotionGraphics ==
    [name |-> "motion_graphics", out |-> {"ctx_overlays"},
     steps |-> <<Need({"ctx_spec", "ctx_scenes"}), Make("title_card", {}, "crash"),
                 Make("lower_third", {}, "crash"), Register("graphics_overlay", "title_card"),
                 Register("graphics_overlay", "lower_third")>>]

RoughConcat ==
    [name |-> "rough_concat", out |-> {"ctx_rough"},
     steps |-> <<Need({"ctx_scene_clips"}), Make("rough_cut", {"scene_clips"}, "ffmpeg_error"),
                 Register("rough_cut", "rough_cut")>>]

AudioMix ==
    [name |-> "audio_mix", out |-> {"ctx_audio"},
     steps |-> <<NeedNarration({"ctx_spec"}), Make("music_bed", {}, "crash"),
                 Make("audio_mixed", {"narration_clean", "music_bed"}, "crash"),
                 Make("audio_final", {"audio_mixed"}, "crash"),
                 Register("mixed_audio", "audio_final"), Insert("cost_entries")>>]

AvMux ==
    [name |-> "av_mux", out |-> {"ctx_av"},
     steps |-> <<Need({"ctx_rough", "ctx_audio"}),
                 Make("av", {"rough_cut", "audio_final"}, "qa_sync"),
                 Check("crash"), Check("qa_sync"),
                 Register("av_intermediate", "av")>>]

BurnCaptions ==
    [name |-> "burn_captions", out |-> {"ctx_captioned", "ctx_caption_files"},
     steps |-> <<NeedNarration({"ctx_spec", "ctx_av"}), Make("captions_ass", {}, "crash"),
                 Make("captions_srt", {}, "crash"),
                 Make("captioned", {"av", "captions_ass"}, "ffmpeg_error"),
                 Register("captions_sidecar", "captions_srt")>>]

ColorGrade ==
    [name |-> "color_grade", out |-> {"ctx_master"},
     steps |-> <<Need({"ctx_captioned"}), Make("master", {"captioned"}, "ffmpeg_error"),
                 Register("master_render", "master")>>]

TechnicalQA ==
    [name |-> "technical_qa", out |-> {},
     steps |-> <<Need({"ctx_spec", "ctx_master"}), Read("master", "corrupt_media"),
                 Make("qa_audio", {"master"}, "crash"),
                 Report("technical", {"qa_loudness", "qa_duration", "qa_other"})>>]

CreativeQA ==
    [name |-> "creative_qa", out |-> {},
     steps |-> <<NeedNarration({"ctx_spec", "ctx_script", "ctx_master"}),
                 Make("qa_frames", {"master"}, "crash"), Report("creative", {"qa_creative"})>>]

MultimodalQA ==
    [name |-> "multimodal_qa", out |-> {},
     steps |-> <<Need({"ctx_spec", "ctx_scenes", "ctx_master", "ctx_script", "ctx_scene_clips"}),
                 Report("multimodal", {"qa_multimodal"})>>]

\* Behind the approval gate (see Pipeline); its list of deliverables is not returned.
Delivery ==
    [name |-> "delivery", out |-> {},
     steps |-> <<Need({"ctx_spec", "ctx_master"}), Make("thumb_frame", {"master"}, "crash"),
                 Make("thumbnail", {"thumb_frame"}, "crash"), Register("thumbnail", "thumbnail"),
                 Make("square", {"master"}, "crash"), Deliver("master"), Deliver("square"),
                 Make("metadata", {}, "crash"), Put("ctx_deliverables_list")>>]

Finalize ==
    [name |-> "finalize", out |-> {}, steps |-> <<SetStatus("delivered"), Insert("events")>>]

\* Fault: the project is finalized before its videos are delivered.
StagesFinalizeFirst ==
    <<Intake, Research, CreativeDirection, ScriptWriting, Storyboard, AssetAcquisition,
      NarrationStage, Autocleanup, EditorialAssembly, MotionGraphics, RoughConcat, AudioMix,
      AvMux, BurnCaptions, ColorGrade, TechnicalQA, CreativeQA, MultimodalQA, Finalize, Delivery>>

\* PRODUCTION_STAGES with HANDLERS.
Stages ==
    <<Intake, Research, CreativeDirection, ScriptWriting, Storyboard, AssetAcquisition,
      NarrationStage, Autocleanup, EditorialAssembly, MotionGraphics, RoughConcat, AudioMix,
      AvMux, BurnCaptions, ColorGrade, TechnicalQA, CreativeQA, MultimodalQA, Delivery, Finalize>>

SeqOf(name) == CHOOSE s \in DOMAIN Stages : Stages[s].name = name

\* Fault: burn_captions hands its video over in memory only.
OutputLost(s) == IF s = SeqOf("burn_captions") THEN {} ELSE Stages[s].out

Output(s) == Stages[s].out

\* Fault: a class without a strategy restarts behind the last stage.
RepairStrategyForListed(class) ==
    CASE class = "qa_loudness"   -> SeqOf("audio_mix")
      [] class = "qa_duration"   -> SeqOf("editorial_assembly")
      [] OTHER                   -> Len(Stages) + 2

\* Where the repair of a failure class restarts; "final_render" is not a stage.
RepairStrategyFor(class) ==
    CASE class = "qa_loudness"   -> SeqOf("audio_mix")
      [] class = "qa_duration"   -> SeqOf("editorial_assembly")
      [] class = "qa_sync"       -> 14
      [] class = "corrupt_media" -> SeqOf("asset_acquisition")
      [] OTHER                   -> 1

StepsOf(s, op) == {i \in DOMAIN Stages[s].steps : Stages[s].steps[i].op = op}
MadeBy(s)      == {Stages[s].steps[i].file : i \in StepsOf(s, "make")}
Files          == UNION {MadeBy(s) : s \in DOMAIN Stages}
Tables         == {"script_versions", "storyboards", "timelines", "cost_entries", "qa_reports",
                   "deliverables", "events"}
Layers         == {"technical", "creative", "multimodal"}

TEMPORARY_KINDS ==
    {"generated_image", "narration_audio", "cleaned_narration", "av_intermediate", "rough_cut",
     "graphics_overlay", "timeline"}
RETAIN_KINDS == {"master_render", "thumbnail", "captions_sidecar"}

Nobody == [stage |-> 0, step |-> 1]
Resting == [pc |-> "idle", doomed |-> {}, left |-> {}, referenced |-> {}, judged |-> "none"]

Init ==
    /\ at = Nobody /\ ctx = {} /\ done = {} /\ owed = 0
    /\ tries = [s \in DOMAIN Stages |-> 0] /\ repairs = 0
    /\ status = "draft"
    /\ disk = [f \in Files |-> [n |-> 0, state |-> "absent", of |-> {}, old |-> FALSE]]
    /\ artifacts = {} /\ rows = [t \in Tables |-> 0]
    /\ passed = [l \in Layers |-> 0] /\ deliverables = {}
    /\ sweep = Resting
    /\ failures = 0 /\ ages = 0

-----------------------------------------------------------------------------
\* The executor (see Pipeline for the engine around it).

\* The context is rebuilt from the outputs of the finished stages.
Claim ==
    /\ at.stage = 0 /\ done # DOMAIN Stages
    /\ at' = [stage |-> 1, step |-> 1]
    /\ ctx' = UNION {Output(s) : s \in done}
    /\ UNCHANGED <<done, attempts, owed, disk, records, sweep, counts>>

SkipDone ==
    /\ at.stage \in done /\ at.step = 1
    /\ at' = [stage |-> at.stage + 1, step |-> 1]
    /\ UNCHANGED <<ctx, done, attempts, owed, disk, records, sweep, counts>>

Steps == IF at.stage \in DOMAIN Stages \ done THEN Stages[at.stage].steps ELSE <<>>
Now   == Steps[at.step]
Doing(op) == at.step \in DOMAIN Steps /\ Now.op = op
Proceed   == at' = [at EXCEPT !.step = @ + 1]

There(f) == disk[f].state = "whole"

Satisfied(need) == need.all \subseteq ctx /\ need.any \cap ctx # {}

ReadContext ==
    /\ Doing("need") /\ Satisfied(Now)
    /\ Proceed
    /\ UNCHANGED <<ctx, done, attempts, owed, disk, records, sweep, counts>>

PassCheck ==
    /\ Doing("check") \/ (Doing("read") /\ There(Now.file))
    /\ Proceed
    /\ UNCHANGED <<ctx, done, attempts, owed, disk, records, sweep, counts>>

Rendered(state) ==
    [disk EXCEPT ![Now.file] =
        [n |-> @.n + 1, state |-> state, of |-> {<<g, disk[g].n>> : g \in Now.from}, old |-> FALSE]]

Render ==
    /\ Doing("make") /\ \A g \in Now.from : There(g)
    /\ disk' = Rendered("whole")
    /\ Proceed
    /\ UNCHANGED <<ctx, done, attempts, owed, records, sweep, counts>>

RegisterArtifact ==
    /\ Doing("register")
    /\ artifacts' = artifacts \cup {[kind |-> Now.kind, file |-> Now.file, old |-> FALSE]}
    /\ Proceed
    /\ UNCHANGED <<ctx, done, attempts, owed, disk, status, rows, passed, deliverables, sweep, counts>>

InsertRow ==
    /\ Doing("insert")
    /\ rows' = [rows EXCEPT ![Now.table] = @ + 1]
    /\ Proceed
    /\ UNCHANGED <<ctx, done, attempts, owed, disk, status, artifacts, passed, deliverables, sweep, counts>>

UpdateProject ==
    /\ Doing("status")
    /\ status' = Now.value
    /\ Proceed
    /\ UNCHANGED <<ctx, done, attempts, owed, disk, artifacts, rows, passed, deliverables, sweep, counts>>

PassQA ==
    /\ Doing("report")
    /\ rows' = [rows EXCEPT !["qa_reports"] = @ + 1]
    /\ passed' = [passed EXCEPT ![Now.layer] = disk["master"].n]
    /\ Proceed
    /\ UNCHANGED <<ctx, done, attempts, owed, disk, status, artifacts, deliverables, sweep, counts>>

InsertDeliverable ==
    /\ Doing("deliver") /\ There(Now.file)
    /\ rows' = [rows EXCEPT !["deliverables"] = @ + 1]
    /\ deliverables' = deliverables \cup {[file |-> Now.file, of |-> disk["master"].n]}
    /\ Proceed
    /\ UNCHANGED <<ctx, done, attempts, owed, disk, status, artifacts, passed, sweep, counts>>

PutInContext ==
    /\ Doing("put")
    /\ ctx' = ctx \cup {Now.key}
    /\ Proceed
    /\ UNCHANGED <<done, attempts, owed, disk, records, sweep, counts>>

FinishStage ==
    /\ at.stage \in DOMAIN Stages \ done /\ at.step > Len(Steps)
    /\ done' = done \cup {at.stage}
    /\ ctx' = ctx \cup Output(at.stage)
    /\ at' = [stage |-> at.stage + 1, step |-> 1]
    /\ tries' = [tries EXCEPT ![at.stage] = 0]
    /\ owed' = IF owed = at.stage THEN 0 ELSE owed
    /\ UNCHANGED <<repairs, disk, records, sweep, counts>>

Leave ==
    /\ at.stage > Len(Stages)
    /\ at' = Nobody /\ ctx' = {}
    /\ UNCHANGED <<done, attempts, owed, disk, records, sweep, counts>>

\* A step that misses a key or a file fails; checks, renderings and reports may fail.
Stuck ==
    \/ Doing("need") /\ ~Satisfied(Now)
    \/ Doing("make") /\ ~ \A g \in Now.from : There(g)
    \/ (Doing("read") \/ Doing("deliver")) /\ ~There(Now.file)

FailsWith ==
    CASE Doing("report") -> Now.classes
      [] Doing("deliver") -> IF Stuck THEN {"crash"} ELSE {}
      [] Doing("need") -> IF Stuck THEN {Now.class} ELSE {}
      [] Doing("check") \/ Doing("read") \/ Doing("make") -> {Now.class}
      [] OTHER -> {}

\* Fault: after creative QA a restart renders again, but keeps the verdict of technical QA.
StillDoneRendering(class) ==
    IF class = "qa_creative" THEN done \ (RepairStrategyFor(class) .. SeqOf("color_grade")) ELSE done

\* Fault: a restart runs the stage it starts from again and nothing after it.
StillDoneButTarget(class) == done \ {RepairStrategyFor(class)}

\* A repair deletes only rows that are not done.
StillDone(class) == done

max_task_retries  == 3
repair_budget     == 2
retryable_classes == {"transient", "render_crash", "provider_unavailable", "ffmpeg_error"}

\* The attempt under way is one more than there were; the third is like all later ones.
Attempt == tries[at.stage] + 1
Tried   == [tries EXCEPT ![at.stage] = IF Attempt < max_task_retries THEN Attempt ELSE @]

Retryable(class) ==
    Attempt < max_task_retries /\ (class \in retryable_classes \/ Attempt < 2)

RetryStage(class) ==
    /\ Retryable(class)
    /\ at' = [at EXCEPT !.step = 1]
    /\ tries' = Tried
    /\ UNCHANGED <<ctx, done, repairs, owed>>

\* The classes for which one stage is responsible.
Responsible == {"qa_loudness", "qa_duration", "qa_sync", "corrupt_media"}

RestartPipeline(class) ==
    LET target == RepairStrategyFor(class) IN
    /\ ~Retryable(class) /\ repairs < repair_budget
    /\ at' = [stage |-> target, step |-> 1]
    /\ repairs' = repairs + 1
    /\ tries' = [s \in DOMAIN Stages |-> IF s >= target THEN 0 ELSE Tried[s]]
    /\ done' = StillDone(class)
    /\ owed' = IF class \in Responsible THEN target ELSE 0
    /\ UNCHANGED ctx

\* The job waits for a human, who may have it claimed again.
EscalateHuman(class) ==
    /\ ~Retryable(class) /\ repairs = repair_budget
    /\ at' = Nobody /\ ctx' = {}
    /\ tries' = Tried
    /\ UNCHANGED <<done, repairs, owed>>

\* What the failure of a step leaves: a report is written all the same, a rendering may
\* have begun to write its file.
LeftByFailure ==
    /\ rows' = IF Doing("report") THEN [rows EXCEPT !["qa_reports"] = @ + 1] ELSE rows
    /\ \/ UNCHANGED disk
       \/ Doing("make") /\ ~Stuck /\ disk' = Rendered("partial")

\* Nothing more has to go wrong for the stage to fail: such a failure is not counted.
Recurs == Stuck \/ tries[at.stage] > 0

FailStage ==
    /\ LeftByFailure
    /\ \E class \in FailsWith :
        RetryStage(class) \/ RestartPipeline(class) \/ EscalateHuman(class)
    /\ failures + ages < MaxFaults \/ (Stuck /\ failures + ages = MaxFaults)
    /\ failures' = IF Recurs /\ at'.stage # 0 THEN failures ELSE failures + 1
    /\ UNCHANGED <<status, artifacts, passed, deliverables, sweep, ages>>

\* The process dies, perhaps while it writes a file, or before the row of its attempt.
Crash ==
    /\ at.stage # 0 /\ failures + ages < MaxFaults
    /\ failures' = failures + 1
    /\ at' = Nobody /\ ctx' = {}
    /\ \/ at.step = 1 /\ UNCHANGED tries
       \/ at.stage \in DOMAIN Stages \ done /\ tries' = Tried
    /\ disk' = IF Doing("make") THEN Rendered("partial") ELSE disk
    /\ UNCHANGED <<done, repairs, owed, records, sweep, ages>>

-----------------------------------------------------------------------------
\* run_cleanup(apply, include_orphans)

\* Weeks pass over some files; the job has ended, waits for a human, or nobody executes it.
Age ==
    /\ at.stage = 0 /\ sweep.pc = "idle" /\ failures + ages < MaxFaults
    /\ \E f \in Files : disk[f].state # "absent"
    /\ ages' = ages + 1
    /\ disk' = [f \in Files |-> [disk[f] EXCEPT !.old = disk[f].state # "absent"]]
    /\ artifacts' = {[a EXCEPT !.old = TRUE] : a \in artifacts}
    /\ UNCHANGED <<at, ctx, done, attempts, owed, status, rows, passed, deliverables, sweep, failures>>

\* Fault: what is old is purged, whatever its kind.
DoomedOfAnyKind == {a.file : a \in {b \in artifacts : b.old}}

\* Purged by the age of the row.
Doomed == {a.file : a \in {b \in artifacts : b.old /\ b.kind \in TEMPORARY_KINDS}}

\* All rows are loaded first; they say what is not an orphan.
SweepStart ==
    /\ sweep.pc = "idle" /\ ages > 0
    /\ sweep' = [Resting EXCEPT !.pc = "purge", !.doomed = Doomed,
                                !.referenced = {a.file : a \in artifacts}]
    /\ UNCHANGED <<at, ctx, done, attempts, owed, disk, records, counts>>

Unlinked(f) == [disk EXCEPT ![f].state = "absent", ![f].of = {}, ![f].old = FALSE]

\* File after file, in the order of the rows.
Purge ==
    /\ sweep.pc = "purge"
    /\ IF sweep.doomed = {}
       THEN sweep' = [sweep EXCEPT !.pc = "scan", !.left = Files] /\ UNCHANGED disk
       ELSE LET f == CHOOSE f \in sweep.doomed : TRUE IN
            sweep' = [sweep EXCEPT !.doomed = @ \ {f}] /\ disk' = Unlinked(f)
    /\ UNCHANGED <<at, ctx, done, attempts, owed, records, counts>>

\* Then the directory is walked: an orphan is found old ...
Orphans == {f \in sweep.left \ sweep.referenced : disk[f].state # "absent" /\ disk[f].old}

Judge ==
    /\ sweep.pc = "scan" /\ sweep.judged = "none" /\ Orphans # {}
    /\ LET f == CHOOSE f \in Orphans : TRUE IN
        sweep' = [sweep EXCEPT !.left = @ \ {f}, !.judged = f]
    /\ UNCHANGED <<at, ctx, done, attempts, owed, disk, records, counts>>

\* ... and is deleted.
Unlink ==
    /\ sweep.judged # "none"
    /\ disk' = Unlinked(sweep.judged)
    /\ sweep' = [sweep EXCEPT !.judged = "none"]
    /\ UNCHANGED <<at, ctx, done, attempts, owed, records, counts>>

SweepEnd ==
    /\ sweep.pc = "scan" /\ sweep.judged = "none" /\ Orphans = {}
    /\ sweep' = Resting
    /\ UNCHANGED <<at, ctx, done, attempts, owed, disk, records, counts>>

-----------------------------------------------------------------------------
Step ==
    \/ SkipDone \/ ReadContext \/ PassCheck \/ Render \/ RegisterArtifact \/ InsertRow
    \/ UpdateProject \/ PassQA \/ InsertDeliverable \/ PutInContext \/ FinishStage \/ Leave

Cleanup == SweepStart \/ Purge \/ Judge \/ Unlink \/ SweepEnd

Next == Claim \/ Step \/ FailStage \/ Crash \/ Age \/ Cleanup

Spec == Init /\ [][Next]_vars

-----------------------------------------------------------------------------
(* Properties                                                              *)

TypeOK ==
    /\ at \in [stage : 0 .. Len(Stages) + 1, step : Nat \ {0}]
    /\ ctx \subseteq (UNION {Output(s) : s \in DOMAIN Stages}) \cup {"ctx_deliverables_list"}
    /\ done \subseteq DOMAIN Stages /\ owed \in 0 .. Len(Stages)
    /\ tries \in [DOMAIN Stages -> 0 .. max_task_retries - 1] /\ repairs \in 0 .. repair_budget
    /\ status \in {"draft", "in_production", "delivered"}
    /\ \A f \in Files : disk[f].n \in Nat /\ disk[f].state \in {"absent", "partial", "whole"}
    /\ rows \in [Tables -> Nat] /\ passed \in [Layers -> Nat]
    /\ sweep.doomed \subseteq Files /\ sweep.judged \in Files \cup {"none"}

\* An executor that comes to a stage with all earlier ones finished has every key
\* the stage subscripts, also after a restart (the outputs of the handlers).
InputsRestored ==
    at.stage \in DOMAIN Stages /\ 1 .. (at.stage - 1) \subseteq done =>
        \A i \in StepsOf(at.stage, "need") : Satisfied(Stages[at.stage].steps[i])

\* What the finished stages left on disk is whole, and made of what is there: no
\* retry, repair or crash leaves a product of an input that has been replaced.
FilesAgree ==
    \A s \in done : \A f \in MadeBy(s) :
        /\ disk[f].state # "partial"
        /\ There(f) => \A u \in disk[f].of : There(u[1]) => disk[u[1]].n = u[2]

\* What is delivered is the rendering that all three QA layers have passed
\* (stage_technical_qa, stage_creative_qa, stage_multimodal_qa, stage_delivery).
DeliveredWasChecked ==
    \A d \in deliverables : \A l \in Layers : passed[l] = d.of

\* A project is delivered only with both variants of one rendering (stage_finalize).
DeliveredIsComplete ==
    status = "delivered" =>
        {[file |-> f, of |-> disk["master"].n] : f \in {"master", "square"}} \subseteq deliverables

\* The cleanup keeps the file of every master, thumbnail and caption row it has
\* read, whatever is rendered while it runs (run_cleanup).
RetainedKept ==
    [][ \A a \in artifacts : a.kind \in RETAIN_KINDS /\ a.file \in sweep.referenced
            /\ disk[a.file].state # "absent" => disk'[a.file].state # "absent" ]_vars

-----------------------------------------------------------------------------
(* What the documentation says and the code does not do                    *)

\* docs/QA_AND_REPAIR.md:39-42, docs/ARCHITECTURE.md:69: the repair of a failed check, whose
\* retries are used up, restarts from the stage that is responsible: the executor does
\* not pass it without running it.
RepairRunsItsStage == owed = 0 \/ at.stage \in 0 .. owed

\* README.md:52: the master has title card and lower-third overlays.
Origins(f) ==
    LET step[S \in SUBSET Files] ==
            LET T == S \cup UNION {{u[1] : u \in disk[g].of} : g \in S}
            IN  IF T = S THEN S ELSE step[T]
    IN  step[{f}]

OverlaysReachMaster ==
    There("master") => {"title_card", "lower_third"} \subseteq Origins("master")

\* docs/OPERATIONS_RUNBOOK.md:28: only intermediates purge.
DeliverablesSurviveCleanup ==
    sweep.pc = "idle" /\ status = "delivered" => There("square")
=============================================================================
