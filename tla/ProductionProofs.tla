-------------------------- MODULE ProductionProofs --------------------------
(***************************************************************************)
(* Proofs about Production, for any number of failures, crashes, repairs   *)
(* and cleanups.                                                           *)
(***************************************************************************)
EXTENDS Production, TLAPS

-----------------------------------------------------------------------------
(* The table of the stages                                                 *)

LEMMA AllStages ==
    /\ DOMAIN Stages = 1 .. 20 /\ Len(Stages) = 20
    /\ Stages[1] = Intake
    /\ Stages[2] = Research
    /\ Stages[3] = CreativeDirection
    /\ Stages[4] = ScriptWriting
    /\ Stages[5] = Storyboard
    /\ Stages[6] = AssetAcquisition
    /\ Stages[7] = NarrationStage
    /\ Stages[8] = Autocleanup
    /\ Stages[9] = EditorialAssembly
    /\ Stages[10] = MotionGraphics
    /\ Stages[11] = RoughConcat
    /\ Stages[12] = AudioMix
    /\ Stages[13] = AvMux
    /\ Stages[14] = BurnCaptions
    /\ Stages[15] = ColorGrade
    /\ Stages[16] = TechnicalQA
    /\ Stages[17] = CreativeQA
    /\ Stages[18] = MultimodalQA
    /\ Stages[19] = Delivery
    /\ Stages[20] = Finalize
  BY DEF Stages

LEMMA StepsOfIntake ==
    /\ DOMAIN Intake.steps = 1 .. 2 /\ Len(Intake.steps) = 2
    /\ Intake.steps[1] = Check("invalid_brief")
    /\ Intake.steps[2] = SetStatus("in_production")
  BY DEF Intake

LEMMA StepsOfResearch ==
    /\ DOMAIN Research.steps = 1 .. 1 /\ Len(Research.steps) = 1
    /\ Research.steps[1] = NeedOr("ctx_spec", "state_missing")
  BY DEF Research

LEMMA StepsOfCreativeDirection ==
    /\ DOMAIN CreativeDirection.steps = 1 .. 1 /\ Len(CreativeDirection.steps) = 1
    /\ CreativeDirection.steps[1] = Need({"ctx_spec"})
  BY DEF CreativeDirection

LEMMA StepsOfScriptWriting ==
    /\ DOMAIN ScriptWriting.steps = 1 .. 2 /\ Len(ScriptWriting.steps) = 2
    /\ ScriptWriting.steps[1] = Need({"ctx_spec"})
    /\ ScriptWriting.steps[2] = Insert("script_versions")
  BY DEF ScriptWriting

LEMMA StepsOfStoryboard ==
    /\ DOMAIN Storyboard.steps = 1 .. 2 /\ Len(Storyboard.steps) = 2
    /\ Storyboard.steps[1] = Need({"ctx_spec", "ctx_script"})
    /\ Storyboard.steps[2] = Insert("storyboards")
  BY DEF Storyboard

LEMMA StepsOfAssetAcquisition ==
    /\ DOMAIN AssetAcquisition.steps = 1 .. 3 /\ Len(AssetAcquisition.steps) = 3
    /\ AssetAcquisition.steps[1] = Need({"ctx_spec", "ctx_scenes"})
    /\ AssetAcquisition.steps[2] = Make("images", {}, "crash")
    /\ AssetAcquisition.steps[3] = Register("generated_image", "images")
  BY DEF AssetAcquisition

LEMMA StepsOfNarrationStage ==
    /\ DOMAIN NarrationStage.steps = 1 .. 5 /\ Len(NarrationStage.steps) = 5
    /\ NarrationStage.steps[1] = Need({"ctx_spec", "ctx_scenes"})
    /\ NarrationStage.steps[2] = Make("segments", {}, "crash")
    /\ NarrationStage.steps[3] = Make("narration_full", {"segments"}, "crash")
    /\ NarrationStage.steps[4] = Register("narration_audio", "narration_full")
    /\ NarrationStage.steps[5] = Insert("cost_entries")
  BY DEF NarrationStage

LEMMA StepsOfAutocleanup ==
    /\ DOMAIN Autocleanup.steps = 1 .. 3 /\ Len(Autocleanup.steps) = 3
    /\ Autocleanup.steps[1] = NeedOr("ctx_narration", "state_missing")
    /\ Autocleanup.steps[2] = Make("narration_clean", {"narration_full"}, "crash")
    /\ Autocleanup.steps[3] = Register("cleaned_narration", "narration_clean")
  BY DEF Autocleanup

LEMMA StepsOfEditorialAssembly ==
    /\ DOMAIN EditorialAssembly.steps = 1 .. 4 /\ Len(EditorialAssembly.steps) = 4
    /\ EditorialAssembly.steps[1] = NeedNarration({"ctx_spec", "ctx_scenes", "ctx_images"})
    /\ EditorialAssembly.steps[2] = Make("scene_clips", {"images"}, "crash")
    /\ EditorialAssembly.steps[3] = Read("images", "invalid_timeline")
    /\ EditorialAssembly.steps[4] = Insert("timelines")
  BY DEF EditorialAssembly

LEMMA StepsOfMotionGraphics ==
    /\ DOMAIN MotionGraphics.steps = 1 .. 5 /\ Len(MotionGraphics.steps) = 5
    /\ MotionGraphics.steps[1] = Need({"ctx_spec", "ctx_scenes"})
    /\ MotionGraphics.steps[2] = Make("title_card", {}, "crash")
    /\ MotionGraphics.steps[3] = Make("lower_third", {}, "crash")
    /\ MotionGraphics.steps[4] = Register("graphics_overlay", "title_card")
    /\ MotionGraphics.steps[5] = Register("graphics_overlay", "lower_third")
  BY DEF MotionGraphics

LEMMA StepsOfRoughConcat ==
    /\ DOMAIN RoughConcat.steps = 1 .. 3 /\ Len(RoughConcat.steps) = 3
    /\ RoughConcat.steps[1] = Need({"ctx_scene_clips"})
    /\ RoughConcat.steps[2] = Make("rough_cut", {"scene_clips"}, "ffmpeg_error")
    /\ RoughConcat.steps[3] = Register("rough_cut", "rough_cut")
  BY DEF RoughConcat

LEMMA StepsOfAudioMix ==
    /\ DOMAIN AudioMix.steps = 1 .. 6 /\ Len(AudioMix.steps) = 6
    /\ AudioMix.steps[1] = NeedNarration({"ctx_spec"})
    /\ AudioMix.steps[2] = Make("music_bed", {}, "crash")
    /\ AudioMix.steps[3] = Make("audio_mixed", {"narration_clean", "music_bed"}, "crash")
    /\ AudioMix.steps[4] = Make("audio_final", {"audio_mixed"}, "crash")
    /\ AudioMix.steps[5] = Register("mixed_audio", "audio_final")
    /\ AudioMix.steps[6] = Insert("cost_entries")
  BY DEF AudioMix

LEMMA StepsOfAvMux ==
    /\ DOMAIN AvMux.steps = 1 .. 5 /\ Len(AvMux.steps) = 5
    /\ AvMux.steps[1] = Need({"ctx_rough", "ctx_audio"})
    /\ AvMux.steps[2] = Make("av", {"rough_cut", "audio_final"}, "qa_sync")
    /\ AvMux.steps[3] = Check("crash")
    /\ AvMux.steps[4] = Check("qa_sync")
    /\ AvMux.steps[5] = Register("av_intermediate", "av")
  BY DEF AvMux

LEMMA StepsOfBurnCaptions ==
    /\ DOMAIN BurnCaptions.steps = 1 .. 5 /\ Len(BurnCaptions.steps) = 5
    /\ BurnCaptions.steps[1] = NeedNarration({"ctx_spec", "ctx_av"})
    /\ BurnCaptions.steps[2] = Make("captions_ass", {}, "crash")
    /\ BurnCaptions.steps[3] = Make("captions_srt", {}, "crash")
    /\ BurnCaptions.steps[4] = Make("captioned", {"av", "captions_ass"}, "ffmpeg_error")
    /\ BurnCaptions.steps[5] = Register("captions_sidecar", "captions_srt")
  BY DEF BurnCaptions

LEMMA StepsOfColorGrade ==
    /\ DOMAIN ColorGrade.steps = 1 .. 3 /\ Len(ColorGrade.steps) = 3
    /\ ColorGrade.steps[1] = Need({"ctx_captioned"})
    /\ ColorGrade.steps[2] = Make("master", {"captioned"}, "ffmpeg_error")
    /\ ColorGrade.steps[3] = Register("master_render", "master")
  BY DEF ColorGrade

LEMMA StepsOfTechnicalQA ==
    /\ DOMAIN TechnicalQA.steps = 1 .. 4 /\ Len(TechnicalQA.steps) = 4
    /\ TechnicalQA.steps[1] = Need({"ctx_spec", "ctx_master"})
    /\ TechnicalQA.steps[2] = Read("master", "corrupt_media")
    /\ TechnicalQA.steps[3] = Make("qa_audio", {"master"}, "crash")
    /\ TechnicalQA.steps[4] = Report("technical", {"qa_loudness", "qa_duration", "qa_other"})
  BY DEF TechnicalQA

LEMMA StepsOfCreativeQA ==
    /\ DOMAIN CreativeQA.steps = 1 .. 3 /\ Len(CreativeQA.steps) = 3
    /\ CreativeQA.steps[1] = NeedNarration({"ctx_spec", "ctx_script", "ctx_master"})
    /\ CreativeQA.steps[2] = Make("qa_frames", {"master"}, "crash")
    /\ CreativeQA.steps[3] = Report("creative", {"qa_creative"})
  BY DEF CreativeQA

LEMMA StepsOfMultimodalQA ==
    /\ DOMAIN MultimodalQA.steps = 1 .. 2 /\ Len(MultimodalQA.steps) = 2
    /\ MultimodalQA.steps[1] = Need({"ctx_spec", "ctx_scenes", "ctx_master", "ctx_script",
            "ctx_scene_clips"})
    /\ MultimodalQA.steps[2] = Report("multimodal", {"qa_multimodal"})
  BY DEF MultimodalQA

LEMMA StepsOfDelivery ==
    /\ DOMAIN Delivery.steps = 1 .. 9 /\ Len(Delivery.steps) = 9
    /\ Delivery.steps[1] = Need({"ctx_spec", "ctx_master"})
    /\ Delivery.steps[2] = Make("thumb_frame", {"master"}, "crash")
    /\ Delivery.steps[3] = Make("thumbnail", {"thumb_frame"}, "crash")
    /\ Delivery.steps[4] = Register("thumbnail", "thumbnail")
    /\ Delivery.steps[5] = Make("square", {"master"}, "crash")
    /\ Delivery.steps[6] = Deliver("master")
    /\ Delivery.steps[7] = Deliver("square")
    /\ Delivery.steps[8] = Make("metadata", {}, "crash")
    /\ Delivery.steps[9] = Put("ctx_deliverables_list")
  BY DEF Delivery

LEMMA StepsOfFinalize ==
    /\ DOMAIN Finalize.steps = 1 .. 2 /\ Len(Finalize.steps) = 2
    /\ Finalize.steps[1] = SetStatus("delivered")
    /\ Finalize.steps[2] = Insert("events")
  BY DEF Finalize

LEMMA AllSteps ==
    /\ DOMAIN Intake.steps = 1 .. 2 /\ Len(Intake.steps) = 2
    /\ DOMAIN Research.steps = 1 .. 1 /\ Len(Research.steps) = 1
    /\ DOMAIN CreativeDirection.steps = 1 .. 1 /\ Len(CreativeDirection.steps) = 1
    /\ DOMAIN ScriptWriting.steps = 1 .. 2 /\ Len(ScriptWriting.steps) = 2
    /\ DOMAIN Storyboard.steps = 1 .. 2 /\ Len(Storyboard.steps) = 2
    /\ DOMAIN AssetAcquisition.steps = 1 .. 3 /\ Len(AssetAcquisition.steps) = 3
    /\ DOMAIN NarrationStage.steps = 1 .. 5 /\ Len(NarrationStage.steps) = 5
    /\ DOMAIN Autocleanup.steps = 1 .. 3 /\ Len(Autocleanup.steps) = 3
    /\ DOMAIN EditorialAssembly.steps = 1 .. 4 /\ Len(EditorialAssembly.steps) = 4
    /\ DOMAIN MotionGraphics.steps = 1 .. 5 /\ Len(MotionGraphics.steps) = 5
    /\ DOMAIN RoughConcat.steps = 1 .. 3 /\ Len(RoughConcat.steps) = 3
    /\ DOMAIN AudioMix.steps = 1 .. 6 /\ Len(AudioMix.steps) = 6
    /\ DOMAIN AvMux.steps = 1 .. 5 /\ Len(AvMux.steps) = 5
    /\ DOMAIN BurnCaptions.steps = 1 .. 5 /\ Len(BurnCaptions.steps) = 5
    /\ DOMAIN ColorGrade.steps = 1 .. 3 /\ Len(ColorGrade.steps) = 3
    /\ DOMAIN TechnicalQA.steps = 1 .. 4 /\ Len(TechnicalQA.steps) = 4
    /\ DOMAIN CreativeQA.steps = 1 .. 3 /\ Len(CreativeQA.steps) = 3
    /\ DOMAIN MultimodalQA.steps = 1 .. 2 /\ Len(MultimodalQA.steps) = 2
    /\ DOMAIN Delivery.steps = 1 .. 9 /\ Len(Delivery.steps) = 9
    /\ DOMAIN Finalize.steps = 1 .. 2 /\ Len(Finalize.steps) = 2
  BY StepsOfIntake, StepsOfResearch, StepsOfCreativeDirection, StepsOfScriptWriting,
     StepsOfStoryboard, StepsOfAssetAcquisition, StepsOfNarrationStage, StepsOfAutocleanup,
     StepsOfEditorialAssembly, StepsOfMotionGraphics, StepsOfRoughConcat, StepsOfAudioMix,
     StepsOfAvMux, StepsOfBurnCaptions, StepsOfColorGrade, StepsOfTechnicalQA,
     StepsOfCreativeQA, StepsOfMultimodalQA, StepsOfDelivery, StepsOfFinalize

LEMMA MadeFile ==
    ASSUME NEW s \in DOMAIN Stages, NEW i \in DOMAIN Stages[s].steps, NEW file, NEW from,
            NEW class,
           Stages[s].steps[i] = Make(file, from, class)
    PROVE  file \in Files
  BY DEF Make, StepsOf, MadeBy, Files

\* The files, and the order they are made in: ten times the stage plus the step.
PlaceOf(file) ==
    CASE file = "images" -> 62
      [] file = "segments" -> 72
      [] file = "narration_full" -> 73
      [] file = "narration_clean" -> 82
      [] file = "scene_clips" -> 92
      [] file = "title_card" -> 102
      [] file = "lower_third" -> 103
      [] file = "rough_cut" -> 112
      [] file = "music_bed" -> 122
      [] file = "audio_mixed" -> 123
      [] file = "audio_final" -> 124
      [] file = "av" -> 132
      [] file = "captions_ass" -> 142
      [] file = "captions_srt" -> 143
      [] file = "captioned" -> 144
      [] file = "master" -> 152
      [] file = "qa_audio" -> 163
      [] file = "qa_frames" -> 172
      [] file = "thumb_frame" -> 192
      [] file = "thumbnail" -> 193
      [] file = "square" -> 195
      [] file = "metadata" -> 198

LEMMA EveryFile ==
    /\ "images" \in Files
    /\ "segments" \in Files
    /\ "narration_full" \in Files
    /\ "narration_clean" \in Files
    /\ "scene_clips" \in Files
    /\ "title_card" \in Files
    /\ "lower_third" \in Files
    /\ "rough_cut" \in Files
    /\ "music_bed" \in Files
    /\ "audio_mixed" \in Files
    /\ "audio_final" \in Files
    /\ "av" \in Files
    /\ "captions_ass" \in Files
    /\ "captions_srt" \in Files
    /\ "captioned" \in Files
    /\ "master" \in Files
    /\ "qa_audio" \in Files
    /\ "qa_frames" \in Files
    /\ "thumb_frame" \in Files
    /\ "thumbnail" \in Files
    /\ "square" \in Files
    /\ "metadata" \in Files
<1>1. "images" \in Files
  BY AllStages, StepsOfAssetAcquisition, MadeFile
<1>2. "segments" \in Files
  BY AllStages, StepsOfNarrationStage, MadeFile
<1>3. "narration_full" \in Files
  BY AllStages, StepsOfNarrationStage, MadeFile
<1>4. "narration_clean" \in Files
  BY AllStages, StepsOfAutocleanup, MadeFile
<1>5. "scene_clips" \in Files
  BY AllStages, StepsOfEditorialAssembly, MadeFile
<1>6. "title_card" \in Files
  BY AllStages, StepsOfMotionGraphics, MadeFile
<1>7. "lower_third" \in Files
  BY AllStages, StepsOfMotionGraphics, MadeFile
<1>8. "rough_cut" \in Files
  BY AllStages, StepsOfRoughConcat, MadeFile
<1>9. "music_bed" \in Files
  BY AllStages, StepsOfAudioMix, MadeFile
<1>10. "audio_mixed" \in Files
  BY AllStages, StepsOfAudioMix, MadeFile
<1>11. "audio_final" \in Files
  BY AllStages, StepsOfAudioMix, MadeFile
<1>12. "av" \in Files
  BY AllStages, StepsOfAvMux, MadeFile
<1>13. "captions_ass" \in Files
  BY AllStages, StepsOfBurnCaptions, MadeFile
<1>14. "captions_srt" \in Files
  BY AllStages, StepsOfBurnCaptions, MadeFile
<1>15. "captioned" \in Files
  BY AllStages, StepsOfBurnCaptions, MadeFile
<1>16. "master" \in Files
  BY AllStages, StepsOfColorGrade, MadeFile
<1>17. "qa_audio" \in Files
  BY AllStages, StepsOfTechnicalQA, MadeFile
<1>18. "qa_frames" \in Files
  BY AllStages, StepsOfCreativeQA, MadeFile
<1>19. "thumb_frame" \in Files
  BY AllStages, StepsOfDelivery, MadeFile
<1>20. "thumbnail" \in Files
  BY AllStages, StepsOfDelivery, MadeFile
<1>21. "square" \in Files
  BY AllStages, StepsOfDelivery, MadeFile
<1>22. "metadata" \in Files
  BY AllStages, StepsOfDelivery, MadeFile
<1> QED
  BY <1>1, <1>2, <1>3, <1>4, <1>5, <1>6, <1>7, <1>8, <1>9, <1>10, <1>11, <1>12, <1>13, <1>14,
     <1>15, <1>16, <1>17, <1>18, <1>19, <1>20, <1>21, <1>22

LEMMA Places ==
    /\ PlaceOf("images") = 62
    /\ PlaceOf("segments") = 72
    /\ PlaceOf("narration_full") = 73
    /\ PlaceOf("narration_clean") = 82
    /\ PlaceOf("scene_clips") = 92
    /\ PlaceOf("title_card") = 102
    /\ PlaceOf("lower_third") = 103
    /\ PlaceOf("rough_cut") = 112
    /\ PlaceOf("music_bed") = 122
    /\ PlaceOf("audio_mixed") = 123
    /\ PlaceOf("audio_final") = 124
    /\ PlaceOf("av") = 132
    /\ PlaceOf("captions_ass") = 142
    /\ PlaceOf("captions_srt") = 143
    /\ PlaceOf("captioned") = 144
    /\ PlaceOf("master") = 152
    /\ PlaceOf("qa_audio") = 163
    /\ PlaceOf("qa_frames") = 172
    /\ PlaceOf("thumb_frame") = 192
    /\ PlaceOf("thumbnail") = 193
    /\ PlaceOf("square") = 195
    /\ PlaceOf("metadata") = 198
  BY DEF PlaceOf

\* A stage before s hands the key on.
Before(key, s) == \E t \in 1 .. (s - 1) : key \in Output(t)

\* Every key a stage returns is handed on to all the later ones.
LEMMA HandedOn ==
    /\ \A s \in 2 .. 20 : Before("ctx_spec", s)
    /\ \A s \in 3 .. 20 : Before("ctx_research", s)
    /\ \A s \in 4 .. 20 : Before("ctx_creative", s)
    /\ \A s \in 4 .. 20 : Before("ctx_palette", s)
    /\ \A s \in 5 .. 20 : Before("ctx_script", s)
    /\ \A s \in 6 .. 20 : Before("ctx_scenes", s)
    /\ \A s \in 7 .. 20 : Before("ctx_images", s)
    /\ \A s \in 7 .. 20 : Before("ctx_assets_meta", s)
    /\ \A s \in 8 .. 20 : Before("ctx_narration", s)
    /\ \A s \in 9 .. 20 : Before("ctx_cleanup", s)
    /\ \A s \in 10 .. 20 : Before("ctx_scene_clips", s)
    /\ \A s \in 10 .. 20 : Before("ctx_edl", s)
    /\ \A s \in 11 .. 20 : Before("ctx_overlays", s)
    /\ \A s \in 12 .. 20 : Before("ctx_rough", s)
    /\ \A s \in 13 .. 20 : Before("ctx_audio", s)
    /\ \A s \in 14 .. 20 : Before("ctx_av", s)
    /\ \A s \in 15 .. 20 : Before("ctx_captioned", s)
    /\ \A s \in 15 .. 20 : Before("ctx_caption_files", s)
    /\ \A s \in 16 .. 20 : Before("ctx_master", s)
<1>1. \A s \in 2 .. 20 : Before("ctx_spec", s)
  BY AllStages DEF Before, Output, Intake
<1>2. \A s \in 3 .. 20 : Before("ctx_research", s)
  BY AllStages DEF Before, Output, Research
<1>3. \A s \in 4 .. 20 : Before("ctx_creative", s)
  BY AllStages DEF Before, Output, CreativeDirection
<1>4. \A s \in 4 .. 20 : Before("ctx_palette", s)
  BY AllStages DEF Before, Output, CreativeDirection
<1>5. \A s \in 5 .. 20 : Before("ctx_script", s)
  BY AllStages DEF Before, Output, ScriptWriting
<1>6. \A s \in 6 .. 20 : Before("ctx_scenes", s)
  BY AllStages DEF Before, Output, Storyboard
<1>7. \A s \in 7 .. 20 : Before("ctx_images", s)
  BY AllStages DEF Before, Output, AssetAcquisition
<1>8. \A s \in 7 .. 20 : Before("ctx_assets_meta", s)
  BY AllStages DEF Before, Output, AssetAcquisition
<1>9. \A s \in 8 .. 20 : Before("ctx_narration", s)
  BY AllStages DEF Before, Output, NarrationStage
<1>10. \A s \in 9 .. 20 : Before("ctx_cleanup", s)
  BY AllStages DEF Before, Output, Autocleanup
<1>11. \A s \in 10 .. 20 : Before("ctx_scene_clips", s)
  BY AllStages DEF Before, Output, EditorialAssembly
<1>12. \A s \in 10 .. 20 : Before("ctx_edl", s)
  BY AllStages DEF Before, Output, EditorialAssembly
<1>13. \A s \in 11 .. 20 : Before("ctx_overlays", s)
  BY AllStages DEF Before, Output, MotionGraphics
<1>14. \A s \in 12 .. 20 : Before("ctx_rough", s)
  BY AllStages DEF Before, Output, RoughConcat
<1>15. \A s \in 13 .. 20 : Before("ctx_audio", s)
  BY AllStages DEF Before, Output, AudioMix
<1>16. \A s \in 14 .. 20 : Before("ctx_av", s)
  BY AllStages DEF Before, Output, AvMux
<1>17. \A s \in 15 .. 20 : Before("ctx_captioned", s)
  BY AllStages DEF Before, Output, BurnCaptions
<1>18. \A s \in 15 .. 20 : Before("ctx_caption_files", s)
  BY AllStages DEF Before, Output, BurnCaptions
<1>19. \A s \in 16 .. 20 : Before("ctx_master", s)
  BY AllStages DEF Before, Output, ColorGrade
<1> QED
  BY <1>1, <1>2, <1>3, <1>4, <1>5, <1>6, <1>7, <1>8, <1>9, <1>10, <1>11, <1>12, <1>13, <1>14,
     <1>15, <1>16, <1>17, <1>18, <1>19

\* The kind the handlers register a file with.
KindOf(file) ==
    CASE file = "images" -> "generated_image"
      [] file = "narration_full" -> "narration_audio"
      [] file = "narration_clean" -> "cleaned_narration"
      [] file \in {"title_card", "lower_third"} -> "graphics_overlay"
      [] file = "rough_cut" -> "rough_cut"
      [] file = "audio_final" -> "mixed_audio"
      [] file = "av" -> "av_intermediate"
      [] file = "captions_srt" -> "captions_sidecar"
      [] file = "master" -> "master_render"
      [] file = "thumbnail" -> "thumbnail"

\* Where a QA layer reports: the last step of its stage.
QAStage(layer) ==
    CASE layer = "technical"  -> 16
      [] layer = "creative"   -> 17
      [] layer = "multimodal" -> 18

QAStep(layer) ==
    CASE layer = "technical"  -> 4
      [] layer = "creative"   -> 3
      [] layer = "multimodal" -> 2

\* A repair restarts at the stage that failed or before it, but for a failed sync check.
InOrder(s, class) ==
    \/ RepairStrategyFor(class) \in 1 .. s
    \/ s = 13 /\ RepairStrategyFor(class) = 14

\* What the proofs use of step i of stage s.
StepFits(st, s, i) ==
    /\ st.op = "need" =>
        /\ \A key \in st.all : Before(key, s)
        /\ \E key \in st.any : Before(key, s)
    /\ s = 14 /\ i = 1 =>
        st.op = "need" /\ "ctx_av" \in st.all /\ RepairStrategyFor(st.class) = 1
    /\ st.op = "make" =>
        /\ PlaceOf(st.file) = 10 * s + i
        /\ \A g \in st.from : g \in Files /\ PlaceOf(g) < 10 * s + i
    /\ st.op = "register" => st.file \in Files /\ KindOf(st.file) = st.kind
    /\ st.op = "insert" => st.table \in Tables
    /\ st.op = "status" => <<st.value, s>> \in {<<"in_production", 1>>, <<"delivered", 20>>}
    /\ st.op = "report" =>
        /\ st.layer \in Layers /\ s = QAStage(st.layer) /\ i = QAStep(st.layer)
        /\ \A class \in st.classes : InOrder(s, class)
    /\ st.op = "deliver" => s = 19 /\ <<st.file, i>> \in {<<"master", 6>>, <<"square", 7>>}
    /\ st.op = "put" => st.key = "ctx_deliverables_list"
    /\ st.op \in {"need", "check", "read", "make"} => InOrder(s, st.class)

LEMMA Kinds ==
    /\ KindOf("av") = "av_intermediate"
    /\ KindOf("captions_srt") = "captions_sidecar"
    /\ KindOf("narration_clean") = "cleaned_narration"
    /\ KindOf("images") = "generated_image"
    /\ KindOf("lower_third") = "graphics_overlay"
    /\ KindOf("title_card") = "graphics_overlay"
    /\ KindOf("master") = "master_render"
    /\ KindOf("audio_final") = "mixed_audio"
    /\ KindOf("narration_full") = "narration_audio"
    /\ KindOf("rough_cut") = "rough_cut"
    /\ KindOf("thumbnail") = "thumbnail"
  BY DEF KindOf

\* The stages the repair strategies name.
LEMMA SeqNumbers ==
    /\ SeqOf("audio_mix") = 12
    /\ SeqOf("editorial_assembly") = 9
    /\ SeqOf("asset_acquisition") = 6
  BY AllStages DEF SeqOf, Intake, Research, CreativeDirection, ScriptWriting, Storyboard,
     AssetAcquisition, NarrationStage, Autocleanup, EditorialAssembly, MotionGraphics,
     RoughConcat, AudioMix, AvMux, BurnCaptions, ColorGrade, TechnicalQA, CreativeQA,
     MultimodalQA, Delivery, Finalize

LEMMA RepairTargets ==
    /\ RepairStrategyFor("qa_loudness") = 12 /\ RepairStrategyFor("qa_duration") = 9
    /\ RepairStrategyFor("qa_sync") = 14 /\ RepairStrategyFor("corrupt_media") = 6
    /\ \A class : class \notin {"qa_loudness", "qa_duration", "qa_sync", "corrupt_media"} =>
            RepairStrategyFor(class) = 1
  BY SeqNumbers DEF RepairStrategyFor

\* The classes of the failures of a step, but for those of the QA layers.
Early == {"crash", "invalid_brief", "state_missing", "invalid_timeline", "ffmpeg_error"}

LEMMA EarlyInOrder ==
    ASSUME NEW s \in 1 .. 20, NEW class \in Early
    PROVE  InOrder(s, class)
  BY RepairTargets DEF Early, InOrder

LEMMA NeedFits ==
    ASSUME NEW s \in 1 .. 20, NEW i, s # 14 \/ i # 1, NEW keys, keys # {},
            \A key \in keys : Before(key, s)
    PROVE  StepFits(Need(keys), s, i)
  BY EarlyInOrder DEF StepFits, Need, Early

LEMMA NeedOrFits ==
    ASSUME NEW s \in 1 .. 20, NEW i, s # 14 \/ i # 1, NEW key, Before(key, s)
    PROVE  StepFits(NeedOr(key, "state_missing"), s, i)
  BY EarlyInOrder DEF StepFits, NeedOr, Early

LEMMA NeedNarrationFits ==
    ASSUME NEW s \in 9 .. 20, NEW i, NEW keys, s = 14 /\ i = 1 => "ctx_av" \in keys,
           \A key \in keys : Before(key, s)
    PROVE  StepFits(NeedNarration(keys), s, i)
<1>1. Before("ctx_narration", s)
  BY HandedOn
<1> QED
  BY <1>1, EarlyInOrder, RepairTargets DEF StepFits, NeedNarration, Early

LEMMA CheckFits ==
    ASSUME NEW s \in 1 .. 20, NEW i, s # 14 \/ i # 1, NEW class, InOrder(s, class)
    PROVE  StepFits(Check(class), s, i)
  BY DEF StepFits, Check

LEMMA ReadFits ==
    ASSUME NEW s \in 1 .. 20, NEW i, s # 14 \/ i # 1, NEW class, InOrder(s, class), NEW file
    PROVE  StepFits(Read(file, class), s, i)
  BY DEF StepFits, Read

LEMMA RegisterFits ==
    ASSUME NEW s \in 1 .. 20, NEW i, s # 14 \/ i # 1, NEW file \in Files, NEW kind,
            KindOf(file) = kind
    PROVE  StepFits(Register(kind, file), s, i)
  BY DEF StepFits, Register

LEMMA InsertFits ==
    ASSUME NEW s \in 1 .. 20, NEW i, s # 14 \/ i # 1, NEW table \in Tables
    PROVE  StepFits(Insert(table), s, i)
  BY DEF StepFits, Insert

LEMMA ReportFits ==
    ASSUME NEW layer \in Layers, NEW classes,
           \A class \in classes : InOrder(QAStage(layer), class)
    PROVE  StepFits(Report(layer, classes), QAStage(layer), QAStep(layer))
  BY DEF StepFits, Report, Layers, QAStage

LEMMA IntakeFits == \A i \in 1 .. 2 : StepFits(Intake.steps[i], 1, i)
<1>1. StepFits(Check("invalid_brief"), 1, 1)
  BY CheckFits, EarlyInOrder DEF Early
<1>2. StepFits(SetStatus("in_production"), 1, 2)
  BY DEF StepFits, SetStatus
<1> QED
  BY <1>1, <1>2, StepsOfIntake

LEMMA ResearchFits == \A i \in 1 .. 1 : StepFits(Research.steps[i], 2, i)
<1>1. StepFits(NeedOr("ctx_spec", "state_missing"), 2, 1)
  BY NeedOrFits, HandedOn
<1> QED
  BY <1>1, StepsOfResearch

LEMMA CreativeDirectionFits == \A i \in 1 .. 1 : StepFits(CreativeDirection.steps[i], 3, i)
<1>1. StepFits(Need({"ctx_spec"}), 3, 1)
  BY NeedFits, HandedOn
<1> QED
  BY <1>1, StepsOfCreativeDirection

LEMMA ScriptWritingFits == \A i \in 1 .. 2 : StepFits(ScriptWriting.steps[i], 4, i)
<1>1. StepFits(Need({"ctx_spec"}), 4, 1)
  BY NeedFits, HandedOn
<1>2. StepFits(Insert("script_versions"), 4, 2)
  BY InsertFits DEF Tables
<1> QED
  BY <1>1, <1>2, StepsOfScriptWriting

LEMMA StoryboardFits == \A i \in 1 .. 2 : StepFits(Storyboard.steps[i], 5, i)
<1>1. StepFits(Need({"ctx_spec", "ctx_script"}), 5, 1)
  BY NeedFits, HandedOn
<1>2. StepFits(Insert("storyboards"), 5, 2)
  BY InsertFits DEF Tables
<1> QED
  BY <1>1, <1>2, StepsOfStoryboard

LEMMA AssetAcquisitionFits == \A i \in 1 .. 3 : StepFits(AssetAcquisition.steps[i], 6, i)
<1>1. StepFits(Need({"ctx_spec", "ctx_scenes"}), 6, 1)
  BY NeedFits, HandedOn
<1>2. StepFits(Make("images", {}, "crash"), 6, 2)
  BY EveryFile, Places, EarlyInOrder DEF Early, StepFits, Make
<1>3. StepFits(Register("generated_image", "images"), 6, 3)
  BY RegisterFits, EveryFile, Kinds
<1> QED
  BY <1>1, <1>2, <1>3, StepsOfAssetAcquisition

LEMMA NarrationStageFits == \A i \in 1 .. 5 : StepFits(NarrationStage.steps[i], 7, i)
<1>1. StepFits(Need({"ctx_spec", "ctx_scenes"}), 7, 1)
  BY NeedFits, HandedOn
<1>2. StepFits(Make("segments", {}, "crash"), 7, 2)
  BY EveryFile, Places, EarlyInOrder DEF Early, StepFits, Make
<1>3. StepFits(Make("narration_full", {"segments"}, "crash"), 7, 3)
  BY EveryFile, Places, EarlyInOrder DEF Early, StepFits, Make
<1>4. StepFits(Register("narration_audio", "narration_full"), 7, 4)
  BY RegisterFits, EveryFile, Kinds
<1>5. StepFits(Insert("cost_entries"), 7, 5)
  BY InsertFits DEF Tables
<1> QED
  BY <1>1, <1>2, <1>3, <1>4, <1>5, StepsOfNarrationStage

LEMMA AutocleanupFits == \A i \in 1 .. 3 : StepFits(Autocleanup.steps[i], 8, i)
<1>1. StepFits(NeedOr("ctx_narration", "state_missing"), 8, 1)
  BY NeedOrFits, HandedOn
<1>2. StepFits(Make("narration_clean", {"narration_full"}, "crash"), 8, 2)
  BY EveryFile, Places, EarlyInOrder DEF Early, StepFits, Make
<1>3. StepFits(Register("cleaned_narration", "narration_clean"), 8, 3)
  BY RegisterFits, EveryFile, Kinds
<1> QED
  BY <1>1, <1>2, <1>3, StepsOfAutocleanup

LEMMA EditorialAssemblyFits == \A i \in 1 .. 4 : StepFits(EditorialAssembly.steps[i], 9, i)
<1>1. StepFits(NeedNarration({"ctx_spec", "ctx_scenes", "ctx_images"}), 9, 1)
  BY NeedNarrationFits, HandedOn
<1>2. StepFits(Make("scene_clips", {"images"}, "crash"), 9, 2)
  BY EveryFile, Places, EarlyInOrder DEF Early, StepFits, Make
<1>3. StepFits(Read("images", "invalid_timeline"), 9, 3)
  BY ReadFits, EarlyInOrder DEF Early
<1>4. StepFits(Insert("timelines"), 9, 4)
  BY InsertFits DEF Tables
<1> QED
  BY <1>1, <1>2, <1>3, <1>4, StepsOfEditorialAssembly

LEMMA MotionGraphicsFits == \A i \in 1 .. 5 : StepFits(MotionGraphics.steps[i], 10, i)
<1>1. StepFits(Need({"ctx_spec", "ctx_scenes"}), 10, 1)
  BY NeedFits, HandedOn
<1>2. StepFits(Make("title_card", {}, "crash"), 10, 2)
  BY EveryFile, Places, EarlyInOrder DEF Early, StepFits, Make
<1>3. StepFits(Make("lower_third", {}, "crash"), 10, 3)
  BY EveryFile, Places, EarlyInOrder DEF Early, StepFits, Make
<1>4. StepFits(Register("graphics_overlay", "title_card"), 10, 4)
  BY RegisterFits, EveryFile, Kinds
<1>5. StepFits(Register("graphics_overlay", "lower_third"), 10, 5)
  BY RegisterFits, EveryFile, Kinds
<1> QED
  BY <1>1, <1>2, <1>3, <1>4, <1>5, StepsOfMotionGraphics

LEMMA RoughConcatFits == \A i \in 1 .. 3 : StepFits(RoughConcat.steps[i], 11, i)
<1>1. StepFits(Need({"ctx_scene_clips"}), 11, 1)
  BY NeedFits, HandedOn
<1>2. StepFits(Make("rough_cut", {"scene_clips"}, "ffmpeg_error"), 11, 2)
  BY EveryFile, Places, EarlyInOrder DEF Early, StepFits, Make
<1>3. StepFits(Register("rough_cut", "rough_cut"), 11, 3)
  BY RegisterFits, EveryFile, Kinds
<1> QED
  BY <1>1, <1>2, <1>3, StepsOfRoughConcat

LEMMA AudioMixFits == \A i \in 1 .. 6 : StepFits(AudioMix.steps[i], 12, i)
<1>1. StepFits(NeedNarration({"ctx_spec"}), 12, 1)
  BY NeedNarrationFits, HandedOn
<1>2. StepFits(Make("music_bed", {}, "crash"), 12, 2)
  BY EveryFile, Places, EarlyInOrder DEF Early, StepFits, Make
<1>3. StepFits(Make("audio_mixed", {"narration_clean", "music_bed"}, "crash"), 12, 3)
  BY EveryFile, Places, EarlyInOrder DEF Early, StepFits, Make
<1>4. StepFits(Make("audio_final", {"audio_mixed"}, "crash"), 12, 4)
  BY EveryFile, Places, EarlyInOrder DEF Early, StepFits, Make
<1>5. StepFits(Register("mixed_audio", "audio_final"), 12, 5)
  BY RegisterFits, EveryFile, Kinds
<1>6. StepFits(Insert("cost_entries"), 12, 6)
  BY InsertFits DEF Tables
<1> QED
  BY <1>1, <1>2, <1>3, <1>4, <1>5, <1>6, StepsOfAudioMix

LEMMA AvMuxFits == \A i \in 1 .. 5 : StepFits(AvMux.steps[i], 13, i)
<1>1. StepFits(Need({"ctx_rough", "ctx_audio"}), 13, 1)
  BY NeedFits, HandedOn
<1>2. StepFits(Make("av", {"rough_cut", "audio_final"}, "qa_sync"), 13, 2)
  BY EveryFile, Places, RepairTargets DEF InOrder, StepFits, Make
<1>3. StepFits(Check("crash"), 13, 3)
  BY CheckFits, EarlyInOrder DEF Early
<1>4. StepFits(Check("qa_sync"), 13, 4)
  BY CheckFits, RepairTargets DEF InOrder
<1>5. StepFits(Register("av_intermediate", "av"), 13, 5)
  BY RegisterFits, EveryFile, Kinds
<1> QED
  BY <1>1, <1>2, <1>3, <1>4, <1>5, StepsOfAvMux

LEMMA BurnCaptionsFits == \A i \in 1 .. 5 : StepFits(BurnCaptions.steps[i], 14, i)
<1>1. StepFits(NeedNarration({"ctx_spec", "ctx_av"}), 14, 1)
  BY NeedNarrationFits, HandedOn
<1>2. StepFits(Make("captions_ass", {}, "crash"), 14, 2)
  BY EveryFile, Places, EarlyInOrder DEF Early, StepFits, Make
<1>3. StepFits(Make("captions_srt", {}, "crash"), 14, 3)
  BY EveryFile, Places, EarlyInOrder DEF Early, StepFits, Make
<1>4. StepFits(Make("captioned", {"av", "captions_ass"}, "ffmpeg_error"), 14, 4)
  BY EveryFile, Places, EarlyInOrder DEF Early, StepFits, Make
<1>5. StepFits(Register("captions_sidecar", "captions_srt"), 14, 5)
  BY RegisterFits, EveryFile, Kinds
<1> QED
  BY <1>1, <1>2, <1>3, <1>4, <1>5, StepsOfBurnCaptions

LEMMA ColorGradeFits == \A i \in 1 .. 3 : StepFits(ColorGrade.steps[i], 15, i)
<1>1. StepFits(Need({"ctx_captioned"}), 15, 1)
  BY NeedFits, HandedOn
<1>2. StepFits(Make("master", {"captioned"}, "ffmpeg_error"), 15, 2)
  BY EveryFile, Places, EarlyInOrder DEF Early, StepFits, Make
<1>3. StepFits(Register("master_render", "master"), 15, 3)
  BY RegisterFits, EveryFile, Kinds
<1> QED
  BY <1>1, <1>2, <1>3, StepsOfColorGrade

LEMMA TechnicalQAFits == \A i \in 1 .. 4 : StepFits(TechnicalQA.steps[i], 16, i)
<1>1. StepFits(Need({"ctx_spec", "ctx_master"}), 16, 1)
  BY NeedFits, HandedOn
<1>2. StepFits(Read("master", "corrupt_media"), 16, 2)
  BY ReadFits, RepairTargets DEF InOrder
<1>3. StepFits(Make("qa_audio", {"master"}, "crash"), 16, 3)
  BY EveryFile, Places, EarlyInOrder DEF Early, StepFits, Make
<1>4. StepFits(Report("technical", {"qa_loudness", "qa_duration", "qa_other"}), 16, 4)
  BY ReportFits, RepairTargets DEF Layers, QAStage, QAStep, InOrder
<1> QED
  BY <1>1, <1>2, <1>3, <1>4, StepsOfTechnicalQA

LEMMA CreativeQAFits == \A i \in 1 .. 3 : StepFits(CreativeQA.steps[i], 17, i)
<1>1. StepFits(NeedNarration({"ctx_spec", "ctx_script", "ctx_master"}), 17, 1)
  BY NeedNarrationFits, HandedOn
<1>2. StepFits(Make("qa_frames", {"master"}, "crash"), 17, 2)
  BY EveryFile, Places, EarlyInOrder DEF Early, StepFits, Make
<1>3. StepFits(Report("creative", {"qa_creative"}), 17, 3)
  BY ReportFits, RepairTargets DEF Layers, QAStage, QAStep, InOrder
<1> QED
  BY <1>1, <1>2, <1>3, StepsOfCreativeQA

LEMMA MultimodalQAFits == \A i \in 1 .. 2 : StepFits(MultimodalQA.steps[i], 18, i)
<1>1. StepFits(Need({"ctx_spec", "ctx_scenes", "ctx_master", "ctx_script",
                     "ctx_scene_clips"}), 18, 1)
  BY NeedFits, HandedOn
<1>2. StepFits(Report("multimodal", {"qa_multimodal"}), 18, 2)
  BY ReportFits, RepairTargets DEF Layers, QAStage, QAStep, InOrder
<1> QED
  BY <1>1, <1>2, StepsOfMultimodalQA

LEMMA DeliveryFits == \A i \in 1 .. 9 : StepFits(Delivery.steps[i], 19, i)
<1>1. StepFits(Need({"ctx_spec", "ctx_master"}), 19, 1)
  BY NeedFits, HandedOn
<1>2. StepFits(Make("thumb_frame", {"master"}, "crash"), 19, 2)
  BY EveryFile, Places, EarlyInOrder DEF Early, StepFits, Make
<1>3. StepFits(Make("thumbnail", {"thumb_frame"}, "crash"), 19, 3)
  BY EveryFile, Places, EarlyInOrder DEF Early, StepFits, Make
<1>4. StepFits(Register("thumbnail", "thumbnail"), 19, 4)
  BY RegisterFits, EveryFile, Kinds
<1>5. StepFits(Make("square", {"master"}, "crash"), 19, 5)
  BY EveryFile, Places, EarlyInOrder DEF Early, StepFits, Make
<1>6. StepFits(Deliver("master"), 19, 6)
  BY DEF StepFits, Deliver
<1>7. StepFits(Deliver("square"), 19, 7)
  BY DEF StepFits, Deliver
<1>8. StepFits(Make("metadata", {}, "crash"), 19, 8)
  BY EveryFile, Places, EarlyInOrder DEF Early, StepFits, Make
<1>9. StepFits(Put("ctx_deliverables_list"), 19, 9)
  BY DEF StepFits, Put
<1> QED
  BY <1>1, <1>2, <1>3, <1>4, <1>5, <1>6, <1>7, <1>8, <1>9, StepsOfDelivery

LEMMA FinalizeFits == \A i \in 1 .. 2 : StepFits(Finalize.steps[i], 20, i)
<1>1. StepFits(SetStatus("delivered"), 20, 1)
  BY DEF StepFits, SetStatus
<1>2. StepFits(Insert("events"), 20, 2)
  BY InsertFits DEF Tables
<1> QED
  BY <1>1, <1>2, StepsOfFinalize

\* Only av_mux returns the muxed video.
LEMMA VideoKey == \A s \in 1 .. 20 : "ctx_av" \in Output(s) => s = 13
<1>1. \A st \in {Intake, Research, CreativeDirection, ScriptWriting, Storyboard,
                  AssetAcquisition, NarrationStage, Autocleanup, EditorialAssembly, MotionGraphics} : "ctx_av" \notin st.out
  BY DEF Intake, Research, CreativeDirection, ScriptWriting, Storyboard, AssetAcquisition,
     NarrationStage, Autocleanup, EditorialAssembly, MotionGraphics
<1>2. \A st \in {RoughConcat, AudioMix, BurnCaptions, ColorGrade, TechnicalQA, CreativeQA,
                  MultimodalQA, Delivery, Finalize} : "ctx_av" \notin st.out
  BY DEF RoughConcat, AudioMix, BurnCaptions, ColorGrade, TechnicalQA, CreativeQA, MultimodalQA,
     Delivery, Finalize
<1> QED
  BY <1>1, <1>2, AllStages DEF Output

\* Every step of every stage fits its place.
LEMMA AllFit ==
    ASSUME NEW s \in DOMAIN Stages
    PROVE  /\ s \in 1 .. 20
           /\ Len(Stages[s].steps) \in 1 .. 9
           /\ DOMAIN Stages[s].steps = 1 .. Len(Stages[s].steps)
           /\ \A i \in DOMAIN Stages[s].steps : StepFits(Stages[s].steps[i], s, i)
<1>0. s \in 1 .. 20
  BY AllStages
<1>1. CASE s = 1
  BY <1>1, AllStages, StepsOfIntake, IntakeFits
<1>2. CASE s = 2
  BY <1>2, AllStages, StepsOfResearch, ResearchFits
<1>3. CASE s = 3
  BY <1>3, AllStages, StepsOfCreativeDirection, CreativeDirectionFits
<1>4. CASE s = 4
  BY <1>4, AllStages, StepsOfScriptWriting, ScriptWritingFits
<1>5. CASE s = 5
  BY <1>5, AllStages, StepsOfStoryboard, StoryboardFits
<1>6. CASE s = 6
  BY <1>6, AllStages, StepsOfAssetAcquisition, AssetAcquisitionFits
<1>7. CASE s = 7
  BY <1>7, AllStages, StepsOfNarrationStage, NarrationStageFits
<1>8. CASE s = 8
  BY <1>8, AllStages, StepsOfAutocleanup, AutocleanupFits
<1>9. CASE s = 9
  BY <1>9, AllStages, StepsOfEditorialAssembly, EditorialAssemblyFits
<1>10. CASE s = 10
  BY <1>10, AllStages, StepsOfMotionGraphics, MotionGraphicsFits
<1>11. CASE s = 11
  BY <1>11, AllStages, StepsOfRoughConcat, RoughConcatFits
<1>12. CASE s = 12
  BY <1>12, AllStages, StepsOfAudioMix, AudioMixFits
<1>13. CASE s = 13
  BY <1>13, AllStages, StepsOfAvMux, AvMuxFits
<1>14. CASE s = 14
  BY <1>14, AllStages, StepsOfBurnCaptions, BurnCaptionsFits
<1>15. CASE s = 15
  BY <1>15, AllStages, StepsOfColorGrade, ColorGradeFits
<1>16. CASE s = 16
  BY <1>16, AllStages, StepsOfTechnicalQA, TechnicalQAFits
<1>17. CASE s = 17
  BY <1>17, AllStages, StepsOfCreativeQA, CreativeQAFits
<1>18. CASE s = 18
  BY <1>18, AllStages, StepsOfMultimodalQA, MultimodalQAFits
<1>19. CASE s = 19
  BY <1>19, AllStages, StepsOfDelivery, DeliveryFits
<1>20. CASE s = 20
  BY <1>20, AllStages, StepsOfFinalize, FinalizeFits
<1> QED
  BY <1>0, <1>1, <1>2, <1>3, <1>4, <1>5, <1>6, <1>7, <1>8, <1>9, <1>10, <1>11, <1>12, <1>13,
     <1>14, <1>15, <1>16, <1>17, <1>18, <1>19, <1>20

LEMMA PlacesAreNumbers ==
    ASSUME NEW s \in DOMAIN Stages, NEW i \in StepsOf(s, "make")
    PROVE  PlaceOf(Stages[s].steps[i].file) = 10 * s + i /\ s \in 1 .. 20 /\ i \in 1 .. 9
<1>1. i \in DOMAIN Stages[s].steps /\ Stages[s].steps[i].op = "make"
  BY DEF StepsOf
<1> QED
  BY <1>1, AllFit DEF StepFits

LEMMA FilePlace == \A f \in Files : PlaceOf(f) \in Nat
  BY PlacesAreNumbers DEF Files, MadeBy

-----------------------------------------------------------------------------
(* The inductive invariant                                                 *)

Typed ==
    /\ at \in [stage : 0 .. 21, step : Nat \ {0}]
    /\ done \subseteq 1 .. 20 /\ owed \in 0 .. 20
    /\ tries \in [1 .. 20 -> 0 .. 2] /\ repairs \in 0 .. 2
    /\ status \in {"draft", "in_production", "delivered"}
    /\ disk \in [Files -> [n : Nat, state : {"absent", "partial", "whole"},
                           of : SUBSET (Files \X Nat), old : BOOLEAN]]
    /\ rows \in [Tables -> Nat] /\ passed \in [Layers -> Nat]
    /\ artifacts \subseteq [kind : {KindOf(f) : f \in Files}, file : Files, old : BOOLEAN]
    /\ sweep \in [pc : {"idle", "purge", "scan"}, doomed : SUBSET Files, left : SUBSET Files,
                  referenced : SUBSET Files, judged : Files \cup {"none"}]

\* The finished stages are a prefix, and the executor is not behind a gap in them; except
\* that a failed sync check restarts at the stage behind it, which then misses the video.
OrderKept ==
    /\ \A s \in done : 1 .. s \subseteq done
    /\ 1 .. (at.stage - 1) \subseteq done \/ (at = [stage |-> 14, step |-> 1] /\ 13 \notin done)

\* An executor has what the finished stages returned, and nothing else but the list.
ContextRestored ==
    /\ at.stage # 0 => \A s \in done : Output(s) \subseteq ctx
    /\ ctx \subseteq (UNION {Output(s) : s \in done}) \cup {"ctx_deliverables_list"}

\* A file is not half written, and made of what is there.
Agrees(f) ==
    /\ disk[f].state # "partial"
    /\ There(f) => \A u \in disk[f].of : There(u[1]) => disk[u[1]].n = u[2]

\* Step i of stage s is behind the executor, or was when the stage finished.
Passed(s, i) == s \in done \/ (at.stage = s /\ i < at.step)

\* Files are made of files that are made before them; what was made agrees.
MadeOfEarlier ==
    \A f \in Files : \A u \in disk[f].of : u[1] \in Files /\ PlaceOf(u[1]) < PlaceOf(f)

MadeAgrees ==
    \A s \in DOMAIN Stages : \A i \in StepsOf(s, "make") :
        Passed(s, i) => Agrees(Stages[s].steps[i].file)

\* Each verdict is about the master that is there.
MasterChecked ==
    \A l \in Layers : Passed(QAStage(l), QAStep(l)) => passed[l] = disk["master"].n

MasterDelivered ==
    /\ \A d \in deliverables : d.of = disk["master"].n /\ 1 .. 18 \subseteq done
    /\ Passed(19, 6) => [file |-> "master", of |-> disk["master"].n] \in deliverables
    /\ Passed(19, 7) => [file |-> "square", of |-> disk["master"].n] \in deliverables
    /\ status = "delivered" => 19 \in done

\* A row's kind goes with its file, and the cleanup is after temporary kinds and files
\* that no row names.
SweepKnows ==
    /\ \A a \in artifacts : KindOf(a.file) = a.kind
    /\ \A f \in sweep.doomed : KindOf(f) \in TEMPORARY_KINDS
    /\ sweep.judged # "none" => sweep.judged \notin sweep.referenced

PrInv ==
    /\ Typed /\ OrderKept /\ ContextRestored /\ MadeOfEarlier /\ MadeAgrees
    /\ MasterChecked /\ MasterDelivered /\ SweepKnows

-----------------------------------------------------------------------------
(* Steps of a handler                                                      *)

Runs ==
    \/ ReadContext \/ PassCheck \/ Render \/ RegisterArtifact \/ InsertRow
    \/ UpdateProject \/ PassQA \/ InsertDeliverable \/ PutInContext

\* The actions of Next, those of a handler together.
Others == Claim \/ SkipDone \/ FinishStage \/ Leave \/ FailStage \/ Crash \/ Age \/ Cleanup

LEMMA NextActions == Next <=> Runs \/ Others
  BY DEF Next, Step, Runs, Others

LEMMA DoingStep ==
    ASSUME Typed, NEW op, Doing(op)
    PROVE  /\ at.stage \in 1 .. 20 /\ at.stage \notin done
           /\ at.step \in 1 .. 9 /\ at.step \in DOMAIN Stages[at.stage].steps
           /\ Now = Stages[at.stage].steps[at.step] /\ Now.op = op
           /\ StepFits(Now, at.stage, at.step)
<1>1. at.stage \in DOMAIN Stages \ done
<2>1. SUFFICES ASSUME Steps = << >> PROVE FALSE
  BY DEF Steps
<2> QED
  BY <2>1 DEF Doing
<1>2. Steps = Stages[at.stage].steps
  BY <1>1 DEF Steps
<1>3. /\ at.step \in DOMAIN Stages[at.stage].steps
      /\ Now = Stages[at.stage].steps[at.step] /\ Now.op = op
  BY <1>2 DEF Doing, Now
<1>4. at.stage \in 1 .. 20
  BY <1>1, AllStages
<1>5. at.step \in 1 .. 9 /\ StepFits(Stages[at.stage].steps[at.step], at.stage, at.step)
  BY <1>1, <1>3, AllFit
<1> QED
  BY <1>1, <1>3, <1>4, <1>5

\* The file that a step makes.
LEMMA MadeIsFile ==
    ASSUME Typed, Doing("make")
    PROVE  /\ Now.file \in Files
           /\ PlaceOf(Now.file) = 10 * at.stage + at.step
           /\ Now.from \subseteq Files
           /\ \A g \in Now.from : PlaceOf(g) < PlaceOf(Now.file)
           /\ at.step \in StepsOf(at.stage, "make")
<1>1. /\ at.step \in DOMAIN Stages[at.stage].steps /\ at.stage \in DOMAIN Stages
      /\ Now = Stages[at.stage].steps[at.step] /\ Now.op = "make"
      /\ StepFits(Now, at.stage, at.step)
  BY DoingStep, AllStages
<1>2. at.step \in StepsOf(at.stage, "make")
  BY <1>1 DEF StepsOf
<1>3. Now.file \in Files
  BY <1>1, <1>2 DEF MadeBy, Files
<1> QED
  BY <1>1, <1>2, <1>3 DEF StepFits

\* A step that runs has all earlier stages behind it.
LEMMA InOrderStep ==
    ASSUME Typed, OrderKept, ContextRestored,
           NEW op, Doing(op), op # "need" \/ Satisfied(Now)
    PROVE  1 .. (at.stage - 1) \subseteq done
<1> SUFFICES ASSUME at = [stage |-> 14, step |-> 1], 13 \notin done
             PROVE  FALSE
  BY DEF OrderKept
<1>1. Now.op = op /\ StepFits(Now, 14, 1)
  BY DoingStep
<1>2. "ctx_av" \in ctx
  BY <1>1 DEF StepFits, Satisfied
<1>3. PICK s \in done : "ctx_av" \in Output(s)
<2> DEFINE returned == UNION {Output(s) : s \in done}
<2>1. ctx \subseteq returned \cup {"ctx_deliverables_list"}
  BY DEF ContextRestored
<2>2. "ctx_av" \in returned
<3> HIDE DEF returned
<3> QED
  BY <1>2, <2>1
<2> QED
  BY <2>2
<1> QED
  BY <1>3, VideoKey DEF Typed

\* What is the same whatever the step.
LEMMA Running ==
    ASSUME Typed, OrderKept, ContextRestored, Runs
    PROVE  /\ at.stage \in 1 .. 20 /\ at.stage \notin done
           /\ at.step \in 1 .. 9 /\ at.step \in DOMAIN Stages[at.stage].steps
           /\ 1 .. (at.stage - 1) \subseteq done
           /\ at' = [at EXCEPT !.step = @ + 1]
           /\ done' = done /\ owed' = owed /\ sweep' = sweep
           /\ tries' = tries /\ repairs' = repairs
<1>1. PICK op : Doing(op) /\ (op # "need" \/ Satisfied(Now))
  BY DEF Runs, ReadContext, PassCheck, Render, RegisterArtifact, InsertRow, UpdateProject,
         PassQA, InsertDeliverable, PutInContext
<1>2. /\ at' = [at EXCEPT !.step = @ + 1]
      /\ done' = done /\ owed' = owed /\ sweep' = sweep
      /\ tries' = tries /\ repairs' = repairs
  BY DEF Runs, ReadContext, PassCheck, Render, RegisterArtifact, InsertRow, UpdateProject,
         PassQA, InsertDeliverable, PutInContext, Proceed, attempts
<1> QED
  BY <1>1, <1>2, DoingStep, InOrderStep

\* Nothing passes a step but the run of it.
LEMMA OnlyRunsPass ==
    ASSUME Typed, OrderKept, ContextRestored, [Next]_vars,
           NEW s \in DOMAIN Stages, NEW i \in DOMAIN Stages[s].steps, Passed(s, i)'
    PROVE  Passed(s, i) \/ (Runs /\ at.stage = s /\ at.step = i)
<1>0. s \in 1 .. 20 /\ i \in 1 .. 9 /\ i <= Len(Stages[s].steps)
  BY AllFit
<1>1. CASE Runs
  BY <1>0, <1>1, Running DEF Passed, Typed
<1>2. CASE FinishStage
<2>1. at' = [stage |-> at.stage + 1, step |-> 1] /\ done' = done \cup {at.stage}
  BY <1>2 DEF FinishStage
<2>2. CASE s \in done
  BY <2>2 DEF Passed
<2>3. CASE s = at.stage /\ s \notin done
<3>1. Steps = Stages[s].steps
  BY <2>3, <1>2 DEF FinishStage, Steps
<3> QED
  BY <3>1, <2>3, <1>0, <1>2 DEF FinishStage, Passed, Typed
<2> QED
  BY <2>1, <2>2, <2>3, <1>0 DEF Passed
<1>3. CASE Claim \/ SkipDone \/ Leave \/ FailStage \/ Crash
<2>1. done' = done /\ at'.step = 1
  BY <1>3 DEF Claim, SkipDone, Leave, FailStage, RetryStage, RestartPipeline, EscalateHuman,
              Crash, Nobody, StillDone, Typed
<2> QED
  BY <2>1, <1>0 DEF Passed
<1>4. CASE Age \/ Cleanup \/ UNCHANGED vars
  BY <1>4 DEF Age, Cleanup, SweepStart, Purge, Judge, Unlink, SweepEnd, vars, Passed
<1> QED
  BY <1>1, <1>2, <1>3, <1>4, NextActions DEF Others

LEMMA RenderedTyped ==
    ASSUME Typed, Doing("make"), NEW state \in {"partial", "whole"}
    PROVE  Rendered(state) \in [Files -> [n : Nat, state : {"absent", "partial", "whole"},
                                          of : SUBSET (Files \X Nat), old : BOOLEAN]]
<1> DEFINE made == {<<g, disk[g].n>> : g \in Now.from}
<1>1. Now.file \in Files /\ Now.from \subseteq Files
  BY MadeIsFile
<1>2. made \in SUBSET (Files \X Nat)
  BY <1>1 DEF Typed
<1> HIDE DEF made
<1>3. [n |-> disk[Now.file].n + 1, state |-> state, of |-> made, old |-> FALSE]
        \in [n : Nat, state : {"absent", "partial", "whole"}, of : SUBSET (Files \X Nat),
                old : BOOLEAN]
  BY <1>1, <1>2 DEF Typed
<1> QED
  BY <1>1, <1>3 DEF Rendered, Typed, made

LEMMA UnlinkedTyped ==
    ASSUME Typed, NEW f \in Files
    PROVE  Unlinked(f) \in [Files -> [n : Nat, state : {"absent", "partial", "whole"},
                                      of : SUBSET (Files \X Nat), old : BOOLEAN]]
<1>1. disk[f] \in [n : Nat, state : {"absent", "partial", "whole"}, of : SUBSET (Files \X Nat),
                   old : BOOLEAN]
  BY DEF Typed
<1>2. [disk[f] EXCEPT !.state = "absent", !.of = {}, !.old = FALSE]
        \in [n : Nat, state : {"absent", "partial", "whole"}, of : SUBSET (Files \X Nat),
                old : BOOLEAN]
  BY <1>1
<1>3. Unlinked(f) =
        [disk EXCEPT ![f] = [disk[f] EXCEPT !.state = "absent", !.of = {}, !.old = FALSE]]
  BY DEF Unlinked, Typed
<1> QED
  BY <1>2, <1>3 DEF Typed

\* A repair starts at the stage that failed or before it; but a failed sync check behind it.
LEMMA FailsInOrder ==
    ASSUME Typed, NEW class \in FailsWith
    PROVE  /\ at.stage \in 1 .. 20 \ done /\ at.step \in 1 .. 9
           /\ InOrder(at.stage, class)
           /\ at.stage = 14 /\ at.step = 1 => RepairStrategyFor(class) = 1
<1>1. CASE \E op \in {"need", "check", "read", "make"} : Doing(op) /\ class = Now.class
<2>1. PICK op \in {"need", "check", "read", "make"} : Doing(op)
  BY <1>1
<2> QED
  BY <1>1, <2>1, DoingStep DEF StepFits
<1>2. CASE Doing("report") /\ class \in Now.classes
  BY <1>2, DoingStep DEF StepFits
<1>3. CASE Doing("deliver") /\ class = "crash"
<2>1. RepairStrategyFor(class) = 1
  BY <1>3, RepairTargets
<2>2. /\ at.stage \in 1 .. 20 /\ at.stage \notin done
      /\ at.step \in 1 .. 9
  BY <1>3, DoingStep
<2> QED
  BY <2>1, <2>2 DEF InOrder
<1> QED
  BY <1>1, <1>2, <1>3 DEF FailsWith

LEMMA TriedTyped ==
    ASSUME Typed, at.stage \in 1 .. 20
    PROVE  Tried \in [1 .. 20 -> 0 .. 2]
<1>1. PICK k \in 0 .. 2 : k = tries[at.stage]
  BY DEF Typed
<1>2. (IF k + 1 < 3 THEN k + 1 ELSE k) \in 0 .. 2
  OBVIOUS
<1> QED
  BY <1>1, <1>2 DEF Tried, Attempt, max_task_retries, Typed

\* A failed stage is tried again, the pipeline restarts, or the executor leaves.
LEMMA FailStep ==
    ASSUME FailStage
    PROVE  \E class \in FailsWith :
            /\ done' = done
            /\ \/ at' = [at EXCEPT !.step = 1] /\ ctx' = ctx
               \/ at' = [stage |-> RepairStrategyFor(class), step |-> 1] /\ ctx' = ctx
               \/ at' = Nobody /\ ctx' = {}
  BY DEF FailStage, RetryStage, RestartPipeline, EscalateHuman, StillDone

LEMMA FailTyped ==
    ASSUME Typed, FailStage
    PROVE  /\ at' \in [stage : 0 .. 21, step : Nat \ {0}]
           /\ done' = done /\ owed' \in 0 .. 20
           /\ tries' \in [1 .. 20 -> 0 .. 2] /\ repairs' \in 0 .. 2
<1>1. PICK class \in FailsWith :
        RetryStage(class) \/ RestartPipeline(class) \/ EscalateHuman(class)
  BY DEF FailStage
<1>2. at.stage \in 1 .. 20 /\ Tried \in [1 .. 20 -> 0 .. 2]
  BY FailsInOrder, TriedTyped
<1>3. CASE RetryStage(class)
  BY <1>2, <1>3 DEF RetryStage, Typed
<1>4. CASE RestartPipeline(class)
<2>1. PICK target \in 1 .. 20 : target = RepairStrategyFor(class)
  BY RepairTargets
<2>2. tries' = [s \in 1 .. 20 |-> IF s >= target THEN 0 ELSE Tried[s]]
  BY <1>4, <2>1, AllStages DEF RestartPipeline
<2>3. tries' \in [1 .. 20 -> 0 .. 2]
  BY <1>2, <2>2
<2>4. repairs' \in 0 .. 2
  BY <1>4 DEF RestartPipeline, repair_budget, Typed
<2>5. at' = [stage |-> target, step |-> 1] /\ done' = done /\ owed' \in {target, 0}
  BY <1>4, <2>1 DEF RestartPipeline, StillDone
<2> QED
  BY <2>1, <2>3, <2>4, <2>5
<1>5. CASE EscalateHuman(class)
  BY <1>2, <1>5 DEF EscalateHuman, Nobody, Typed
<1> QED
  BY <1>1, <1>3, <1>4, <1>5

\* Only the rendering that failed may have left something else.
LEMMA FailLeaves ==
    ASSUME Typed, FailStage
    PROVE  \/ disk' = disk
           \/ Doing("make") /\ disk' = Rendered("partial") /\ at'.step = 1 /\ done' = done
<1>1. \/ at'.step = 1 /\ done' = done
      \/ ~ Doing("make")
      \/ disk' = disk
  BY FailStep DEF Nobody, Typed
<1> QED
  BY <1>1 DEF FailStage, LeftByFailure

-----------------------------------------------------------------------------
(* Each part of the invariant is kept                                      *)

LEMMA TypedKeeps ==
    ASSUME Typed, OrderKept, ContextRestored, [Next]_vars
    PROVE  Typed'
<1>1. CASE Claim \/ SkipDone \/ Leave
<2>1. CASE Claim
  BY <2>1 DEF Claim, attempts, records, Typed
<2>2. CASE SkipDone
  BY <2>2 DEF SkipDone, attempts, records, Typed
<2>3. CASE Leave
<3>1. at' = Nobody /\ UNCHANGED <<done, owed, tries, repairs, disk, records, sweep>>
  BY <2>3 DEF Leave, attempts
<3> QED
  BY <3>1 DEF Nobody, records, Typed
<2> QED
  BY <1>1, <2>1, <2>2, <2>3
<1>2. CASE FinishStage
<2>1. at.stage \in 1 .. 20
  BY <1>2, AllStages DEF FinishStage
<2>2. at' \in [stage : 0 .. 21, step : Nat \ {0}]
<3>1. at' = [stage |-> at.stage + 1, step |-> 1]
  BY <1>2 DEF FinishStage
<3> QED
  BY <2>1, <3>1
<2>3. done' \subseteq 1 .. 20
  BY <1>2, <2>1 DEF FinishStage, Typed
<2>4. owed' \in 0 .. 20
  BY <1>2 DEF FinishStage, Typed
<2>5. tries' \in [1 .. 20 -> 0 .. 2] /\ repairs' = repairs
<3>1. tries' = [tries EXCEPT ![at.stage] = 0] /\ repairs' = repairs
  BY <1>2 DEF FinishStage
<3>2. tries' = [s \in 1 .. 20 |-> IF s = at.stage THEN 0 ELSE tries[s]]
  BY <3>1 DEF Typed
<3>3. \A s \in 1 .. 20 : (IF s = at.stage THEN 0 ELSE tries[s]) \in 0 .. 2
  BY DEF Typed
<3> QED
  BY <3>1, <3>2, <3>3
<2> QED
  BY <1>2, <2>2, <2>3, <2>4, <2>5 DEF FinishStage, records, Typed
<1>3. CASE Runs
<2>1. at' \in [stage : 0 .. 21, step : Nat \ {0}] /\ done' = done /\ owed' = owed /\ sweep' = sweep
      /\ tries' = tries /\ repairs' = repairs
  BY <1>3, Running DEF Typed
<2>2. CASE ReadContext \/ PassCheck \/ PutInContext
  BY <2>1, <2>2 DEF ReadContext, PassCheck, PutInContext, attempts, records, Typed
<2>3. CASE Render
  BY <2>1, <2>3, RenderedTyped DEF Render, attempts, records, Typed
<2>4. CASE RegisterArtifact
<3>1. Now.file \in Files /\ KindOf(Now.file) = Now.kind
  BY <2>4, DoingStep DEF RegisterArtifact, StepFits
<3>2. [kind |-> Now.kind, file |-> Now.file, old |-> FALSE]
        \in [kind : {KindOf(f) : f \in Files}, file : Files, old : BOOLEAN]
  BY <3>1
<3>3. artifacts' \subseteq [kind : {KindOf(f) : f \in Files}, file : Files, old : BOOLEAN]
  BY <2>4, <3>2 DEF RegisterArtifact, Typed
<3> QED
  BY <2>1, <2>4, <3>3 DEF RegisterArtifact, Typed
<2>5. CASE InsertRow
<3>1. Now.table \in Tables
  BY <2>5, DoingStep DEF InsertRow, StepFits
<3> QED
  BY <2>1, <2>5, <3>1 DEF InsertRow, Typed
<2>6. CASE UpdateProject
<3>1. Now.value \in {"in_production", "delivered"}
  BY <2>6, DoingStep DEF UpdateProject, StepFits
<3> QED
  BY <2>1, <2>6, <3>1 DEF UpdateProject, Typed
<2>7. CASE PassQA
<3>1. Now.layer \in Layers
  BY <2>7, DoingStep DEF PassQA, StepFits
<3>2. disk["master"].n \in Nat
  BY EveryFile DEF Typed
<3> QED
  BY <2>1, <2>7, <3>1, <3>2 DEF PassQA, Typed, Tables
<2>8. CASE InsertDeliverable
  BY <2>1, <2>8 DEF InsertDeliverable, Tables, Typed
<2> QED
  BY <1>3, <2>2, <2>3, <2>4, <2>5, <2>6, <2>7, <2>8 DEF Runs
<1>4. CASE FailStage
<2>1. rows' \in [Tables -> Nat]
  BY <1>4 DEF FailStage, LeftByFailure, Typed, Tables
<2>2. disk' \in [Files -> [n : Nat, state : {"absent", "partial", "whole"},
                           of : SUBSET (Files \X Nat), old : BOOLEAN]]
  BY <1>4, FailLeaves, RenderedTyped DEF Typed
<2>3. status' = status /\ artifacts' = artifacts /\ passed' = passed /\ sweep' = sweep
  BY <1>4 DEF FailStage
<2> QED
  BY <1>4, <2>1, <2>2, <2>3, FailTyped DEF Typed
<1>5. CASE Crash
<2>1. tries' \in [1 .. 20 -> 0 .. 2]
  BY <1>5, TriedTyped, AllStages DEF Crash, Typed
<2>2. disk' \in [Files -> [n : Nat, state : {"absent", "partial", "whole"},
                           of : SUBSET (Files \X Nat), old : BOOLEAN]]
  BY <1>5, RenderedTyped DEF Crash, Typed
<2> QED
  BY <1>5, <2>1, <2>2 DEF Crash, records, Nobody, Typed
<1>6. CASE Age
<2>1. disk' \in [Files -> [n : Nat, state : {"absent", "partial", "whole"},
                           of : SUBSET (Files \X Nat), old : BOOLEAN]]
<3>1. \A f \in Files : [disk[f] EXCEPT !.old = disk[f].state # "absent"]
        \in [n : Nat, state : {"absent", "partial", "whole"}, of : SUBSET (Files \X Nat),
                old : BOOLEAN]
  BY DEF Typed
<3> QED
  BY <1>6, <3>1 DEF Age
<2>2. artifacts' \subseteq [kind : {KindOf(f) : f \in Files}, file : Files, old : BOOLEAN]
<3> DEFINE kinds == {KindOf(f) : f \in Files}
<3>1. artifacts \subseteq [kind : kinds, file : Files, old : BOOLEAN]
  BY DEF Typed
<3>2. artifacts' = {[a EXCEPT !.old = TRUE] : a \in artifacts}
  BY <1>6 DEF Age
<3>3. artifacts' \subseteq [kind : kinds, file : Files, old : BOOLEAN]
<4> HIDE DEF kinds
<4> QED
  BY <3>1, <3>2
<3> QED
  BY <3>3
<2> QED
  BY <1>6, <2>1, <2>2 DEF Age, attempts, Typed
<1>7. CASE Cleanup
<2>1. CASE SweepStart
<3>1. Doomed \subseteq Files /\ {a.file : a \in artifacts} \subseteq Files
  BY DEF Doomed, Typed
<3> QED
  BY <2>1, <3>1 DEF SweepStart, Resting, attempts, records, Typed
<2>2. CASE Purge
<3>1. CASE sweep.doomed = {}
  BY <2>2, <3>1 DEF Purge, attempts, records, Typed
<3>2. CASE sweep.doomed # {}
<4>1. PICK f \in sweep.doomed :
        sweep' = [sweep EXCEPT !.doomed = @ \ {f}] /\ disk' = Unlinked(f)
  BY <2>2, <3>2 DEF Purge
<4> QED
  BY <2>2, <4>1, UnlinkedTyped DEF Purge, attempts, records, Typed
<3> QED
  BY <3>1, <3>2
<2>3. CASE Judge
<3>1. PICK f \in Orphans : sweep' = [sweep EXCEPT !.left = @ \ {f}, !.judged = f]
  BY <2>3 DEF Judge
<3>2. f \in Files
  BY DEF Orphans, Typed
<3> QED
<4>1. sweep' \in [pc : {"idle", "purge", "scan"}, doomed : SUBSET Files, left : SUBSET Files,
                  referenced : SUBSET Files, judged : Files \cup {"none"}]
  BY <3>1, <3>2 DEF Typed
<4> QED
  BY <2>3, <4>1 DEF Judge, attempts, records, Typed
<2>4. CASE Unlink
<3>1. sweep.judged \in Files
  BY <2>4 DEF Unlink, Typed
<3> QED
  BY <2>4, <3>1, UnlinkedTyped DEF Unlink, attempts, records, Typed
<2>5. CASE SweepEnd
  BY <2>5 DEF SweepEnd, Resting, attempts, records, Typed
<2> QED
  BY <1>7, <2>1, <2>2, <2>3, <2>4, <2>5 DEF Cleanup
<1>8. CASE UNCHANGED vars
  BY <1>8 DEF vars, attempts, records, Typed
<1> QED
  BY <1>1, <1>2, <1>3, <1>4, <1>5, <1>6, <1>7, <1>8, NextActions DEF Others

LEMMA OrderKeeps ==
    ASSUME Typed, OrderKept, ContextRestored, [Next]_vars
    PROVE  OrderKept'
<1>1. CASE Claim \/ Leave \/ Crash
<2>1. done' = done /\ at'.stage \in {0, 1}
  BY <1>1 DEF Claim, Leave, Crash, Nobody
<2> QED
  BY <2>1 DEF OrderKept
<1>2. CASE SkipDone
<2>1. done' = done /\ at.stage \in done /\ at'.stage - 1 = at.stage
  BY <1>2 DEF SkipDone, Typed
<2> QED
  BY <2>1 DEF OrderKept
<1>3. CASE FinishStage
<2>1. at.stage \in DOMAIN Stages \ done /\ at.step > Len(Stages[at.stage].steps)
  BY <1>3 DEF FinishStage, Steps
<2>2. at.step > 1 /\ at.stage \in 1 .. 20
<3>1. at.stage \in 1 .. 20
  BY <2>1, AllFit
<3>3. PICK last \in 1 .. 9 : last = Len(Stages[at.stage].steps)
  BY <2>1, AllFit
<3>2. at.step \in Nat \ {0} /\ at.step > Len(Stages[at.stage].steps)
  BY <2>1 DEF Typed
<3>4. PICK step \in Nat : step = at.step
  BY <3>2
<3>5. step > last
  BY <3>2, <3>3, <3>4
<3>6. step > 1
  BY <3>5
<3> QED
  BY <3>1, <3>4, <3>6
<2>3. 1 .. (at.stage - 1) \subseteq done
  BY <2>2 DEF OrderKept
<2>4. done' = done \cup {at.stage} /\ at'.stage - 1 = at.stage
  BY <1>3, <2>2 DEF FinishStage
<2>5. 1 .. at.stage \subseteq done'
  BY <2>2, <2>3, <2>4
<2> QED
  BY <2>4, <2>5 DEF OrderKept
<1>4. CASE Runs
<2>1. 1 .. (at.stage - 1) \subseteq done /\ done' = done /\ at'.stage = at.stage
  BY <1>4, Running DEF Typed
<2> QED
  BY <2>1 DEF OrderKept
<1>5. CASE FailStage
<2>1. PICK class \in FailsWith :
        /\ done' = done
        /\ \/ at' = [at EXCEPT !.step = 1]
           \/ at' = [stage |-> RepairStrategyFor(class), step |-> 1]
           \/ at' = Nobody
  BY <1>5, FailStep
<2>2. CASE at' = [at EXCEPT !.step = 1]
<3>1. at'.stage = at.stage /\ (at.step = 1 => at' = at)
  BY <2>2 DEF Typed
<3> QED
  BY <2>1, <3>1 DEF OrderKept
<2>3. CASE at' = [stage |-> RepairStrategyFor(class), step |-> 1]
<3>1. /\ at.stage \in 1 .. 20 \ done /\ at.step \in 1 .. 9
      /\ InOrder(at.stage, class)
      /\ at.stage = 14 /\ at.step = 1 => RepairStrategyFor(class) = 1
  BY FailsInOrder
<3>2. CASE 1 .. (at.stage - 1) \subseteq done
<4>1. CASE RepairStrategyFor(class) \in 1 .. at.stage
  BY <2>1, <2>3, <3>1, <3>2, <4>1 DEF OrderKept
<4>2. CASE at.stage = 13 /\ RepairStrategyFor(class) = 14
  BY <2>1, <2>3, <3>1, <4>2 DEF OrderKept
<4> QED
  BY <3>1, <4>1, <4>2 DEF InOrder
<3>3. CASE at = [stage |-> 14, step |-> 1]
  BY <2>1, <2>3, <3>1, <3>3 DEF OrderKept
<3> QED
  BY <3>2, <3>3 DEF OrderKept
<2>4. CASE at' = Nobody
  BY <2>1, <2>4 DEF OrderKept, Nobody
<2> QED
  BY <2>1, <2>2, <2>3, <2>4
<1>6. CASE Age \/ Cleanup \/ UNCHANGED vars
  BY <1>6 DEF Age, Cleanup, SweepStart, Purge, Judge, Unlink, SweepEnd, vars, OrderKept
<1> QED
  BY <1>1, <1>2, <1>3, <1>4, <1>5, <1>6, NextActions DEF Others

LEMMA ContextKeeps ==
    ASSUME Typed, OrderKept, ContextRestored, [Next]_vars
    PROVE  ContextRestored'
<1> DEFINE returned == UNION {Output(s) : s \in done}
<1>0. /\ at.stage # 0 => returned \subseteq ctx
      /\ ctx \subseteq returned \cup {"ctx_deliverables_list"}
  BY DEF ContextRestored
<1>1. SUFFICES /\ at'.stage # 0 => returned' \subseteq ctx'
               /\ ctx' \subseteq returned' \cup {"ctx_deliverables_list"}
  BY DEF ContextRestored
<1>2. done' = done => returned' = returned
  OBVIOUS
<1>3. CASE Claim
<2>1. ctx' = returned /\ done' = done
  BY <1>3 DEF Claim
<2> HIDE DEF returned
<2> QED
  BY <1>2, <2>1
<1>4. CASE SkipDone
<2>1. ctx' = ctx /\ done' = done /\ at.stage # 0
  BY <1>4 DEF SkipDone, Typed
<2> HIDE DEF returned
<2> QED
  BY <1>0, <1>2, <2>1
<1>5. CASE Leave
<2>1. ctx' = {} /\ at'.stage = 0
  BY <1>5 DEF Leave, Nobody
<2> QED
  BY <2>1
<1>6. CASE Runs
<2>1. at.stage # 0 /\ done' = done
  BY <1>6, Running
<2>2. ctx' = ctx \/ ctx' = ctx \cup {"ctx_deliverables_list"}
<3>1. CASE PutInContext
  BY <3>1, DoingStep DEF PutInContext, StepFits
<3> QED
  BY <1>6, <3>1 DEF Runs, ReadContext, PassCheck, Render, RegisterArtifact, InsertRow,
                    UpdateProject, PassQA, InsertDeliverable
<2> HIDE DEF returned
<2> QED
  BY <1>0, <1>2, <2>1, <2>2
<1>7. CASE FinishStage
<2>1. at.stage # 0 /\ done' = done \cup {at.stage} /\ ctx' = ctx \cup Output(at.stage)
<3>1. at.stage \in 1 .. 20
  BY <1>7, AllStages DEF FinishStage
<3>2. done' = done \cup {at.stage} /\ ctx' = ctx \cup Output(at.stage)
  BY <1>7 DEF FinishStage
<3> QED
  BY <3>1, <3>2
<2>2. returned' = returned \cup Output(at.stage)
  BY <2>1
<2> HIDE DEF returned
<2> QED
  BY <1>0, <2>1, <2>2
<1>8. CASE FailStage
<2>1. done' = done /\ (ctx' = ctx \/ (ctx' = {} /\ at'.stage = 0)) /\ at.stage # 0
<3>1. PICK class \in FailsWith : TRUE
  BY <1>8 DEF FailStage
<3> QED
  BY <1>8, <3>1, FailsInOrder, FailStep DEF Nobody
<2> HIDE DEF returned
<2> QED
  BY <1>0, <1>2, <2>1
<1>9. CASE Crash
<2>1. ctx' = {} /\ at'.stage = 0
  BY <1>9 DEF Crash, Nobody
<2> QED
  BY <2>1
<1>10. CASE Age \/ Cleanup \/ UNCHANGED vars
<2>1. ctx' = ctx /\ done' = done /\ at' = at
  BY <1>10 DEF Age, Cleanup, SweepStart, Purge, Judge, Unlink, SweepEnd, vars
<2> HIDE DEF returned
<2> QED
  BY <1>0, <1>2, <2>1
<1> HIDE DEF returned
<1> QED
  BY <1>3, <1>4, <1>5, <1>6, <1>7, <1>8, <1>9, <1>10, NextActions DEF Others

\* What a rendering changes: one file, behind all that is finished, and behind its inputs.
LEMMA RenderChanges ==
    ASSUME Typed, OrderKept, ContextRestored, Doing("make"), NEW state, disk' = Rendered(state)
    PROVE  \E file \in Files :
             /\ file = Now.file
             /\ \A f \in Files \ {file} : disk'[f] = disk[f]
             /\ disk'[file] = [n |-> disk[file].n + 1, state |-> state,
                               of |-> {<<g, disk[g].n>> : g \in Now.from}, old |-> FALSE]
             /\ \A g \in Now.from : g \in Files /\ PlaceOf(g) < PlaceOf(file)
             /\ PlaceOf(file) = 10 * at.stage + at.step
<1>1. /\ Now.file \in Files /\ Now.from \subseteq Files
      /\ PlaceOf(Now.file) = 10 * at.stage + at.step
      /\ \A g \in Now.from : PlaceOf(g) < PlaceOf(Now.file)
  BY MadeIsFile
<1>2. /\ \A f \in Files \ {Now.file} : disk'[f] = disk[f]
      /\ disk'[Now.file] = [n |-> disk[Now.file].n + 1, state |-> state,
                            of |-> {<<g, disk[g].n>> : g \in Now.from}, old |-> FALSE]
  BY <1>1 DEF Rendered, Typed
<1> QED
  BY <1>1, <1>2

\* What is made and behind the executor has an earlier place than what it makes now.
LEMMA BehindIsEarlier ==
    ASSUME Typed, OrderKept, ContextRestored, Doing("make"),
           NEW s \in DOMAIN Stages, NEW i \in StepsOf(s, "make"), Passed(s, i)
    PROVE  /\ Stages[s].steps[i].file \in Files
           /\ PlaceOf(Stages[s].steps[i].file) < 10 * at.stage + at.step
<1>1. /\ i \in DOMAIN Stages[s].steps /\ Stages[s].steps[i].op = "make"
      /\ Stages[s].steps[i].file \in Files
  BY DEF StepsOf, MadeBy, Files
<1>2. s \in 1 .. 20 /\ i \in 1 .. 9 /\ StepFits(Stages[s].steps[i], s, i)
  BY <1>1, AllFit
<1>3. PlaceOf(Stages[s].steps[i].file) = 10 * s + i
  BY <1>1, <1>2 DEF StepFits
<1>4. at.stage \in 1 .. 20 /\ at.stage \notin done /\ at.step \in 1 .. 9
  BY DoingStep
<1>5. CASE s \in done
<2>1. ~(at.stage <= s)
  BY <1>2, <1>4, <1>5 DEF OrderKept
<2> QED
  BY <1>1, <1>2, <1>3, <1>4, <2>1
<1>6. CASE at.stage = s /\ i < at.step
  BY <1>1, <1>2, <1>3, <1>4, <1>6
<1> QED
  BY <1>5, <1>6 DEF Passed

\* A rendering leaves what is behind the executor in agreement, and what it makes whole.
LEMMA RenderKeeps ==
    ASSUME Typed, OrderKept, ContextRestored, MadeOfEarlier, MadeAgrees,
           Doing("make"), NEW state, disk' = Rendered(state)
    PROVE  /\ MadeOfEarlier'
           /\ \A s \in DOMAIN Stages : \A i \in StepsOf(s, "make") :
                Passed(s, i) => Agrees(Stages[s].steps[i].file)'
           /\ state # "partial" => \A file : file = Now.file => Agrees(file)'
<1>1. PICK file \in Files :
             /\ file = Now.file
             /\ \A f \in Files \ {file} : disk'[f] = disk[f]
             /\ disk'[file] = [n |-> disk[file].n + 1, state |-> state,
                               of |-> {<<g, disk[g].n>> : g \in Now.from}, old |-> FALSE]
             /\ \A g \in Now.from : g \in Files /\ PlaceOf(g) < PlaceOf(file)
             /\ PlaceOf(file) = 10 * at.stage + at.step
  BY RenderChanges
<1>2. \A u \in disk'[file].of : \E g \in Now.from : u = <<g, disk[g].n>>
  BY <1>1
<1>3. \A u \in disk'[file].of :
        u[1] \in Files \ {file} /\ PlaceOf(u[1]) < PlaceOf(file) /\ disk'[u[1]].n = u[2]
<2>1. SUFFICES ASSUME NEW g \in Now.from
               PROVE  g \in Files \ {file} /\ PlaceOf(g) < PlaceOf(file) /\ disk'[g].n = disk[g].n
  BY <1>2
<2>2. g \in Files /\ PlaceOf(g) < PlaceOf(file) /\ PlaceOf(file) \in Int
  BY <1>1, DoingStep
<2>3. g # file
  BY <2>2
<2> QED
  BY <1>1, <2>2, <2>3
<1>4. MadeOfEarlier'
  BY <1>1, <1>3 DEF MadeOfEarlier
<1>5. ASSUME NEW s \in DOMAIN Stages, NEW i \in StepsOf(s, "make"), Passed(s, i)
      PROVE  Agrees(Stages[s].steps[i].file)'
<2>1. PICK f \in Files : f = Stages[s].steps[i].file /\ PlaceOf(f) < PlaceOf(file)
  BY <1>1, <1>5, BehindIsEarlier
<2>2. Agrees(f)
  BY <1>5, <2>1 DEF MadeAgrees
<2>3. PlaceOf(file) \in Int
  BY <1>1, DoingStep
<2>4. f # file
  BY <2>1, <2>3
<2>5. \A u \in disk[f].of : u[1] \in Files /\ u[1] # file
<3>1. SUFFICES ASSUME NEW u \in disk[f].of, u[1] = file PROVE FALSE
  BY <2>1 DEF MadeOfEarlier
<3>2. PlaceOf(file) < PlaceOf(f)
  BY <2>1, <3>1 DEF MadeOfEarlier
<3> QED
  BY <2>1, <3>2, FilePlace
<2>6. disk'[f] = disk[f] /\ \A u \in disk[f].of : disk'[u[1]] = disk[u[1]]
  BY <1>1, <2>4, <2>5
<2>7. Agrees(f)'
  BY <2>2, <2>6 DEF Agrees, There
<2> QED
  BY <2>1, <2>7
<1>6. ASSUME state # "partial" PROVE Agrees(file)'
  BY <1>1, <1>3, <1>6 DEF Agrees, There
<1> QED
  BY <1>1, <1>4, <1>5, <1>6

\* The removal of a file, and the passing of time.
LEMMA RemovalKeeps ==
    ASSUME Typed, MadeOfEarlier,
           \A f \in Files : /\ disk'[f].n = disk[f].n
                            /\ \/ disk'[f].state = disk[f].state /\ disk'[f].of = disk[f].of
                               \/ disk'[f].state = "absent" /\ disk'[f].of = {}
    PROVE  MadeOfEarlier' /\ \A f \in Files : Agrees(f) => Agrees(f)'
<1>1. MadeOfEarlier'
  BY DEF MadeOfEarlier
<1>2. ASSUME NEW f \in Files, Agrees(f) PROVE Agrees(f)'
<2>1. CASE disk'[f].state = "absent"
  BY <2>1 DEF Agrees, There
<2>2. CASE disk'[f].state = disk[f].state /\ disk'[f].of = disk[f].of
<3>1. \A u \in disk[f].of : u[1] \in Files
  BY DEF MadeOfEarlier
<3> QED
  BY <1>2, <2>2, <3>1 DEF Agrees, There
<2> QED
  BY <2>1, <2>2
<1> QED
  BY <1>1, <1>2

\* A rendering breaks off.
Torn == (Crash \/ FailStage) /\ Doing("make") /\ disk' = Rendered("partial")

\* The other actions than renderings leave of the disk what a removal leaves.
LEMMA DiskKeeps ==
    ASSUME Typed, [Next]_vars, ~ Render, ~ Torn
    PROVE  \A f \in Files : /\ disk'[f].n = disk[f].n
                            /\ \/ disk'[f].state = disk[f].state /\ disk'[f].of = disk[f].of
                               \/ disk'[f].state = "absent" /\ disk'[f].of = {}
<1>1. ASSUME NEW f \in Files, disk' = Unlinked(f)
      PROVE  /\ \A g \in Files : disk'[g].n = disk[g].n
             /\ \A g \in Files \ {f} : disk'[g] = disk[g]
             /\ disk'[f].state = "absent" /\ disk'[f].of = {}
  BY <1>1 DEF Unlinked, Typed
<1>2. CASE Runs \/ Claim \/ SkipDone \/ FinishStage \/ Leave
<2>1. disk' = disk
  BY <1>2 DEF Runs, ReadContext, PassCheck, RegisterArtifact, InsertRow, UpdateProject, PassQA,
              InsertDeliverable, PutInContext, Claim, SkipDone, FinishStage, Leave
<2> QED
  BY <2>1
<1>3. CASE Crash \/ FailStage
<2>1. disk' = disk
  BY <1>3, FailLeaves DEF Crash, Torn
<2> QED
  BY <2>1
<1>4. CASE Age
  BY <1>4 DEF Age, Typed
<1>5. CASE Purge
<2>1. CASE sweep.doomed = {}
  BY <1>5, <2>1 DEF Purge
<2>2. CASE sweep.doomed # {}
<3>1. PICK f \in sweep.doomed : disk' = Unlinked(f)
  BY <1>5, <2>2 DEF Purge
<3>2. f \in Files
  BY DEF Typed
<3> QED
  BY <1>1, <3>1, <3>2
<2> QED
  BY <2>1, <2>2
<1>6. CASE Unlink
<2>1. PICK f \in Files : f = sweep.judged
  BY <1>6 DEF Unlink, Typed
<2> QED
  BY <1>1, <1>6, <2>1 DEF Unlink
<1>7. CASE SweepStart \/ Judge \/ SweepEnd \/ UNCHANGED vars
  BY <1>7 DEF SweepStart, Judge, SweepEnd, vars
<1> QED
  BY <1>2, <1>3, <1>4, <1>5, <1>6, <1>7, NextActions DEF Others, Cleanup

LEMMA AgreementKeeps ==
    ASSUME Typed, OrderKept, ContextRestored, MadeOfEarlier, MadeAgrees, [Next]_vars
    PROVE  MadeOfEarlier' /\ MadeAgrees'
<1>1. ASSUME NEW s \in DOMAIN Stages, NEW i \in StepsOf(s, "make")
      PROVE  /\ i \in DOMAIN Stages[s].steps /\ Stages[s].steps[i].op = "make"
             /\ Stages[s].steps[i].file \in Files
  BY DEF StepsOf, MadeBy, Files
<1>2. CASE Render
<2>1. Doing("make") /\ disk' = Rendered("whole")
  BY <1>2 DEF Render
<2>2. /\ MadeOfEarlier'
      /\ \A s \in DOMAIN Stages : \A i \in StepsOf(s, "make") :
            Passed(s, i) => Agrees(Stages[s].steps[i].file)'
      /\ \A file : file = Now.file => Agrees(file)'
  BY <2>1, RenderKeeps
<2>3. ASSUME NEW s \in DOMAIN Stages, NEW i \in StepsOf(s, "make"), Passed(s, i)'
      PROVE  Passed(s, i) \/ Stages[s].steps[i].file = Now.file
  BY <1>1, <2>1, <2>3, OnlyRunsPass, DoingStep
<2>4. MadeAgrees'
  BY <2>2, <2>3 DEF MadeAgrees
<2> QED
  BY <2>2, <2>4
<1>3. CASE Torn
<2>1. Doing("make") /\ disk' = Rendered("partial")
  BY <1>3 DEF Torn
<2>2. /\ MadeOfEarlier'
      /\ \A s \in DOMAIN Stages : \A i \in StepsOf(s, "make") :
            Passed(s, i) => Agrees(Stages[s].steps[i].file)'
  BY <2>1, RenderKeeps
<2>3. at'.step = 1 /\ done' = done
  BY <1>3, FailStep DEF Torn, Crash, Nobody, Typed
<2>4. ASSUME NEW s \in DOMAIN Stages, NEW i \in StepsOf(s, "make"), Passed(s, i)'
      PROVE  Passed(s, i)
  BY <1>1, <2>3, <2>4, AllFit DEF Passed
<2>5. MadeAgrees'
  BY <2>2, <2>4 DEF MadeAgrees
<2> QED
  BY <2>2, <2>5
<1>4. CASE ~ Render /\ ~ Torn
<2>1. MadeOfEarlier' /\ \A f \in Files : Agrees(f) => Agrees(f)'
  BY <1>4, DiskKeeps, RemovalKeeps
<2>2. ASSUME NEW s \in DOMAIN Stages, NEW i \in StepsOf(s, "make"), Passed(s, i)'
      PROVE  Passed(s, i)
<3>1. SUFFICES ASSUME Runs, at.stage = s, at.step = i PROVE FALSE
  BY <1>1, <2>2, OnlyRunsPass
<3>2. PICK op : Doing(op) /\ op # "make"
  BY <1>4, <3>1 DEF Runs, ReadContext, PassCheck, RegisterArtifact, InsertRow, UpdateProject,
                    PassQA, InsertDeliverable, PutInContext
<3> QED
  BY <1>1, <3>1, <3>2, DoingStep
<2>3. MadeAgrees'
  BY <1>1, <2>1, <2>2 DEF MadeAgrees
<2> QED
  BY <2>1, <2>3
<1> QED
  BY <1>2, <1>3, <1>4

LEMMA ReportStep ==
    ASSUME Typed, NEW l \in Layers, at.stage = QAStage(l), at.step = QAStep(l),
           at.stage \notin done
    PROVE  Now.op = "report" /\ Now.layer = l
<1>1. /\ Stages[QAStage(l)].steps[QAStep(l)].op = "report"
      /\ Stages[QAStage(l)].steps[QAStep(l)].layer = l
  BY AllStages, StepsOfTechnicalQA, StepsOfCreativeQA, StepsOfMultimodalQA
     DEF Layers, QAStage, QAStep, Report
<1>2. QAStage(l) \in DOMAIN Stages
  BY AllStages DEF Layers, QAStage
<1> QED
  BY <1>1, <1>2 DEF Now, Steps

LEMMA DeliverSteps ==
    ASSUME at.stage = 19, at.step \in {6, 7}, at.stage \notin done
    PROVE  Now.op = "deliver"
<1>1. Steps = Delivery.steps
  BY AllStages DEF Steps
<1> QED
  BY <1>1, StepsOfDelivery DEF Now, Deliver

\* The master is made by the second step of the fifteenth stage.
LEMMA MasterPlace ==
    ASSUME Typed, OrderKept, ContextRestored, Doing("make"), Now.file = "master"
    PROVE  at.stage = 15 /\ at.step = 2 /\ 15 \notin done
<1>1. /\ 10 * at.stage + at.step = 152 /\ at.stage \in 1 .. 20 /\ at.step \in 1 .. 9
      /\ at.stage \notin done
  BY MadeIsFile, Places, DoingStep
<1> QED
  BY <1>1

\* Once a stage behind it has begun, the master stays the same.
LEMMA MasterStays ==
    ASSUME Typed, OrderKept, ContextRestored, [Next]_vars,
           disk'["master"].n # disk["master"].n
    PROVE  15 \notin done /\ at.stage = 15 /\ \A s \in 16 .. 20 : s \notin done
<1>1. Render \/ Torn
  BY DiskKeeps, EveryFile
<1>2. PICK state : disk' = Rendered(state) /\ Doing("make")
  BY <1>1 DEF Render, Torn
<1>3. Now.file = "master"
  BY <1>2, RenderChanges, EveryFile
<1>4. at.stage = 15 /\ 15 \notin done
  BY <1>2, <1>3, MasterPlace
<1> QED
  BY <1>4 DEF OrderKept

LEMMA ReportPlaces ==
    ASSUME NEW l \in Layers
    PROVE  /\ QAStage(l) \in 16 .. 18 /\ QAStage(l) \in DOMAIN Stages
           /\ QAStep(l) \in DOMAIN Stages[QAStage(l)].steps
           /\ \A k \in Layers : QAStage(k) = QAStage(l) => k = l
  BY AllStages, AllSteps DEF Layers, QAStage, QAStep

LEMMA DeliverPlaces ==
    19 \in DOMAIN Stages /\ 6 \in DOMAIN Stages[19].steps /\ 7 \in DOMAIN Stages[19].steps
  BY AllStages, AllSteps

LEMMA CheckedKeeps ==
    ASSUME Typed, OrderKept, ContextRestored, MasterChecked, [Next]_vars
    PROVE  MasterChecked'
<1> SUFFICES ASSUME NEW l \in Layers, NEW s, NEW i, s = QAStage(l), i = QAStep(l), Passed(s, i)'
             PROVE  passed'[l] = disk'["master"].n
  BY ReportPlaces DEF MasterChecked
<1>1. s \in 16 .. 18 /\ s \in DOMAIN Stages /\ i \in DOMAIN Stages[s].steps
  BY ReportPlaces
<1>2. CASE Passed(s, i)
<2>1. passed[l] = disk["master"].n
  BY <1>2 DEF MasterChecked
<2>2. disk'["master"].n = disk["master"].n
<3>1. SUFFICES ASSUME disk'["master"].n # disk["master"].n PROVE FALSE
  OBVIOUS
<3> QED
  BY <1>1, <1>2, <3>1, MasterStays DEF Passed
<2>3. passed'[l] = passed[l]
<3>1. CASE PassQA
<4>1. /\ Now.layer \in Layers /\ at.stage = QAStage(Now.layer)
      /\ at.step = QAStep(Now.layer) /\ at.stage \notin done /\ at.step \in 1 .. 9
  BY <3>1, DoingStep DEF PassQA, StepFits
<4>2. Now.layer # l
  BY <1>2, <4>1 DEF Passed
<4> QED
  BY <3>1, <4>1, <4>2 DEF PassQA, Typed
<3>2. CASE ~ PassQA
  BY <3>2 DEF Next, Step, Claim, SkipDone, ReadContext, PassCheck, Render, RegisterArtifact,
              InsertRow, UpdateProject, InsertDeliverable, PutInContext, FinishStage, Leave,
              FailStage, LeftByFailure, Crash, Age, Cleanup, SweepStart, Purge, Judge, Unlink,
              SweepEnd, records, vars
<3> QED
  BY <3>1, <3>2
<2> QED
  BY <2>1, <2>2, <2>3
<1>3. CASE Runs /\ at.stage = s /\ at.step = i
<2>1. Now.op = "report" /\ Now.layer = l
  BY <1>3, ReportStep, Running
<2>2. PassQA
<3>1. \A op : Doing(op) => op = "report"
  BY <2>1, DoingStep
<3> QED
  BY <1>3, <3>1 DEF Runs, ReadContext, PassCheck, Render, RegisterArtifact, InsertRow,
                    UpdateProject, InsertDeliverable, PutInContext
<2> QED
  BY <2>1, <2>2 DEF PassQA, Typed
<1> QED
  BY <1>1, <1>2, <1>3, OnlyRunsPass

LEMMA DeliveredKeeps ==
    ASSUME Typed, OrderKept, ContextRestored, MasterDelivered, [Next]_vars
    PROVE  MasterDelivered'
<1>1. done \subseteq done'
  BY FailStep DEF Next, Step, Claim, SkipDone, ReadContext, PassCheck, Render, RegisterArtifact,
         InsertRow, UpdateProject, PassQA, InsertDeliverable, PutInContext, FinishStage, Leave,
         Crash, Age, Cleanup, SweepStart, Purge, Judge, Unlink, SweepEnd, records, vars
<1>2. CASE InsertDeliverable
<2>1. /\ at.stage = 19 /\ at.stage \notin done /\ 1 .. 18 \subseteq done
      /\ <<Now.file, at.step>> \in {<<"master", 6>>, <<"square", 7>>}
<3>1. Runs
  BY <1>2 DEF Runs
<3>2. at.stage = 19 /\ <<Now.file, at.step>> \in {<<"master", 6>>, <<"square", 7>>}
  BY <1>2, DoingStep DEF InsertDeliverable, StepFits
<3> QED
  BY <3>1, <3>2, Running
<2>2. /\ disk' = disk /\ done' = done /\ status' = status
      /\ deliverables' = deliverables \cup {[file |-> Now.file, of |-> disk["master"].n]}
      /\ at' = [at EXCEPT !.step = @ + 1]
  BY <1>2 DEF InsertDeliverable, Proceed
<2>3. \A i \in {6, 7} : Passed(19, i)' => Passed(19, i) \/ at.step = i
  BY <2>1, <2>2 DEF Passed, Typed
<2>4. \A d \in deliverables' : d.of = disk["master"].n
  BY <2>2 DEF MasterDelivered
<2> QED
  BY <2>1, <2>2, <2>3, <2>4 DEF MasterDelivered
<1>3. CASE UpdateProject
<2>1. /\ <<Now.value, at.stage>> \in {<<"in_production", 1>>, <<"delivered", 20>>}
      /\ at.stage \notin done /\ 1 .. (at.stage - 1) \subseteq done
<3>1. Runs
  BY <1>3 DEF Runs
<3>2. <<Now.value, at.stage>> \in {<<"in_production", 1>>, <<"delivered", 20>>}
  BY <1>3, DoingStep DEF UpdateProject, StepFits
<3> QED
  BY <3>1, <3>2, Running
<2>2. /\ disk' = disk /\ done' = done /\ deliverables' = deliverables /\ status' = Now.value
      /\ at' = [at EXCEPT !.step = @ + 1]
  BY <1>3 DEF UpdateProject, Proceed
<2>3. \A i \in {6, 7} : Passed(19, i)' => Passed(19, i)
  BY <2>1, <2>2 DEF Passed, Typed
<2>4. status' = "delivered" => 19 \in done
  BY <2>1, <2>2
<2> QED
  BY <2>2, <2>3, <2>4 DEF MasterDelivered
<1>4. CASE ~ InsertDeliverable /\ ~ UpdateProject
<2>1. deliverables' = deliverables /\ status' = status
  BY <1>4 DEF Next, Step, Claim, SkipDone, ReadContext, PassCheck, Render, RegisterArtifact,
              InsertRow, PassQA, PutInContext, FinishStage, Leave, FailStage, Crash, Age,
              Cleanup, SweepStart, Purge, Judge, Unlink, SweepEnd, records, vars
<2>2. \A i \in {6, 7} : Passed(19, i)' => Passed(19, i)
<3>1. SUFFICES ASSUME NEW i \in {6, 7}, Runs, at.stage = 19, at.step = i PROVE FALSE
  BY OnlyRunsPass, DeliverPlaces
<3>2. Now.op = "deliver"
  BY <3>1, Running, DeliverSteps
<3>3. \A op : Doing(op) => op = "deliver"
  BY <3>2, DoingStep
<3> QED
  BY <1>4, <3>1, <3>3 DEF Runs, ReadContext, PassCheck, Render, RegisterArtifact, InsertRow,
                          PassQA, PutInContext
<2>3. CASE disk'["master"].n = disk["master"].n
  BY <1>1, <2>1, <2>2, <2>3 DEF MasterDelivered
<2>4. CASE disk'["master"].n # disk["master"].n
<3>1. 15 \notin done /\ at.stage = 15 /\ 19 \notin done
  BY <2>4, MasterStays
<3>2. deliverables = {} /\ status # "delivered"
<4>1. 15 \in 1 .. 18
  OBVIOUS
<4> QED
  BY <3>1, <4>1 DEF MasterDelivered
<3>3. ~ Passed(19, 6) /\ ~ Passed(19, 7)
  BY <3>1 DEF Passed
<3> QED
  BY <2>1, <2>2, <3>2, <3>3 DEF MasterDelivered
<2> QED
  BY <2>3, <2>4
<1> QED
  BY <1>2, <1>3, <1>4

LEMMA SweepKeeps ==
    ASSUME Typed, SweepKnows, [Next]_vars
    PROVE  SweepKnows'
<1>1. CASE RegisterArtifact
<2>1. Now.file \in Files /\ KindOf(Now.file) = Now.kind
  BY <1>1, DoingStep DEF RegisterArtifact, StepFits
<2>2. \A a \in artifacts' : KindOf(a.file) = a.kind
  BY <1>1, <2>1 DEF RegisterArtifact, SweepKnows
<2> QED
  BY <1>1, <2>2 DEF RegisterArtifact, SweepKnows
<1>2. CASE Age
<2>1. artifacts' = {[a EXCEPT !.old = TRUE] : a \in artifacts} /\ sweep' = sweep
  BY <1>2 DEF Age
<2>2. \A a \in artifacts : /\ [a EXCEPT !.old = TRUE].file = a.file
                           /\ [a EXCEPT !.old = TRUE].kind = a.kind
  BY DEF Typed
<2>3. ASSUME NEW b \in artifacts' PROVE KindOf(b.file) = b.kind
<3>1. PICK a \in artifacts : b = [a EXCEPT !.old = TRUE]
  BY <2>1
<3>2. b.file = a.file /\ b.kind = a.kind
  BY <2>2, <3>1
<3> QED
  BY <3>2 DEF SweepKnows
<2> QED
  BY <2>1, <2>3 DEF SweepKnows
<1>3. CASE SweepStart
<2>1. artifacts' = artifacts /\ sweep'.doomed = Doomed /\ sweep'.judged = "none"
  BY <1>3 DEF SweepStart, Resting, records
<2>2. \A f \in Doomed : KindOf(f) \in TEMPORARY_KINDS
  BY DEF Doomed, SweepKnows
<2>3. \A f \in sweep'.doomed : KindOf(f) \in TEMPORARY_KINDS
  BY <2>1, <2>2
<2>4. \A a \in artifacts' : KindOf(a.file) = a.kind
  BY <2>1 DEF SweepKnows
<2> QED
  BY <2>1, <2>3, <2>4 DEF SweepKnows
<1>4. CASE Purge
<2>1. /\ artifacts' = artifacts /\ sweep'.doomed \subseteq sweep.doomed
      /\ sweep'.judged = sweep.judged /\ sweep'.referenced = sweep.referenced
<3>1. CASE sweep.doomed = {}
  BY <1>4, <3>1 DEF Purge, records, Typed
<3>2. CASE sweep.doomed # {}
<4>1. PICK f : sweep' = [sweep EXCEPT !.doomed = @ \ {f}]
  BY <1>4, <3>2 DEF Purge
<4> QED
  BY <1>4, <4>1 DEF Purge, records, Typed
<3> QED
  BY <3>1, <3>2
<2> QED
  BY <2>1 DEF SweepKnows
<1>5. CASE Judge
<2>1. PICK f \in Orphans : sweep' = [sweep EXCEPT !.left = @ \ {f}, !.judged = f]
  BY <1>5 DEF Judge
<2>2. /\ artifacts' = artifacts /\ sweep'.doomed = sweep.doomed
      /\ sweep'.judged = f /\ sweep'.referenced = sweep.referenced
  BY <1>5, <2>1 DEF Judge, records, Typed
<2>3. f \notin sweep.referenced
  BY DEF Orphans
<2> QED
  BY <2>2, <2>3 DEF SweepKnows
<1>6. CASE Unlink \/ SweepEnd
<2>1. /\ artifacts' = artifacts /\ sweep'.doomed \subseteq sweep.doomed /\ sweep'.judged = "none"
  BY <1>6 DEF Unlink, SweepEnd, Resting, records, Typed
<2> QED
  BY <2>1 DEF SweepKnows
<1>7. CASE ~ RegisterArtifact /\ ~ Age /\ ~ Cleanup
<2>1. artifacts' = artifacts /\ sweep' = sweep
  BY <1>7 DEF Next, Step, Claim, SkipDone, ReadContext, PassCheck, Render, InsertRow,
              UpdateProject, PassQA, InsertDeliverable, PutInContext, FinishStage, Leave,
              FailStage, Crash, records, vars
<2> QED
  BY <2>1 DEF SweepKnows
<1> QED
  BY <1>1, <1>2, <1>3, <1>4, <1>5, <1>6, <1>7 DEF Cleanup

LEMMA InitKeeps == Init => PrInv
<1> SUFFICES ASSUME Init PROVE PrInv
  OBVIOUS
<1>1. Typed
<2>1. disk \in [Files -> [n : Nat, state : {"absent", "partial", "whole"},
                          of : SUBSET (Files \X Nat), old : BOOLEAN]]
  BY DEF Init
<2>2. tries \in [1 .. 20 -> 0 .. 2]
  BY AllStages DEF Init
<2> QED
  BY <2>1, <2>2 DEF Init, Typed, Nobody, Resting
<1>2. OrderKept /\ ContextRestored
  BY DEF Init, OrderKept, ContextRestored, Nobody
<1>3. MadeOfEarlier
  BY DEF Init, MadeOfEarlier
<1>4. \A s \in 1 .. 20 : \A i : ~ Passed(s, i)
  BY DEF Init, Passed, Nobody
<1>5. MadeAgrees /\ MasterChecked /\ MasterDelivered
<2>1. MadeAgrees
  BY <1>4, AllStages DEF MadeAgrees
<2>2. MasterChecked
  BY <1>4, ReportPlaces DEF MasterChecked
<2>3. MasterDelivered
  BY <1>4 DEF MasterDelivered, Init
<2> QED
  BY <2>1, <2>2, <2>3
<1>6. SweepKnows
  BY DEF Init, SweepKnows, Resting
<1> QED
  BY <1>1, <1>2, <1>3, <1>5, <1>6 DEF PrInv

LEMMA StepKeeps == PrInv /\ [Next]_vars => PrInv'
<1> SUFFICES ASSUME PrInv, [Next]_vars PROVE PrInv'
  OBVIOUS
<1> QED
  BY TypedKeeps, OrderKeeps, ContextKeeps, AgreementKeeps, CheckedKeeps, DeliveredKeeps,
     SweepKeeps DEF PrInv

\* The strengthening of the safety properties below is an invariant: stages finish in
\* their order, the context is what they returned, and the files agree (agency/agents/stages.py).
THEOREM InvariantHolds == Spec => []PrInv
  BY InitKeeps, StepKeeps, PTL DEF Spec

-----------------------------------------------------------------------------
(* The properties                                                          *)

\* The types of the state of a production and of the cleanup (agency/agents/stages.py,
\* agency/lifecycle.py).
THEOREM TypesHold == Spec => []TypeOK
<1>1. PrInv => TypeOK
<2> SUFFICES ASSUME PrInv PROVE TypeOK
  OBVIOUS
<2>1. at \in [stage : 0 .. Len(Stages) + 1, step : Nat \ {0}]
  BY AllStages DEF PrInv, Typed
<2>2. ctx \subseteq (UNION {Output(s) : s \in DOMAIN Stages}) \cup {"ctx_deliverables_list"}
<3> DEFINE returned == UNION {Output(s) : s \in done}
           all == UNION {Output(s) : s \in DOMAIN Stages}
<3>1. ctx \subseteq returned \cup {"ctx_deliverables_list"}
  BY DEF PrInv, ContextRestored
<3>2. returned \subseteq all
  BY AllStages DEF PrInv, Typed
<3>3. ctx \subseteq all \cup {"ctx_deliverables_list"}
<4> HIDE DEF returned, all
<4> QED
  BY <3>1, <3>2
<3> QED
  BY <3>3
<2>3. done \subseteq DOMAIN Stages /\ owed \in 0 .. Len(Stages)
  BY AllStages DEF PrInv, Typed
<2>4. \A f \in Files : disk[f].n \in Nat /\ disk[f].state \in {"absent", "partial", "whole"}
  BY DEF PrInv, Typed
<2>5. tries \in [DOMAIN Stages -> 0 .. max_task_retries - 1] /\ repairs \in 0 .. repair_budget
  BY AllStages DEF PrInv, Typed, max_task_retries, repair_budget
<2>6. /\ status \in {"draft", "in_production", "delivered"}
      /\ rows \in [Tables -> Nat] /\ passed \in [Layers -> Nat]
      /\ sweep.doomed \subseteq Files /\ sweep.judged \in Files \cup {"none"}
  BY DEF PrInv, Typed
<2> QED
  BY <2>1, <2>2, <2>3, <2>4, <2>5, <2>6 DEF TypeOK
<1> QED
  BY <1>1, InvariantHolds, PTL

\* An executor that comes to a stage with all earlier ones finished finds every key the
\* stage subscripts, also after a restart (the outputs of the handlers).
THEOREM InputsAreRestored == Spec => []InputsRestored
<1>1. PrInv => InputsRestored
<2> SUFFICES ASSUME PrInv, at.stage \in DOMAIN Stages, 1 .. (at.stage - 1) \subseteq done,
                    NEW i \in StepsOf(at.stage, "need"), NEW need,
                    need = Stages[at.stage].steps[i]
             PROVE  Satisfied(need)
  BY DEF InputsRestored
<2>1. i \in DOMAIN Stages[at.stage].steps /\ need.op = "need"
  BY DEF StepsOf
<2>2. at.stage \in 1 .. 20 /\ StepFits(need, at.stage, i)
  BY <2>1, AllFit
<2>3. ASSUME NEW key, Before(key, at.stage) PROVE key \in ctx
<3>1. PICK t \in 1 .. (at.stage - 1) : key \in Output(t)
  BY <2>3 DEF Before
<3> QED
  BY <2>2, <3>1 DEF PrInv, ContextRestored
<2> QED
  BY <2>1, <2>2, <2>3 DEF StepFits, Satisfied
<1> QED
  BY <1>1, InvariantHolds, PTL

\* What the finished stages left on disk is whole, and made of what is there, after any
\* retries, repairs, crashes and cleanups (the files the handlers write).
THEOREM FilesStayInAgreement == Spec => []FilesAgree
<1>1. PrInv => FilesAgree
<2> SUFFICES ASSUME PrInv, NEW s \in done, NEW i \in StepsOf(s, "make")
             PROVE  Agrees(Stages[s].steps[i].file)
  BY DEF FilesAgree, MadeBy, Agrees
<2>1. s \in DOMAIN Stages /\ Passed(s, i)
  BY AllStages DEF PrInv, Typed, Passed
<2> QED
  BY <2>1 DEF PrInv, MadeAgrees
<1> QED
  BY <1>1, InvariantHolds, PTL

\* What is delivered is the rendering that all three QA layers have passed
\* (stage_technical_qa, stage_creative_qa, stage_multimodal_qa, stage_delivery).
THEOREM DeliveredIsChecked == Spec => []DeliveredWasChecked
<1>1. PrInv => DeliveredWasChecked
<2> SUFFICES ASSUME PrInv, NEW d \in deliverables, NEW l \in Layers PROVE passed[l] = d.of
  BY DEF DeliveredWasChecked
<2>1. d.of = disk["master"].n /\ 1 .. 18 \subseteq done
  BY DEF PrInv, MasterDelivered
<2>2. Passed(QAStage(l), QAStep(l))
  BY <2>1, ReportPlaces DEF Passed
<2> QED
  BY <2>1, <2>2 DEF PrInv, MasterChecked
<1> QED
  BY <1>1, InvariantHolds, PTL

\* A project is delivered only with both variants of one rendering (stage_finalize).
THEOREM DeliveredHasBoth == Spec => []DeliveredIsComplete
<1>1. PrInv => DeliveredIsComplete
<2> SUFFICES ASSUME PrInv, status = "delivered", NEW f \in {"master", "square"}
             PROVE  [file |-> f, of |-> disk["master"].n] \in deliverables
  BY DEF DeliveredIsComplete
<2>1. Passed(19, 6) /\ Passed(19, 7)
  BY DEF PrInv, MasterDelivered, Passed
<2> QED
  BY <2>1 DEF PrInv, MasterDelivered
<1> QED
  BY <1>1, InvariantHolds, PTL

\* The cleanup keeps the file of every master, thumbnail and caption row it has read,
\* whatever is rendered while it runs (run_cleanup).
THEOREM RetainedStay == Spec => RetainedKept
<1> DEFINE Kept ==
        \A a \in artifacts : a.kind \in RETAIN_KINDS /\ a.file \in sweep.referenced
            /\ disk[a.file].state # "absent" => disk'[a.file].state # "absent"
<1>1. PrInv /\ [Next]_vars => [Kept]_vars
<2> SUFFICES ASSUME PrInv, [Next]_vars, NEW a \in artifacts, a.kind \in RETAIN_KINDS,
                    a.file \in sweep.referenced, disk[a.file].state # "absent"
             PROVE  disk'[a.file].state # "absent"
  OBVIOUS
<2> DEFINE file == a.file
<2>1. file \in Files /\ KindOf(file) \notin TEMPORARY_KINDS
  BY DEF PrInv, Typed, SweepKnows, RETAIN_KINDS, TEMPORARY_KINDS
<2>2. ASSUME NEW f \in Files, f # file, disk' = Unlinked(f)
      PROVE  disk'[file].state # "absent"
  BY <2>1, <2>2 DEF Unlinked, PrInv, Typed
<2>3. ASSUME NEW state \in {"whole", "partial"}, disk' = Rendered(state)
      PROVE  disk'[file].state # "absent"
  BY <2>1, <2>3 DEF Rendered, PrInv, Typed
<2>4. CASE Render
  BY <2>3, <2>4 DEF Render
<2>5. CASE Torn
  BY <2>3, <2>5 DEF Torn
<2>6. CASE Age
  BY <2>1, <2>6 DEF Age, PrInv, Typed
<2>7. CASE Purge
<3>1. CASE sweep.doomed = {}
  BY <2>7, <3>1 DEF Purge
<3>2. CASE sweep.doomed # {}
<4>1. PICK f \in sweep.doomed : disk' = Unlinked(f)
  BY <2>7, <3>2 DEF Purge
<4>2. f \in Files /\ f # file
  BY <2>1 DEF PrInv, Typed, SweepKnows
<4> QED
  BY <2>2, <4>1, <4>2
<3> QED
  BY <3>1, <3>2
<2>8. CASE Unlink
<3>1. PICK f \in Files : f = sweep.judged /\ f \notin sweep.referenced
  BY <2>8 DEF Unlink, PrInv, Typed, SweepKnows
<3> QED
  BY <2>2, <2>8, <3>1 DEF Unlink
<2>9. CASE ~ Render /\ ~ Torn /\ ~ Age /\ ~ Purge /\ ~ Unlink
<3>1. Typed
  BY DEF PrInv
<3>2. CASE Crash \/ FailStage
<4>1. disk' = disk
  BY <2>9, <3>1, <3>2, FailLeaves DEF Crash, Torn
<4> QED
  BY <4>1
<3>3. CASE ~ Crash /\ ~ FailStage
<4>1. disk' = disk
  BY <2>9, <3>3 DEF Next, Step, Claim, SkipDone, ReadContext, PassCheck, RegisterArtifact, InsertRow,
              UpdateProject, PassQA, InsertDeliverable, PutInContext, FinishStage, Leave,
              Cleanup, SweepStart, Judge, SweepEnd, vars
<4> QED
  BY <4>1
<3> QED
  BY <3>2, <3>3
<2> QED
  BY <2>4, <2>5, <2>6, <2>7, <2>8, <2>9
<1>2. Spec => [][Kept]_vars
  BY <1>1, InvariantHolds, PTL DEF Spec
<1> QED
  BY <1>2 DEF RetainedKept

=============================================================================
