----------------------------- MODULE MCPipeline -----------------------------
(***************************************************************************)
(* Instances of Pipeline for TLC.                                          *)
(*                                                                         *)
(* Small: seven stages that keep the roles the engine tells apart.         *)
(*   0 asset_acquisition   1 audio_mix   2 av_mux   3 burn_captions        *)
(*   4 technical_qa (nothing reads its output)   5 delivery   6 finalize   *)
(*                                                                         *)
(* Production: the twenty stages with the inputs their handlers subscript  *)
(* (agency/agents/stages.py); a rendering, the muxing, the technical and   *)
(* the last QA stage may fail, which covers every repair strategy.         *)
(***************************************************************************)
EXTENDS Pipeline, TLC

SmallNeeds ==
    (0 :> {}) @@ (1 :> {0}) @@ (2 :> {1}) @@ (3 :> {2}) @@ (4 :> {3})
    @@ (5 :> {3}) @@ (6 :> {})

SmallRaises ==
    [s \in 0 .. 6 |->
        CASE s = 1 -> {"ffmpeg_error"}
          [] s = 2 -> {"qa_sync"}
          [] s = 4 -> {"qa_loudness", "qa_duration", "corrupt_media"}
          [] OTHER -> {}]

\* Few failures, so that many approvals and claims fit.
GateRaises == [s \in 0 .. 6 |-> IF s = 0 THEN {"crash"} ELSE {}]

ProductionNeeds ==
    (0 :> {}) @@ (1 :> {0}) @@ (2 :> {0}) @@ (3 :> {0}) @@ (4 :> {0, 3})
    @@ (5 :> {0, 4}) @@ (6 :> {0, 4}) @@ (7 :> {6}) @@ (8 :> {0, 4, 5, 6})
    @@ (9 :> {0, 4}) @@ (10 :> {8}) @@ (11 :> {0, 6}) @@ (12 :> {10, 11})
    @@ (13 :> {0, 6, 12}) @@ (14 :> {13}) @@ (15 :> {0, 14})
    @@ (16 :> {0, 3, 6, 14}) @@ (17 :> {0, 3, 4, 8, 14}) @@ (18 :> {0, 14})
    @@ (19 :> {})

ProductionRaises ==
    [s \in 0 .. 19 |->
        CASE s = 10 -> {"ffmpeg_error"}
          [] s = 12 -> {"qa_sync"}
          [] s = 15 -> {"qa_loudness", "qa_duration", "corrupt_media", "qa_other"}
          [] s = 17 -> {"qa_other"}
          [] OTHER  -> {}]
=============================================================================
