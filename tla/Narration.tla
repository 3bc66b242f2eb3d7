------------------------------ MODULE Narration ------------------------------
(***************************************************************************)
(* The timing of a production: from the words of a script to the scenes,   *)
(* the spoken narration, its cleanup, the clips and the captions           *)
(* (agency/agents/stages.py, capabilities/tts.py, editing.py, captions.py).*)
(*                                                                         *)
(* Times are in milliseconds, the resolution the code rounds to; the       *)
(* pictures come in whole frames.  A word is its number of characters and  *)
(* the mark it ends with: no more of it enters any of the times.           *)
(***************************************************************************)
EXTENDS Integers, Sequences

CONSTANTS
    Briefs,         \* [duration (in seconds), fps, title, audience, cta, points], a text being
                    \* a sequence of words, points a sequence of texts; cta with its full stop
    Answers,        \* what the language model may answer: [hook, beats, cta]
    Paces           \* milliseconds the neural voice may take for a word

\* "comma" stands for the marks of a short pause, "stop" and "question" are those of a long
\* one, of which a cut takes only the stop away.
Marks   == {"none", "comma", "stop", "question"}
Written == [size : Nat \ {0}, mark : Marks]
Texts   == Seq(Written)
Seconds == 5 .. 3600

ASSUME NarrationAssumption ==
    /\ Paces \subseteq Nat
    /\ Briefs \subseteq [duration : Seconds, fps : Nat \ {0}, title : Texts, audience : Texts,
                         cta : Texts, points : Seq(Texts)]
    /\ Answers \subseteq [hook : Texts, beats : Seq(Texts), cta : Texts]

VARIABLES
    phase,      \* the stage to run next
    brief,      \* ctx_spec and ctx_research
    script,     \* ctx_script: [by, hook, beats, cta]; before that a placeholder
    durations,  \* duration_s of the scenes
    provider,   \* the voice, from the first scene that needs the fallback on the other one
    spoken,     \* number of scenes spoken
    cursor,     \* where the next scene starts
    words,      \* ctx_narration.words, then ctx_cleanup.words: [size, start, end]
    audio,      \* duration of the narration
    clips       \* durations asked for the scenes' clips

timing == <<phase, brief, script, durations, provider, spoken, cursor, words, audio, clips>>

\* The sums of the first n numbers of a sequence, for each n.
Sums(s) ==
    LET sum[n \in 0 .. Len(s)] == IF n = 0 THEN 0 ELSE sum[n - 1] + s[n] IN sum

Total(s) == Sums(s)[Len(s)]
Lengths(texts) == [i \in DOMAIN texts |-> Len(texts[i])]
AtLeast(a, b)  == IF a > b THEN a ELSE b
AtMost(a, b)   == IF a < b THEN a ELSE b
Sections(s)    == <<s.hook>> \o s.beats \o <<s.cta>>

TimingInit ==
    /\ phase = "script_writing" /\ brief \in Briefs
    /\ script = [by |-> "nobody", hook |-> <<>>, beats |-> <<>>, cta |-> <<>>]
    /\ durations = <<>> /\ provider = "edge"
    /\ spoken = 0 /\ cursor = 0 /\ words = <<>> /\ audio = 0 /\ clips = <<>>

-----------------------------------------------------------------------------
\* Script and storyboard.

Plain(size) == [size |-> size, mark |-> "none"]

\* A text with a mark behind it, a word of its own if there is no other.
Closed(text, mark) ==
    IF text = <<>> THEN <<[size |-> 1, mark |-> mark]>>
    ELSE [text EXCEPT ![Len(text)] = [size |-> @.size + 1, mark |-> mark]]

\* _compose_script_local: "Meet <title>." or "If you work with <audience>, this changes
\* everything: <title>.", the points, "Ready? <cta>.".  Of more than two points, a short
\* form takes the first and one of the others.
ComposeScriptLocal(b) ==
    LET short    == b.duration < 10
        n        == Len(b.points)
        Opening  == <<Plain(2), Plain(3), Plain(4), Plain(4)>> \o Closed(b.audience, "comma")
                        \o <<Plain(4), Plain(7), [size |-> 11, mark |-> "comma"]>>
        hook     == (IF short THEN <<Plain(4)>> ELSE Opening) \o Closed(b.title, "stop")
        selected == IF short /\ n > 2 THEN {<<b.points[1], b.points[i]>> : i \in 3 .. n}
                    ELSE {SubSeq(b.points, 1, AtMost(n, IF short THEN 2 ELSE 3))}
        filler   == <<Plain(3), Plain(3)>> \o b.title \o <<Plain(8), [size |-> 8, mark |-> "stop"]>>
        Beats(points) == [i \in DOMAIN points |-> Closed(points[i], "stop")]
        Filled(beats) == beats \o [i \in 1 .. AtLeast(2 - Len(beats), 0) |-> filler]
    IN  {[by |-> "template", hook |-> hook, beats |-> Filled(Beats(points)),
          cta |-> <<[size |-> 6, mark |-> "question"]>> \o b.cta] : points \in selected}

\* _compose_script_llm: the texts may be empty.
ComposeScriptLLM ==
    {[by |-> "llm", hook |-> a.hook, beats |-> a.beats, cta |-> a.cta] : a \in Answers}

\* The beats that stay: the last ones go while there are more than two and too many words.
Kept(beats, avail) ==
    CHOOSE k \in 0 .. Len(beats) :
        LET Stays(i) == i <= 2 \/ Total(Lengths(SubSeq(beats, 1, i))) <= avail
        IN  /\ k = Len(beats) \/ ~ \E i \in (k + 1) .. Len(beats) : Stays(i)
            /\ Stays(k)

\* The first n words of a longer text end with a full stop.
CutTo(text, n) ==
    IF Len(text) <= n THEN text
    ELSE [SubSeq(text, 1, n) EXCEPT ![n] =
            [size |-> IF @.mark \in {"comma", "stop"} THEN @.size ELSE @.size + 1, mark |-> "stop"]]

\* _enforce_word_budget: about two words a second; hook and call to action stay whole.
EnforceWordBudget(s, duration) ==
    LET budget  == AtLeast(2 * duration, 14)
        avail   == AtLeast(budget - Len(s.hook) - Len(s.cta), 6)
        k       == Kept(s.beats, avail)
        perBeat == AtLeast(avail \div AtLeast(k, 1), 2)
    IN  [s EXCEPT !.beats = [i \in 1 .. k |-> CutTo(@[i], perBeat)]]

WriteScript ==
    /\ phase = "script_writing"
    /\ \E s \in ComposeScriptLLM \cup ComposeScriptLocal(brief) :
           script' = EnforceWordBudget(s, brief.duration)
    /\ phase' = "storyboard"
    /\ UNCHANGED <<brief, durations, provider, spoken, cursor, words, audio, clips>>

\* The target is shared by the number of words, but no scene is too short, and rounded.
SceneDurations(s, duration) ==
    LET target  == 1000 * duration
        texts   == Sections(s)
        weight  == [i \in DOMAIN texts |-> AtLeast(Len(texts[i]), 3)]
        share   == [i \in DOMAIN texts |-> AtLeast((weight[i] * target) \div Total(weight), 1600)]
        scaled  == [i \in DOMAIN texts |-> AtLeast((share[i] * target) \div Total(share), 1520)]
    IN  [i \in DOMAIN texts |-> ((scaled[i] + 5) \div 10) * 10]

DrawStoryboard ==
    /\ phase = "storyboard"
    /\ durations' = SceneDurations(script, brief.duration)
    /\ phase' = "narration"
    /\ UNCHANGED <<brief, script, provider, spoken, cursor, words, audio, clips>>

-----------------------------------------------------------------------------
\* Narration, scene by scene.

\* The local voice: a word takes a time by its length and a pause by its mark.
\* Its timings start after a lead-in that the audio does not have.
Pause(mark) == CASE mark = "none" -> 0 [] mark = "comma" -> 90 [] OTHER -> 180
WordDuration(text, i) == 120 + 42 * text[i].size + Pause(text[i].mark)
SynthLead == 250
SynthStart(text, i) == Sums([k \in DOMAIN text |-> WordDuration(text, k) + 60])[i - 1]
SynthLength(text)   == IF text = <<>> THEN 250 ELSE SynthStart(text, Len(text) + 1)
SynthWords(text) ==
    [i \in DOMAIN text |->
        [size |-> text[i].size, start |-> SynthLead + SynthStart(text, i),
         end |-> SynthLead + SynthStart(text, i) + WordDuration(text, i)]]

\* The neural voice: its duration is measured and shared by the lengths of the words.
ByRate(text, length) ==
    LET weight == [i \in DOMAIN text |-> 10 * text[i].size + 22]
        Mark(i) == (length * Sums(weight)[i]) \div Total(weight)
    IN  [i \in DOMAIN text |->
            [size |-> text[i].size, start |-> Mark(i - 1), end |-> Mark(i) - 10]]

\* Fault: the words of every scene are timed from the start of the narration.
ShiftedNot(ws, by) == ws

Shifted(ws, by) ==
    [i \in DOMAIN ws |-> [ws[i] EXCEPT !.start = @ + by, !.end = @ + by]]

\* Timings that do not fit the duration are replaced.
AlignWordsToDuration(text, ws, length) ==
    IF ws # <<>> /\ ws[Len(ws)].end - length <= AtLeast(500, (15 * length) \div 100)
                 /\ length - ws[Len(ws)].end <= AtLeast(500, (15 * length) \div 100)
    THEN ws
    ELSE ByRate(text, length)

Speak(text, ws, length) ==
    /\ words' = words \o Shifted(AlignWordsToDuration(text, ws, length), cursor)
    /\ cursor' = cursor + length + 280
    /\ audio' = cursor + length
    /\ spoken' = spoken + 1
    /\ phase' = IF spoken' = Len(durations) THEN "autocleanup" ELSE "narration"
    /\ UNCHANGED <<brief, script, durations, clips>>

NextText == Sections(script)[spoken + 1]

\* The neural voice has nothing to say for an empty text.
SpeakEdge ==
    /\ phase = "narration" /\ provider = "edge" /\ NextText # <<>>
    /\ \E pace \in Paces :
          LET length == pace * Len(NextText) IN Speak(NextText, ByRate(NextText, length), length)
    /\ UNCHANGED provider

\* The neural voice fails, or has failed: the local one takes over for good.
SpeakSynth ==
    /\ phase = "narration"
    /\ Speak(NextText, SynthWords(NextText), SynthLength(NextText))
    /\ provider' = "synth"

-----------------------------------------------------------------------------
\* Cleanup: silences between words are cut.

KeepPad    == 140
MinSilence == 420

\* Where the speech of the first n words ends, for each n.
SpeechEnds(ws) ==
    LET ends[n \in 0 .. Len(ws)] == IF n = 0 THEN 0 ELSE AtLeast(ends[n - 1], ws[n].end) IN ends

\* The gap before each word, and the one behind the last.
Gaps(ws, length) ==
    [i \in 1 .. Len(ws) + 1 |->
        [from |-> SpeechEnds(ws)[i - 1], to |-> IF i <= Len(ws) THEN ws[i].start ELSE length]]

IsSilence(gap) == gap.to - gap.from >= MinSilence

\* The elements of a sequence that are marked.
Marked(s, mark) ==
    LET some[n \in 0 .. Len(s)] ==
          IF n = 0 THEN <<>> ELSE IF mark[n] THEN Append(some[n - 1], s[n]) ELSE some[n - 1]
    IN  some[Len(s)]

Silences(gaps) == Marked(gaps, [i \in DOMAIN gaps |-> IsSilence(gaps[i])])

\* Where the audio goes on behind a silence.
Resumes(silence) == silence.to - KeepPad \div 2

KeepRanges(silences, length) ==
    LET From(i) == IF i = 1 THEN 0 ELSE Resumes(silences[i - 1])
        To(i)   == IF silences[i].from - From(i) > 50
                   THEN silences[i].from - KeepPad \div 2 ELSE silences[i].from
        all     == [i \in 1 .. Len(silences) + 1 |->
                      IF i <= Len(silences)
                      THEN [from |-> From(i), to |-> To(i)]
                      ELSE [from |-> From(i), to |-> IF length > From(i) + 50 THEN length ELSE From(i)]]
    IN  Marked(all, [i \in DOMAIN all |-> all[i].to > all[i].from])

\* Fault: the words keep the times they had before the cut.
CutBeforeNone(w, gaps) == 0

\* By how much a word moves.
CutBefore(w, gaps) ==
    Total([i \in DOMAIN gaps |->
             IF IsSilence(gaps[i]) /\ gaps[i].to <= w.start
             THEN AtLeast(gaps[i].to - gaps[i].from - KeepPad, 0) ELSE 0])

CutSilences ==
    /\ phase = "autocleanup"
    /\ LET gaps == Gaps(words, audio)
           keep == KeepRanges(Silences(gaps), audio)
       IN  IF Len(keep) <= 1
           THEN UNCHANGED <<words, audio>>
           ELSE /\ words' = [i \in DOMAIN words |->
                               Shifted(<<words[i]>>, -CutBefore(words[i], gaps))[1]]
                /\ audio' = Total([i \in DOMAIN keep |-> AtLeast(keep[i].to - keep[i].from, 50)])
    /\ phase' = "editorial_assembly"
    /\ UNCHANGED <<brief, script, durations, provider, spoken, cursor, clips>>

-----------------------------------------------------------------------------
\* Assembly and captions.

\* Fault: the clips keep the durations of the storyboard.
ClipDurationPlanned(d, length, planned) == d

\* Scaled to the narration, but no clip is shorter than a second.
ClipDuration(d, length, planned) ==
    AtLeast((2 * d * length + planned) \div (2 * planned), 1000)

Assemble ==
    /\ phase = "editorial_assembly"
    /\ clips' = [i \in DOMAIN durations |-> ClipDuration(durations[i], audio, Total(durations))]
    /\ phase' = "av_mux"
    /\ UNCHANGED <<brief, script, durations, provider, spoken, cursor, words, audio>>

\* A clip has every frame that starts within the duration asked for; the clips are copied
\* one behind the other.
UpTo(a, b) == (a + b - 1) \div b

Frames(duration, fps) == UpTo(duration * fps, 1000)

PictureLength(ds, fps) == UpTo(1000 * Total([i \in DOMAIN ds |-> Frames(ds[i], fps)]), fps)

\* The streams are muxed whole: the file is as long as the longer one.
Media == AtLeast(PictureLength(clips, brief.fps), audio)

Mux ==
    /\ phase = "av_mux"
    /\ phase' = IF Media - audio > 1500 THEN "qa_sync" ELSE "burn_captions"
    /\ UNCHANGED <<brief, script, durations, provider, spoken, cursor, words, audio, clips>>

Cue(ws) == [start |-> Head(ws).start, end |-> ws[Len(ws)].end, words |-> ws]

Chars(ws) == Total([i \in DOMAIN ws |-> ws[i].size]) + Len(ws) - 1

\* A word opens a new cue if the current one would get too long, too wide or too slow.
Full(ws, w) ==
    Chars(ws) + 1 + w.size > 42 \/ Len(ws) >= 8 \/ w.end - Head(ws).start > 3200

Grouped(a, w) ==
    IF a.current # <<>> /\ Full(a.current, w)
    THEN [cues |-> Append(a.cues, Cue(a.current)), current |-> <<w>>]
    ELSE [a EXCEPT !.current = Append(@, w)]

\* The cues of the first n words, and the words of the one that is still open.
Groups(ws) ==
    LET group[n \in 0 .. Len(ws)] ==
          IF n = 0 THEN [cues |-> <<>>, current |-> <<>>] ELSE Grouped(group[n - 1], ws[n])
    IN  group

\* A cue lasts for 400 ms, and no longer than to the next one.
Trimmed(cues) ==
    LET NextStart(i) == IF i < Len(cues) THEN cues[i + 1].start ELSE cues[i].end
    IN  [i \in DOMAIN cues |->
            [cues[i] EXCEPT !.end = AtMost(AtLeast(@, cues[i].start + 400),
                                           AtLeast(NextStart(i), cues[i].start + 400))]]

GroupWordsIntoCues(ws) ==
    LET all == Groups(ws)[Len(ws)]
    IN  Trimmed(IF all.current = <<>> THEN all.cues ELSE Append(all.cues, Cue(all.current)))

Caption ==
    /\ phase = "burn_captions"
    /\ phase' = "creative_qa"
    /\ UNCHANGED <<brief, script, durations, provider, spoken, cursor, words, audio, clips>>

TimingNext ==
    \/ WriteScript \/ DrawStoryboard \/ SpeakEdge \/ SpeakSynth \/ CutSilences
    \/ Assemble \/ Mux \/ Caption

TimingSpec == TimingInit /\ [][TimingNext]_timing
-----------------------------------------------------------------------------
(* Properties                                                              *)

\* The words of the first n cues, for each n.
Spoken(cues) ==
    LET said[n \in 0 .. Len(cues)] == IF n = 0 THEN <<>> ELSE said[n - 1] \o cues[n].words IN said

\* The cues hold every word once and in order, and start in this order; a cue ends
\* before the next one starts, unless it is shown for the least time
\* (group_words_into_cues, validate_captions), whichever voice spoke which scene and
\* whatever the cleanup cut.
CuesFollowSpeech ==
    phase = "creative_qa" =>
        LET cues == GroupWordsIntoCues(words) IN
        /\ Spoken(cues)[Len(cues)] = words
        /\ \A i \in 1 .. Len(cues) : cues[i].start < cues[i].end
        /\ \A i \in 1 .. Len(cues) - 1 :
               /\ cues[i].start <= cues[i + 1].start
               /\ cues[i].end <= AtLeast(cues[i + 1].start, cues[i].start + 400)

\* The captions of a production of at most three beats, as the prompt asks for, pass its
\* own check of them: no timing runs over the end of the video by half a second
\* (validate_captions in stage_creative_qa).  With more beats they may not (see below), nor
\* with a last word of one character: it may start where the audio has ended, behind a
\* silence that is cut with all that follows.
CaptionsFitMedia ==
    phase = "creative_qa" /\ Len(durations) <= 5 /\ words # <<>> /\ words[Len(words)].size > 1 =>
        words[Len(words)].end <= Media + 500

\* The pictures outlast the speech only by clips that were lifted to the least
\* duration, at most a second each, by the rounding of the others, and by a frame for
\* each clip, as clips are of whole frames: the drift that stage_av_mux refuses, and that
\* no retry can mend, is made by very short scenes, or by very many.
DriftOnlyFromShortClips ==
    phase \in {"av_mux", "qa_sync", "burn_captions", "creative_qa"} =>
        Media <= audio + Total([i \in DOMAIN clips |->
                                  (IF clips[i] = 1000 THEN 1000 ELSE 1) + UpTo(1000, brief.fps)])

-----------------------------------------------------------------------------
(* What the documentation says and the code does not do                    *)

\* docs/ARCHITECTURE.md:63: the total video duration equals the cleaned narration
\* duration exactly (up to the rounding of the clips).
ClipsEqualNarration ==
    phase = "av_mux" => Total(clips) \in (audio - Len(clips)) .. (audio + Len(clips))

\* docs/TOOL_REGISTRY.md:63: timings are authoritative for captions and sync.  A cut takes
\* a whole silence from the audio, but the words behind it move by KeepPad less
\* (apply_silence_cut), so that they end later against the audio with every cut; before
\* the cut they end at most by the lead-in of the local voice behind it.
CutKeepsSync ==
    phase = "editorial_assembly" /\ words # <<>> => words[Len(words)].end <= audio + SynthLead
=============================================================================
