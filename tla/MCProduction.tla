---------------------------- MODULE MCProduction ----------------------------
(***************************************************************************)
(* The stages of a production and the timing of one, explored side by      *)
(* side: a behaviour is one of Production, or one of Narration.            *)
(***************************************************************************)
EXTENDS Production, Narration

Words(n, size) == [i \in 1 .. n |-> Plain(size)]

\* One word is wider than a caption line, one ends with a comma.
Wide == <<Plain(4), [size |-> 5, mark |-> "comma"], Plain(45), Plain(4)>>

\* A short form and a longer one; no point, one-word points, long ones.
SmallBriefs ==
    [duration : {5, 12}, fps : {24, 30}, title : {Words(1, 5)}, audience : {Words(1, 6)},
     cta : {Closed(Words(1, 3), "stop")},
     points : {<<>>, <<Words(1, 4), Words(1, 4)>>,
               <<Words(1, 2), Words(9, 8), Words(3, 5), Wide>>}]

\* Answers of the language model: no beat, empty texts in every place, a single letter.
SmallAnswers ==
    [hook : {Closed(Words(2, 5), "stop")}, cta : {<<>>, <<Plain(1)>>, Closed(Words(3, 5), "stop")},
     beats : [1 .. 2 -> {<<>>, Words(9, 8)}] \cup {<<>>, << <<>>, Words(4, 5), <<>> >>}]

\* 130 to 200 words a minute.
SpokenPaces == {300, 450}

TimingOff ==
    /\ phase = "off" /\ brief = "none" /\ script = "none"
    /\ durations = <<>> /\ provider = "edge"
    /\ spoken = 0 /\ cursor = 0 /\ words = <<>> /\ audio = 0 /\ clips = <<>>

MCInit == Init /\ (TimingOff \/ TimingInit)

MCNext ==
    \/ phase = "off" /\ Next /\ UNCHANGED timing
    \/ TimingNext /\ UNCHANGED vars

MCSpec == MCInit /\ [][MCNext]_<<vars, timing>>
=============================================================================
