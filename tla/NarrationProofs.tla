--------------------------- MODULE NarrationProofs ---------------------------
(***************************************************************************)
(* Proofs about Narration (agents/stages.py, capabilities/tts.py,          *)
(* editing.py, captions.py), for every brief, every answer of the language *)
(* model and every pace of the neural voice.                               *)
(*                                                                         *)
(* CuesFollow.  The words stay in order from the voices that speak them to *)
(* the cues: a scene's words begin between its start and the start of the  *)
(* next one, and the cleanup moves no word before the one in front of it   *)
(* (NInv).                                                                 *)
(*                                                                         *)
(* DriftIsFromShortClips.  The clips are the shares of the narration, each *)
(* rounded or lifted, and their sum is linear in them (DInv); rendered in  *)
(* whole frames they are at most a frame longer each (FramesBound).        *)
(*                                                                         *)
(* CaptionsFit.  A silence that is cut leaves KeepPad of itself between    *)
(* the words and nothing in the audio, so the last word is late by KeepPad *)
(* for every silence in front of it: they are counted while the scenes are *)
(* spoken, and a silence takes two scenes (LInv).  A last word of more     *)
(* than one character starts before its audio ends, lead-in or not, so the *)
(* silence in front of it is one of the audio.                             *)
(*                                                                         *)
(* A recursion is reasoned about by its smallest counterexample: a set     *)
(* that holds 0 and hands membership on up to n holds 0 .. n (HandedUp).   *)
(***************************************************************************)
EXTENDS Narration, SequenceTheorems, WellFoundedInduction, TLAPS
-----------------------------------------------------------------------------
\* Induction, and what the recursive functions over words compute.

LEMMA SmallestNumber ==
    ASSUME NEW T, T \subseteq Nat, T # {}
    PROVE  \E x \in T : \A y \in T : x <= y
<1>1. PICK x \in T : \A y \in T : <<y, x>> \notin OpToRel(<, Nat)
  BY WFMin, NatLessThanWellFounded
<1>2. \A y \in T : ~ (y < x)
  BY <1>1 DEF OpToRel
<1> QED
  BY <1>2

\* Induction: what holds of 0 and is handed on up to n holds of n.
LEMMA HandedUp ==
    ASSUME NEW n \in Nat, NEW T, 0 \in T, \A k \in 0 .. n - 1 : k \in T => k + 1 \in T
    PROVE  0 .. n \subseteq T
<1> SUFFICES ASSUME (0 .. n) \ T # {} PROVE FALSE
  OBVIOUS
<1>1. PICK x \in (0 .. n) \ T : \A y \in (0 .. n) \ T : x <= y
  <2>1. (0 .. n) \ T \subseteq Nat
    OBVIOUS
  <2> QED
    BY <2>1, SmallestNumber
<1>2. x # 0 /\ x - 1 \in 0 .. n - 1
  BY <1>1
<1>3. x - 1 \in T
  BY <1>1, <1>2
<1> QED
  BY <1>1, <1>2, <1>3

\* The functions that solve a recursion over 0 .. n.
Solutions(T, base, G, n) ==
    {f \in [0 .. n -> T] : f[0] = base /\ \A k \in 1 .. n : f[k] = G[<<f[k - 1], k>>]}

LEMMA Recursion ==
    ASSUME NEW n \in Nat, NEW T, NEW base \in T, NEW G \in [T \X Nat -> T]
    PROVE  Solutions(T, base, G, n) # {}
<1> DEFINE S == {m \in 0 .. n : Solutions(T, base, G, m) # {}}
<1>1. 0 \in S
  <2>1. [k \in 0 .. 0 |-> base] \in Solutions(T, base, G, 0)
    BY DEF Solutions
  <2> QED
    BY <2>1
<1>2. ASSUME NEW m \in 0 .. n - 1, m \in S PROVE m + 1 \in S
  <2>1. PICK f : f \in Solutions(T, base, G, m)
    BY <1>2
  <2>2. /\ f \in [0 .. m -> T] /\ f[0] = base
        /\ \A k \in 1 .. m : f[k] = G[<<f[k - 1], k>>]
    BY <2>1 DEF Solutions
  <2> DEFINE g == [k \in 0 .. m + 1 |-> IF k <= m THEN f[k] ELSE G[<<f[m], m + 1>>]]
  <2>3. g \in [0 .. m + 1 -> T] /\ g[0] = base
    BY <2>2
  <2>4. \A k \in 0 .. m : g[k] = f[k]
    OBVIOUS
  <2>5. g[m + 1] = G[<<f[m], m + 1>>]
    OBVIOUS
  <2> HIDE DEF g
  <2>6. ASSUME NEW k \in 1 .. m + 1 PROVE g[k] = G[<<g[k - 1], k>>]
    <3>1. CASE k <= m
      <4>1. k - 1 \in 0 .. m /\ k \in 0 .. m /\ k \in 1 .. m
        BY <3>1
      <4> QED
        BY <2>2, <2>4, <4>1
    <3>2. CASE k = m + 1
      <4>1. k - 1 = m /\ m \in 0 .. m
        BY <3>2
      <4> QED
        BY <2>4, <2>5, <3>2, <4>1
    <3> QED
      BY <3>1, <3>2
  <2>7. g \in Solutions(T, base, G, m + 1)
    BY <2>3, <2>6 DEF Solutions
  <2> QED
    BY <2>7
<1> HIDE DEF S
<1>3. 0 .. n \subseteq S
  BY <1>1, <1>2, HandedUp
<1>4. n \in S
  BY <1>3
<1> QED
  BY <1>4 DEF S

LEMMA SumsOf ==
    ASSUME NEW s \in Seq(Int)
    PROVE  /\ Sums(s) \in [0 .. Len(s) -> Int]
           /\ Sums(s)[0] = 0
           /\ \A n \in 1 .. Len(s) : Sums(s)[n] = Sums(s)[n - 1] + s[n]
<1> DEFINE Def(f) == [n \in 0 .. Len(s) |-> IF n = 0 THEN 0 ELSE f[n - 1] + s[n]]
<1> DEFINE G == [p \in Int \X Nat |-> p[1] + (IF p[2] \in 1 .. Len(s) THEN s[p[2]] ELSE 0)]
<1>1. G \in [Int \X Nat -> Int]
  OBVIOUS
<1>2. \A x \in Int : \A k \in 1 .. Len(s) : G[<<x, k>>] = x + s[k]
  OBVIOUS
<1> HIDE DEF G
<1>3. Len(s) \in Nat
  OBVIOUS
<1>4. PICK g : g \in Solutions(Int, 0, G, Len(s))
  <2>1. 0 \in Int
    OBVIOUS
  <2>2. Solutions(Int, 0, G, Len(s)) # {}
    BY ONLY <1>1, <1>3, <2>1, Recursion
  <2> QED
    BY <2>2
<1>5. g \in [0 .. Len(s) -> Int] /\ g[0] = 0 /\ \A k \in 1 .. Len(s) : g[k] = G[<<g[k - 1], k>>]
  BY <1>4 DEF Solutions
<1>6. ASSUME NEW k \in 1 .. Len(s) PROVE g[k] = g[k - 1] + s[k]
  <2>1. k - 1 \in 0 .. Len(s)
    BY <1>3
  <2>2. g[k - 1] \in Int
    BY <1>5, <2>1
  <2> QED
    BY <1>2, <1>5, <2>2
<1>7. g = Def(g)
  BY <1>3, <1>5, <1>6
<1>8. Sums(s) = Def(Sums(s))
  BY <1>7 DEF Sums
<1>9. /\ DOMAIN Sums(s) = 0 .. Len(s) /\ Sums(s)[0] = 0
      /\ \A n \in 1 .. Len(s) : Sums(s)[n] = Sums(s)[n - 1] + s[n]
  BY <1>3, <1>8
<1> DEFINE S == {k \in 0 .. Len(s) : Sums(s)[k] \in Int}
<1>10. 0 \in S
  BY <1>3, <1>9
<1>11. ASSUME NEW k \in 0 .. Len(s) - 1, k \in S PROVE k + 1 \in S
  <2>1. k + 1 \in 1 .. Len(s) /\ (k + 1) - 1 = k
    BY <1>3
  <2>2. Sums(s)[k + 1] = Sums(s)[k] + s[k + 1]
    BY <1>9, <2>1
  <2> QED
    BY <1>11, <2>1, <2>2
<1>12. 0 .. Len(s) \subseteq S
  <2> HIDE DEF S
  <2> QED
    BY <1>3, <1>10, <1>11, HandedUp
<1>13. Sums(s) = [k \in 0 .. Len(s) |-> Sums(s)[k]]
  BY <1>8
<1> QED
  BY <1>9, <1>12, <1>13

Word == [size : Nat, start : Int, end : Int]

InOrder(ws) == \A i \in 1 .. Len(ws) - 1 : ws[i].start <= ws[i + 1].start

\* The words of a scene: in order, none begins after the pause behind the scene, and none
\* ends long before it begins.
Timed(ws, length) ==
    /\ ws \in Seq(Word) /\ InOrder(ws)
    /\ \A i \in 1 .. Len(ws) : ws[i].start \in 0 .. length + 280 /\ ws[i].end >= ws[i].start - 10

\* The words of a scene without a silence between them: when the first begins, and how
\* late the last one ends.  One of a single character, and only such a one, may begin
\* behind the end of the audio.
Runs(ws, first, late, length) ==
    /\ ws # <<>> /\ ws[1].start = first
    /\ ws[Len(ws)].end = length + late
    /\ ws[Len(ws)].size > 1 => ws[Len(ws)].start <= length
    /\ \A i \in 1 .. Len(ws) - 1 : ws[i + 1].start - ws[i].end <= 60

LEMMA SumsGrow ==
    ASSUME NEW s \in Seq(Nat)
    PROVE  \A n \in 0 .. Len(s) : Sums(s)[n] \in Nat /\ Sums(s)[n] <= Total(s)
<1>1. s \in Seq(Int) /\ Len(s) \in Nat
  OBVIOUS
<1>2. /\ Sums(s) \in [0 .. Len(s) -> Int] /\ Sums(s)[0] = 0
      /\ \A n \in 1 .. Len(s) : Sums(s)[n] = Sums(s)[n - 1] + s[n]
  BY <1>1, SumsOf
<1>3. \A n \in 1 .. Len(s) : s[n] \in Nat
  OBVIOUS
<1> DEFINE S == {n \in 0 .. Len(s) : Sums(s)[n] \in Nat}
<1>4. 0 .. Len(s) \subseteq S
  <2>1. 0 \in S
    BY <1>1, <1>2
  <2>2. ASSUME NEW n \in 0 .. Len(s) - 1, n \in S PROVE n + 1 \in S
    <3>1. n + 1 \in 1 .. Len(s) /\ (n + 1) - 1 = n
      BY <1>1
    <3>2. Sums(s)[n + 1] = Sums(s)[n] + s[n + 1]
      BY <1>2, <3>1
    <3> QED
      BY <1>3, <2>2, <3>1, <3>2
  <2> HIDE DEF S
  <2> QED
    BY <1>1, <2>1, <2>2, HandedUp
\* Counted from the end.
<1> DEFINE D == {n \in 0 .. Len(s) : Sums(s)[Len(s) - n] <= Total(s)}
<1>5. 0 .. Len(s) \subseteq D
  <2>1. 0 \in D
    BY <1>1, <1>2 DEF Total
  <2>2. ASSUME NEW n \in 0 .. Len(s) - 1, n \in D PROVE n + 1 \in D
    <3>1. PICK m \in 1 .. Len(s) : m = Len(s) - n /\ m - 1 = Len(s) - (n + 1)
      <4>1. Len(s) - n \in 1 .. Len(s) /\ (Len(s) - n) - 1 = Len(s) - (n + 1)
        BY <1>1
      <4> QED
        BY <4>1
    <3>2. Sums(s)[m] = Sums(s)[m - 1] + s[m] /\ Sums(s)[m] <= Total(s)
      BY <1>2, <2>2, <3>1
    <3>3. Sums(s)[m - 1] \in Int /\ Total(s) \in Int /\ s[m] \in Nat
      <4>1. m - 1 \in 0 .. Len(s) /\ Len(s) \in 0 .. Len(s)
        BY <1>1
      <4> QED
        BY <1>2, <1>3, <4>1 DEF Total
    <3>4. Sums(s)[m - 1] <= Total(s)
      BY <3>2, <3>3
    <3> QED
      BY <1>1, <3>1, <3>4
  <2> HIDE DEF D
  <2> QED
    BY <1>1, <2>1, <2>2, HandedUp
<1>6. ASSUME NEW n \in 0 .. Len(s) PROVE Sums(s)[n] <= Total(s)
  <2>1. Len(s) - n \in 0 .. Len(s) /\ Len(s) - (Len(s) - n) = n
    BY <1>1
  <2>2. Len(s) - n \in D
    BY <1>5, <2>1
  <2> QED
    BY <2>1, <2>2
<1> QED
  BY <1>4, <1>6

LEMMA Division ==
    ASSUME NEW a \in Nat, NEW b \in Nat, NEW d \in Nat \ {0}, a <= b
    PROVE  a \div d \in Nat /\ a \div d <= b \div d
  OBVIOUS

LEMMA DivisionExact ==
    ASSUME NEW a \in Nat, NEW d \in Nat \ {0}
    PROVE  (a * d) \div d = a
  OBVIOUS

LEMMA Larger ==
    ASSUME NEW a \in Int, NEW b \in Int, NEW c \in Nat, a <= b
    PROVE  c * a <= c * b
  OBVIOUS
-----------------------------------------------------------------------------
\* The voices: the words of a scene.

LEMMA Choices ==
    \A a, b \in Int :
        /\ AtLeast(a, b) \in Int /\ a <= AtLeast(a, b) /\ b <= AtLeast(a, b)
        /\ AtLeast(a, b) \in {a, b} /\ AtMost(a, b) \in {a, b}
        /\ AtMost(a, b) <= a /\ AtMost(a, b) <= b
  BY DEF AtLeast, AtMost

LEMMA EmptyIsTimed == ASSUME NEW length \in Nat PROVE Timed(<<>>, length)
  BY DEF Timed, InOrder

\* The marks of the neural voice are in order, none behind the end.
LEMMA ByRateIsTimed ==
    ASSUME NEW text \in Texts, NEW length \in Nat
    PROVE  /\ Timed(ByRate(text, length), length)
           /\ text # <<>> => Runs(ByRate(text, length), 0, -10, length)
<1>1. /\ text \in Seq(Written) /\ Len(text) \in Nat /\ DOMAIN text = 1 .. Len(text)
      /\ \A i \in 1 .. Len(text) : text[i].size \in Nat
  <2>1. \A i \in 1 .. Len(text) : text[i] \in Written
    BY DEF Texts
  <2> QED
    BY <2>1 DEF Texts, Written
<1> DEFINE weight == [i \in DOMAIN text |-> 10 * text[i].size + 22]
<1>2. weight \in Seq(Nat) /\ Len(weight) = Len(text) /\ \A i \in 1 .. Len(text) : weight[i] \in Nat \ {0}
  <2>1. \A i \in 1 .. Len(text) : text[i].size \in Nat
    BY <1>1
  <2>2. \A i \in 1 .. Len(text) : 10 * text[i].size + 22 \in Nat \ {0}
    BY <2>1
  <2> QED
    BY <1>1, <2>2
<1> HIDE DEF weight
<1> DEFINE mark == [i \in 0 .. Len(text) |-> (length * Sums(weight)[i]) \div Total(weight)]
<1>3. ByRate(text, length) =
        [i \in 1 .. Len(text) |->
            [size |-> text[i].size, start |-> mark[i - 1], end |-> mark[i] - 10]]
  <2>1. \A i \in 1 .. Len(text) : i \in 0 .. Len(text) /\ i - 1 \in 0 .. Len(text)
    BY <1>1
  <2> QED
    BY <1>1, <2>1 DEF ByRate, weight
<1>4. ASSUME NEW i \in 1 .. Len(text)
      PROVE  /\ mark[i - 1] \in 0 .. length /\ mark[i] \in Int /\ mark[i - 1] <= mark[i]
  <2>1. i \in 0 .. Len(text) /\ i - 1 \in 0 .. Len(text)
    BY <1>1
  <2>2. /\ Sums(weight)[i - 1] \in Nat /\ Sums(weight)[i] \in Nat /\ Sums(weight)[i] <= Total(weight)
        /\ Sums(weight)[i] = Sums(weight)[i - 1] + weight[i]
    <3>1. weight \in Seq(Int)
      BY <1>2
    <3> QED
      BY <1>2, <2>1, <3>1, SumsGrow, SumsOf
  <2>3. PICK a \in Nat, b \in Nat : a = Sums(weight)[i - 1] /\ b = Sums(weight)[i]
    BY <2>2
  <2>4. PICK t \in Nat \ {0} : t = Total(weight) /\ a <= b /\ b <= t
    <3>1. Total(weight) \in Nat
      <4>1. Len(weight) \in 0 .. Len(weight)
        BY <1>1, <1>2
      <4> QED
        BY <1>2, <4>1, SumsGrow DEF Total
    <3>2. weight[i] \in Nat \ {0}
      BY <1>2
    <3> QED
      BY <2>2, <2>3, <3>1, <3>2
  <2>5. mark[i - 1] = (length * a) \div t /\ mark[i] = (length * b) \div t
    BY <2>1, <2>3, <2>4
  <2>6. length * a \in Nat /\ length * b \in Nat /\ length * t \in Nat
    OBVIOUS
  <2>7. length * a <= length * b /\ length * b <= length * t
    BY <2>4, Larger
  <2>8. (length * t) \div t = length
    BY DivisionExact
  <2>9. /\ (length * a) \div t \in Nat /\ (length * b) \div t \in Nat
        /\ (length * a) \div t <= (length * b) \div t /\ (length * b) \div t <= length
    BY <2>6, <2>7, <2>8, Division
  <2> HIDE DEF mark
  <2> QED
    BY <2>5, <2>9
<1>9. text # <<>> => mark[0] = 0 /\ mark[Len(text)] = length
  <2> SUFFICES ASSUME text # <<>> PROVE mark[0] = 0 /\ mark[Len(text)] = length
    OBVIOUS
  <2>1. 0 \in 0 .. Len(text) /\ Len(text) \in 0 .. Len(text) /\ Len(text) \in 1 .. Len(text)
    BY <1>1
  <2>2. PICK t \in Nat \ {0} : t = Total(weight)
    <3>1. /\ Sums(weight)[Len(text)] = Sums(weight)[Len(text) - 1] + weight[Len(text)]
          /\ Sums(weight)[Len(text) - 1] \in Nat /\ weight[Len(text)] \in Nat \ {0}
      <4>1. weight \in Seq(Int) /\ Len(text) - 1 \in 0 .. Len(text)
        BY <1>2, <2>1
      <4> QED
        BY <1>2, <2>1, <4>1, SumsGrow, SumsOf
    <3> QED
      BY <1>2, <3>1 DEF Total
  <2>3. Sums(weight)[0] = 0 /\ Sums(weight)[Len(text)] = t
    <3>1. weight \in Seq(Int)
      BY <1>2
    <3> QED
      BY <1>2, <2>2, <3>1, SumsOf DEF Total
  <2>4. mark[0] = (length * 0) \div t /\ mark[Len(text)] = (length * t) \div t
    BY <2>1, <2>2, <2>3
  <2>5. (length * 0) \div t = 0 /\ (length * t) \div t = length
    BY DivisionExact
  <2> HIDE DEF mark
  <2> QED
    BY <2>4, <2>5
<1> HIDE DEF mark
<1>5. ByRate(text, length) \in Seq(Word) /\ Len(ByRate(text, length)) = Len(text)
  <2>1. ASSUME NEW i \in 1 .. Len(text)
        PROVE  [size |-> text[i].size, start |-> mark[i - 1], end |-> mark[i] - 10] \in Word
    <3>1. text[i].size \in Nat
      BY <1>1
    <3> QED
      BY <1>4, <3>1 DEF Word
  <2> QED
    BY <1>1, <1>3, <2>1
<1>6. ASSUME NEW i \in 1 .. Len(text)
      PROVE  /\ ByRate(text, length)[i].start = mark[i - 1]
             /\ ByRate(text, length)[i].end = mark[i] - 10
  BY <1>3
<1>7. InOrder(ByRate(text, length))
  <2>1. ASSUME NEW i \in 1 .. Len(text) - 1 PROVE mark[i - 1] <= mark[(i + 1) - 1]
    BY <1>1, <1>4
  <2>2. \A i \in 1 .. Len(text) - 1 : i \in 1 .. Len(text) /\ i + 1 \in 1 .. Len(text)
    BY <1>1
  <2> QED
    BY <1>5, <1>6, <2>1, <2>2 DEF InOrder
<1>8. ASSUME NEW i \in 1 .. Len(text)
      PROVE  /\ ByRate(text, length)[i].start \in 0 .. length + 280
             /\ ByRate(text, length)[i].end >= ByRate(text, length)[i].start - 10
  BY <1>4, <1>6
<1>10. text # <<>> => Runs(ByRate(text, length), 0, -10, length)
  <2> SUFFICES ASSUME text # <<>> PROVE Runs(ByRate(text, length), 0, -10, length)
    OBVIOUS
  <2>1. 1 \in 1 .. Len(text) /\ Len(text) \in 1 .. Len(text)
    BY <1>1
  <2>2. mark[0] = 0 /\ mark[Len(text)] = length /\ mark[Len(text) - 1] <= length
    BY <1>4, <1>9, <2>1
  <2>3. ASSUME NEW i \in 1 .. Len(text) - 1
        PROVE  ByRate(text, length)[i + 1].start - ByRate(text, length)[i].end <= 60
    <3>1. i \in 1 .. Len(text) /\ i + 1 \in 1 .. Len(text) /\ (i + 1) - 1 = i
      BY <1>1
    <3>2. PICK m \in Int : m = mark[i]
      BY <1>4, <3>1
    <3>3. ByRate(text, length)[i + 1].start = m /\ ByRate(text, length)[i].end = m - 10
      BY <1>6, <3>1, <3>2
    <3> QED
      BY <3>3
  <2>4. ByRate(text, length)[1].start = 0
    BY <1>6, <2>1, <2>2
  <2>5. ByRate(text, length)[Len(text)].end = length - 10
    BY <1>6, <2>1, <2>2
  <2>6. ByRate(text, length)[Len(text)].start <= length
    BY <1>6, <2>1, <2>2
  <2>7. length - 10 = length + (-10)
    OBVIOUS
  <2>8. ByRate(text, length) # <<>>
    BY <1>5, <2>1
  <2> QED
    BY <1>5, <2>3, <2>4, <2>5, <2>6, <2>7, <2>8 DEF Runs
<1> QED
  BY <1>5, <1>7, <1>8, <1>10 DEF Timed

\* The local voice speaks word after word, its timings late by the lead-in.
LEMMA SynthIsTimed ==
    ASSUME NEW text \in Texts
    PROVE  /\ SynthLength(text) \in Nat /\ Timed(SynthWords(text), SynthLength(text))
           /\ text # <<>> => Runs(SynthWords(text), 250, 190, SynthLength(text))
<1>1. /\ text \in Seq(Written) /\ Len(text) \in Nat /\ DOMAIN text = 1 .. Len(text)
      /\ \A i \in 1 .. Len(text) : text[i].size \in Nat
  <2>1. \A i \in 1 .. Len(text) : text[i] \in Written
    BY DEF Texts
  <2> QED
    BY <2>1 DEF Texts, Written
<1> DEFINE times == [k \in DOMAIN text |-> WordDuration(text, k) + 60]
<1>2. \A i \in 1 .. Len(text) :
          /\ WordDuration(text, i) \in Nat
          /\ text[i].size > 1 => WordDuration(text, i) >= 190
  <2>1. ASSUME NEW i \in 1 .. Len(text)
        PROVE  /\ WordDuration(text, i) \in Nat
               /\ text[i].size > 1 => WordDuration(text, i) >= 190
    <3>1. PICK n \in Nat, p \in {0, 90, 180} : n = text[i].size /\ p = Pause(text[i].mark)
      <4>1. Pause(text[i].mark) \in {0, 90, 180}
        BY DEF Pause
      <4> QED
        BY <1>1, <4>1
    <3>2. WordDuration(text, i) = 120 + 42 * n + p
      BY <3>1 DEF WordDuration
    <3>3. 120 + 42 * n + p \in Nat /\ (n > 1 => 120 + 42 * n + p >= 190)
      BY ONLY n \in Nat, p \in {0, 90, 180}
    <3> QED
      BY <3>1, <3>2, <3>3
  <2> QED
    BY <2>1
<1>3. times \in Seq(Nat) /\ Len(times) = Len(text) /\ \A i \in 1 .. Len(text) : times[i] = WordDuration(text, i) + 60
  BY <1>1, <1>2
<1> HIDE DEF times
<1> DEFINE begin == Sums(times)
<1>4. /\ \A i \in 0 .. Len(text) : begin[i] \in Nat /\ begin[i] <= begin[Len(text)]
      /\ \A i \in 1 .. Len(text) : begin[i] = begin[i - 1] + WordDuration(text, i) + 60
  <2>1. times \in Seq(Int)
    BY <1>3
  <2>2. \A i \in 1 .. Len(text) : begin[i] = begin[i - 1] + times[i]
    BY <1>3, <2>1, SumsOf
  <2>3. \A i \in 0 .. Len(text) : begin[i] \in Nat /\ begin[i] <= begin[Len(text)]
    BY <1>3, SumsGrow DEF Total
  <2>4. \A i \in 1 .. Len(text) : i - 1 \in 0 .. Len(text)
    BY <1>1
  <2> QED
    <3>1. ASSUME NEW i \in 1 .. Len(text) PROVE begin[i] = begin[i - 1] + WordDuration(text, i) + 60
      <4>1. begin[i - 1] \in Nat
        BY <2>3, <2>4
      <4>2. /\ WordDuration(text, i) \in Nat /\ times[i] = WordDuration(text, i) + 60
            /\ begin[i] = begin[i - 1] + times[i]
        BY <1>2, <1>3, <2>2
      <4> HIDE DEF begin
      <4> QED
        BY <4>1, <4>2
    <3> QED
      BY <2>3, <3>1
<1>5. \A i \in 1 .. Len(text) + 1 : SynthStart(text, i) = begin[i - 1]
  BY DEF SynthStart, times
<1> HIDE DEF begin
<1>6. SynthLength(text) \in Nat /\ (text # <<>> => SynthLength(text) = begin[Len(text)])
  <2>1. Len(text) + 1 \in 1 .. Len(text) + 1 /\ (Len(text) + 1) - 1 = Len(text) /\ Len(text) \in 0 .. Len(text)
    BY <1>1
  <2> QED
    BY <1>4, <1>5, <2>1 DEF SynthLength
<1> DEFINE length == [i \in 1 .. Len(text) |-> WordDuration(text, i)]
<1>7. SynthWords(text) =
        [i \in 1 .. Len(text) |->
            [size |-> text[i].size, start |-> 250 + begin[i - 1],
             end |-> 250 + begin[i - 1] + length[i]]]
  <2>1. \A i \in 1 .. Len(text) : i \in 1 .. Len(text) + 1
    BY <1>1
  <2> QED
    BY <1>1, <1>5, <2>1 DEF SynthWords, SynthLead
<1>8. ASSUME NEW i \in 1 .. Len(text)
      PROVE  /\ text[i].size \in Nat /\ length[i] \in Nat /\ begin[i] = begin[i - 1] + length[i] + 60
             /\ begin[i - 1] \in Nat /\ begin[i - 1] <= SynthLength(text)
  <2>1. i - 1 \in 0 .. Len(text) /\ text # <<>> /\ text[i].size \in Nat
    BY <1>1
  <2>2. begin[i - 1] \in Nat /\ begin[i - 1] <= SynthLength(text)
    BY <1>4, <1>6, <2>1
  <2> QED
    BY <1>2, <1>4, <2>1, <2>2
<1>13. text # <<>> /\ text[Len(text)].size > 1 => length[Len(text)] >= 190
  <2>1. text # <<>> => Len(text) \in 1 .. Len(text)
    BY <1>1
  <2> QED
    BY <1>2, <2>1
<1>14. begin[0] = 0
  <2>1. times \in Seq(Int)
    BY <1>3
  <2> QED
    BY <2>1, SumsOf DEF begin
<1> HIDE DEF length
<1>9. ASSUME NEW i \in 1 .. Len(text)
      PROVE  /\ SynthWords(text)[i] \in Word
             /\ SynthWords(text)[i].start = 250 + begin[i - 1]
             /\ SynthWords(text)[i].end = 250 + begin[i - 1] + length[i]
  <2>1. PICK b \in Nat, d \in Nat : b = begin[i - 1] /\ d = length[i] /\ text[i].size \in Nat
    BY <1>8
  <2>2. SynthWords(text)[i] = [size |-> text[i].size, start |-> 250 + b, end |-> 250 + b + d]
    BY <1>7, <2>1
  <2> QED
    BY <2>1, <2>2 DEF Word
<1>10. SynthWords(text) \in Seq(Word) /\ Len(SynthWords(text)) = Len(text)
  <2>1. SynthWords(text) = [i \in 1 .. Len(text) |-> SynthWords(text)[i]]
    BY <1>7
  <2> QED
    BY <1>1, <1>9, <2>1
<1>11. InOrder(SynthWords(text))
  <2>1. ASSUME NEW i \in 1 .. Len(text) - 1
        PROVE  SynthWords(text)[i].start <= SynthWords(text)[i + 1].start
    <3>1. i \in 1 .. Len(text) /\ i + 1 \in 1 .. Len(text) /\ (i + 1) - 1 = i
      BY <1>1
    <3>2. PICK b \in Nat, d \in Nat : b = begin[i - 1] /\ d = length[i] /\ begin[i] = b + d + 60
      BY <1>8, <3>1
    <3>3. SynthWords(text)[i].start = 250 + b /\ SynthWords(text)[i + 1].start = 250 + (b + d + 60)
      BY <1>9, <3>1, <3>2
    <3> QED
      BY <3>3
  <2> QED
    BY <1>10, <2>1 DEF InOrder
<1>12. ASSUME NEW i \in 1 .. Len(text)
       PROVE  /\ SynthWords(text)[i].start \in 0 .. SynthLength(text) + 280
              /\ SynthWords(text)[i].end >= SynthWords(text)[i].start - 10
  <2>1. PICK b \in Nat, d \in Nat, n \in Nat :
            b = begin[i - 1] /\ d = length[i] /\ n = SynthLength(text) /\ b <= n
    BY <1>6, <1>8
  <2>2. SynthWords(text)[i].start = 250 + b /\ SynthWords(text)[i].end = 250 + b + d
    BY <1>9, <2>1
  <2>3. 250 + b \in 0 .. n + 280 /\ 250 + b + d >= (250 + b) - 10
    BY <2>1
  <2> QED
    BY <2>1, <2>2, <2>3
<1>15. text # <<>> => Runs(SynthWords(text), 250, 190, SynthLength(text))
  <2> SUFFICES ASSUME text # <<>> PROVE Runs(SynthWords(text), 250, 190, SynthLength(text))
    OBVIOUS
  <2>1. 1 \in 1 .. Len(text) /\ Len(text) \in 1 .. Len(text) /\ 1 - 1 = 0
    BY <1>1
  <2>2. SynthWords(text)[1].start = 250
    BY <1>9, <1>14, <2>1
  <2>3. PICK b \in Nat, d \in Nat :
            /\ b = begin[Len(text) - 1] /\ d = length[Len(text)]
            /\ begin[Len(text)] = b + d + 60 /\ (text[Len(text)].size > 1 => d >= 190)
    <3>1. /\ begin[Len(text) - 1] \in Nat /\ length[Len(text)] \in Nat
          /\ begin[Len(text)] = begin[Len(text) - 1] + length[Len(text)] + 60
      BY <1>8, <2>1
    <3>2. text[Len(text)].size > 1 => length[Len(text)] >= 190
      BY <1>13
    <3> QED
      BY ONLY <3>1, <3>2
  <2>4. SynthLength(text) = b + d + 60
    BY <1>6, <2>3
  <2>5. SynthWords(text)[Len(text)].start = 250 + b /\ SynthWords(text)[Len(text)].end = 250 + b + d
    BY <1>9, <2>1, <2>3
  <2>6. ASSUME NEW i \in 1 .. Len(text) - 1
        PROVE  SynthWords(text)[i + 1].start - SynthWords(text)[i].end <= 60
    <3>1. i \in 1 .. Len(text) /\ i + 1 \in 1 .. Len(text) /\ (i + 1) - 1 = i
      BY <1>1
    <3>2. PICK x \in Nat, y \in Nat : x = begin[i - 1] /\ y = length[i] /\ begin[i] = x + y + 60
      <4>1. begin[i - 1] \in Nat /\ length[i] \in Nat /\ begin[i] = begin[i - 1] + length[i] + 60
        BY <1>8, <3>1
      <4> QED
        BY <4>1
    <3>3. SynthWords(text)[i].end = 250 + x + y /\ SynthWords(text)[i + 1].start = 250 + (x + y + 60)
      BY <1>9, <3>1, <3>2
    <3> QED
      BY <3>3
  <2>7. SynthWords(text) # <<>>
    BY <1>10, <2>1
  <2>9. SynthWords(text)[Len(text)].size = text[Len(text)].size
    BY <1>7, <2>1
  <2>8. /\ 250 + b + d = (b + d + 60) + 190
        /\ text[Len(text)].size > 1 => 250 + b <= b + d + 60
    BY <2>3
  <2> QED
    BY <1>10, <2>2, <2>4, <2>5, <2>6, <2>7, <2>8, <2>9 DEF Runs
<1> QED
  BY <1>6, <1>10, <1>11, <1>12, <1>15 DEF Timed

LEMMA AlignedIsTimed ==
    ASSUME NEW text \in Texts, NEW length \in Nat, NEW ws, Timed(ws, length)
    PROVE  /\ Timed(AlignWordsToDuration(text, ws, length), length)
           /\ text # <<>> /\ Runs(ws, 250, 190, length) =>
                  Runs(AlignWordsToDuration(text, ws, length), 250, 190, length)
           /\ ws = ByRate(text, length) => AlignWordsToDuration(text, ws, length) = ws
           /\ text = <<>> /\ ws = <<>> => AlignWordsToDuration(text, ws, length) = <<>>
<1>1. Timed(AlignWordsToDuration(text, ws, length), length)
  BY ByRateIsTimed DEF AlignWordsToDuration
<1>2. ASSUME Runs(ws, 250, 190, length) PROVE AlignWordsToDuration(text, ws, length) = ws
  <2>1. ws # <<>> /\ ws[Len(ws)].end = length + 190
    BY <1>2 DEF Runs
  <2>2. ws[Len(ws)].end - length <= 500 /\ length - ws[Len(ws)].end <= 500
    BY <2>1
  <2>3. 500 <= AtLeast(500, (15 * length) \div 100) /\ AtLeast(500, (15 * length) \div 100) \in Int
    BY Choices
  <2>4. PICK m \in Int : m = AtLeast(500, (15 * length) \div 100) /\ 500 <= m
    BY <2>3
  <2>5. /\ ws[Len(ws)].end - length <= AtLeast(500, (15 * length) \div 100)
        /\ length - ws[Len(ws)].end <= AtLeast(500, (15 * length) \div 100)
    BY <2>1, <2>4
  <2> QED
    BY <2>1, <2>5 DEF AlignWordsToDuration
<1>3. text = <<>> => ByRate(text, length) = <<>>
  BY DEF ByRate
<1> QED
  BY <1>1, <1>2, <1>3 DEF AlignWordsToDuration
-----------------------------------------------------------------------------
\* Cleanup.

\* Where the speech ends is at or behind the end of every word so far.
LEMMA EndsOf ==
    ASSUME NEW ws \in Seq(Word)
    PROVE  /\ SpeechEnds(ws) \in [0 .. Len(ws) -> Int] /\ SpeechEnds(ws)[0] = 0
           /\ \A i \in 1 .. Len(ws) : ws[i].end <= SpeechEnds(ws)[i]
<1> DEFINE Def(f) == [n \in 0 .. Len(ws) |-> IF n = 0 THEN 0 ELSE AtLeast(f[n - 1], ws[n].end)]
<1> DEFINE G == [p \in Int \X Nat |->
                   IF p[2] \in 1 .. Len(ws) THEN AtLeast(p[1], ws[p[2]].end) ELSE 0]
<1>1. Len(ws) \in Nat /\ \A i \in 1 .. Len(ws) : ws[i].end \in Int
  <2>1. \A i \in 1 .. Len(ws) : ws[i] \in Word
    OBVIOUS
  <2> QED
    BY <2>1 DEF Word
<1>2. G \in [Int \X Nat -> Int]
  BY <1>1 DEF AtLeast
<1>3. \A x \in Int : \A k \in 1 .. Len(ws) : G[<<x, k>>] = AtLeast(x, ws[k].end)
  BY <1>1
<1> HIDE DEF G
<1>4. PICK g : g \in Solutions(Int, 0, G, Len(ws))
  <2>1. 0 \in Int
    OBVIOUS
  <2>2. Solutions(Int, 0, G, Len(ws)) # {}
    BY ONLY <1>1, <1>2, <2>1, Recursion
  <2> QED
    BY <2>2
<1>5. /\ g \in [0 .. Len(ws) -> Int] /\ g[0] = 0
      /\ \A k \in 1 .. Len(ws) : g[k] = G[<<g[k - 1], k>>]
  BY <1>4 DEF Solutions
<1>6. ASSUME NEW k \in 1 .. Len(ws) PROVE g[k] = AtLeast(g[k - 1], ws[k].end)
  <2>1. k - 1 \in 0 .. Len(ws)
    BY <1>1
  <2>2. g[k - 1] \in Int
    BY <1>5, <2>1
  <2> QED
    BY <1>3, <1>5, <2>2
<1>7. g = Def(g)
  BY <1>1, <1>5, <1>6
<1>8. SpeechEnds(ws) = Def(SpeechEnds(ws))
  BY <1>7 DEF SpeechEnds
<1>9. /\ DOMAIN SpeechEnds(ws) = 0 .. Len(ws) /\ SpeechEnds(ws)[0] = 0
      /\ \A n \in 1 .. Len(ws) : SpeechEnds(ws)[n] = AtLeast(SpeechEnds(ws)[n - 1], ws[n].end)
  BY <1>1, <1>8
<1> DEFINE S == {k \in 0 .. Len(ws) : SpeechEnds(ws)[k] \in Int}
<1>10. 0 \in S
  BY <1>1, <1>9
<1>11. ASSUME NEW k \in 0 .. Len(ws) - 1, k \in S PROVE k + 1 \in S
  <2>1. k + 1 \in 1 .. Len(ws) /\ (k + 1) - 1 = k
    BY <1>1
  <2>2. SpeechEnds(ws)[k + 1] = AtLeast(SpeechEnds(ws)[k], ws[k + 1].end)
    BY <1>9, <2>1
  <2>3. SpeechEnds(ws)[k] \in Int /\ ws[k + 1].end \in Int
    BY <1>1, <1>11, <2>1
  <2>4. SpeechEnds(ws)[k + 1] \in Int
    BY <2>2, <2>3, Choices
  <2> QED
    BY <2>1, <2>4
<1>12. 0 .. Len(ws) \subseteq S
  <2> HIDE DEF S
  <2> QED
    BY <1>1, <1>10, <1>11, HandedUp
<1>13. SpeechEnds(ws) = [k \in 0 .. Len(ws) |-> SpeechEnds(ws)[k]]
  BY <1>8
<1>14. ASSUME NEW i \in 1 .. Len(ws) PROVE ws[i].end <= SpeechEnds(ws)[i]
  <2>1. i - 1 \in 0 .. Len(ws)
    BY <1>1
  <2>2. SpeechEnds(ws)[i - 1] \in Int
    BY <1>12, <2>1
  <2> QED
    BY <1>1, <1>9, <2>2, Choices
<1> QED
  BY <1>9, <1>12, <1>13, <1>14

\* Sums that differ in one place.
LEMMA SumsDiffer ==
    ASSUME NEW s \in Seq(Int), NEW t \in Seq(Int), NEW m \in Int, NEW d \in Nat,
           Len(s) = Len(t), \A i \in 1 .. Len(s) : t[i] <= s[i] + (IF i = m THEN d ELSE 0)
    PROVE  Total(s) \in Int /\ Total(t) \in Int /\ Total(t) <= Total(s) + d
<1>1. Len(s) \in Nat /\ \A i \in 1 .. Len(s) : s[i] \in Int /\ t[i] \in Int
  OBVIOUS
<1>2. /\ Sums(s) \in [0 .. Len(s) -> Int] /\ Sums(s)[0] = 0
      /\ \A n \in 1 .. Len(s) : Sums(s)[n] = Sums(s)[n - 1] + s[n]
  BY SumsOf
<1>3. /\ Sums(t) \in [0 .. Len(s) -> Int] /\ Sums(t)[0] = 0
      /\ \A n \in 1 .. Len(s) : Sums(t)[n] = Sums(t)[n - 1] + t[n]
  BY SumsOf
<1> DEFINE extra(k) == IF k < m THEN 0 ELSE d
<1> DEFINE S == {k \in 0 .. Len(s) : Sums(t)[k] <= Sums(s)[k] + extra(k)}
<1>4. 0 \in S
  BY <1>1, <1>2, <1>3
<1>5. ASSUME NEW k \in 0 .. Len(s) - 1, k \in S PROVE k + 1 \in S
  <2>1. k + 1 \in 1 .. Len(s) /\ (k + 1) - 1 = k /\ k \in 0 .. Len(s)
    BY <1>1
  <2>2. PICK a \in Int, b \in Int, x \in Int, y \in Int :
            a = Sums(s)[k] /\ b = Sums(t)[k] /\ x = s[k + 1] /\ y = t[k + 1]
    BY <1>1, <1>2, <1>3, <2>1
  <2>3. Sums(s)[k + 1] = a + x /\ Sums(t)[k + 1] = b + y
    BY <1>2, <1>3, <2>1, <2>2
  <2>4. b <= a + extra(k) /\ y <= x + (IF k + 1 = m THEN d ELSE 0)
    BY <1>5, <2>1, <2>2
  <2>5. b + y <= (a + x) + extra(k + 1)
    BY <2>1, <2>4
  <2> QED
    BY <1>1, <2>1, <2>3, <2>5
<1>6. Len(s) \in S
  <2>1. 0 .. Len(s) \subseteq S
    <3> HIDE DEF S
    <3> QED
      BY <1>1, <1>4, <1>5, HandedUp
  <2> QED
    BY <1>1, <2>1
<1>7. PICK a \in Int, b \in Int : a = Total(s) /\ b = Total(t)
  <2>1. Len(s) \in 0 .. Len(s) /\ Len(t) = Len(s)
    BY <1>1
  <2> QED
    BY <1>2, <1>3, <2>1 DEF Total
<1>8. b <= a + extra(Len(s))
  BY <1>6, <1>7 DEF Total
<1> QED
  BY <1>1, <1>7, <1>8

\* What is in order step by step is in order altogether.
LEMMA OrderedAltogether ==
    ASSUME NEW ws \in Seq(Word), InOrder(ws), NEW i \in 1 .. Len(ws), NEW j \in i .. Len(ws)
    PROVE  ws[i].start <= ws[j].start
<1>1. Len(ws) \in Nat /\ \A k \in 1 .. Len(ws) : ws[k].start \in Int
  <2>1. \A k \in 1 .. Len(ws) : ws[k] \in Word
    OBVIOUS
  <2>2. \A k \in 1 .. Len(ws) : ws[k].start \in Int
    BY <2>1 DEF Word
  <2> QED
    BY <2>2
<1> DEFINE S == {k \in 0 .. Len(ws) - i : ws[i].start <= ws[i + k].start}
<1>2. 0 \in S
  BY <1>1
<1>3. ASSUME NEW k \in 0 .. (Len(ws) - i) - 1, k \in S PROVE k + 1 \in S
  <2>1. i + k \in 1 .. Len(ws) - 1 /\ i + k \in 1 .. Len(ws) /\ i + (k + 1) \in 1 .. Len(ws)
        /\ i + (k + 1) = (i + k) + 1
    BY <1>1
  <2>2. ws[i + k].start <= ws[(i + k) + 1].start
    BY <2>1 DEF InOrder
  <2>3. ws[i].start <= ws[i + (k + 1)].start
    BY <1>1, <1>3, <2>1, <2>2
  <2> QED
    BY <1>1, <2>3
<1>4. 0 .. Len(ws) - i \subseteq S
  <2>1. Len(ws) - i \in Nat
    BY <1>1
  <2> HIDE DEF S
  <2> QED
    BY <1>2, <1>3, <2>1, HandedUp
<1>5. j - i \in S /\ i + (j - i) = j
  <2>1. j - i \in 0 .. Len(ws) - i /\ i + (j - i) = j
    BY <1>1
  <2> HIDE DEF S
  <2> QED
    BY <1>4, <2>1
<1> QED
  BY <1>5

LEMMA ShiftedWord ==
    ASSUME NEW w \in Word, NEW by \in Int
    PROVE  /\ Shifted(<<w>>, by)[1] \in Word
           /\ Shifted(<<w>>, by)[1].start = w.start + by
           /\ Shifted(<<w>>, by)[1].end = w.end + by
<1>1. w = [size |-> w.size, start |-> w.start, end |-> w.end]
      /\ w.size \in Nat /\ w.start \in Int /\ w.end \in Int
  BY DEF Word
<1>2. Shifted(<<w>>, by)[1] = [size |-> w.size, start |-> w.start + by, end |-> w.end + by]
  <2> DEFINE one == <<w>>
  <2>2. 1 \in DOMAIN one /\ one[1] = w
    OBVIOUS
  <2> HIDE DEF one
  <2>3. Shifted(one, by)[1] = [w EXCEPT !.start = @ + by, !.end = @ + by]
    BY <2>2 DEF Shifted
  <2>4. Shifted(<<w>>, by)[1] = [w EXCEPT !.start = @ + by, !.end = @ + by]
    BY <2>3 DEF one
  <2> QED
    BY <1>1, <2>4
<1> QED
  BY <1>1, <1>2 DEF Word

\* Behind a cut silence the words move up, but no word moves before the one in front of
\* it: of the silences cut before a word, only the last is not cut before that one too.
LEMMA CutKeepsOrder ==
    ASSUME NEW ws \in Seq(Word), NEW length \in Int, InOrder(ws),
           \A i \in 1 .. Len(ws) : ws[i].end >= ws[i].start - 10,
           NEW cut, cut = [i \in DOMAIN ws |->
                             Shifted(<<ws[i]>>, -CutBefore(ws[i], Gaps(ws, length)))[1]]
    PROVE  cut \in Seq(Word) /\ InOrder(cut)
<1> DEFINE gaps == Gaps(ws, length)
<1> DEFINE mask(w) == [i \in 1 .. Len(ws) + 1 |->
                         IF IsSilence(gaps[i]) /\ gaps[i].to <= w.start
                         THEN AtLeast(gaps[i].to - gaps[i].from - KeepPad, 0) ELSE 0]
<1>1. Len(ws) \in Nat /\ DOMAIN ws = 1 .. Len(ws)
  OBVIOUS
<1>2. \A i \in 1 .. Len(ws) : ws[i] \in Word
  OBVIOUS
<1>3. \A i \in 1 .. Len(ws) : ws[i].size \in Nat /\ ws[i].start \in Int /\ ws[i].end \in Int
  BY <1>2 DEF Word
<1>4. ASSUME NEW i \in 1 .. Len(ws) + 1
      PROVE  /\ gaps[i].from = SpeechEnds(ws)[i - 1] /\ gaps[i].from \in Int
             /\ gaps[i].to = (IF i <= Len(ws) THEN ws[i].start ELSE length) /\ gaps[i].to \in Int
  <2>1. i - 1 \in 0 .. Len(ws)
    BY <1>1
  <2>2. SpeechEnds(ws)[i - 1] \in Int
    BY <2>1, EndsOf
  <2>3. i <= Len(ws) => i \in 1 .. Len(ws)
    BY <1>1
  <2> QED
    BY <1>3, <2>2, <2>3 DEF Gaps
<1>5. \A w : CutBefore(w, gaps) = Total(mask(w))
  BY DEF CutBefore, Gaps
<1> HIDE DEF gaps
<1>6. ASSUME NEW w \in Word PROVE mask(w) \in Seq(Int) /\ Len(mask(w)) = Len(ws) + 1
  <2>1. \A i \in 1 .. Len(ws) + 1 :
          (IF IsSilence(gaps[i]) /\ gaps[i].to <= w.start
           THEN AtLeast(gaps[i].to - gaps[i].from - KeepPad, 0) ELSE 0) \in Int
    BY <1>4 DEF AtLeast, KeepPad
  <2> QED
    BY <1>1, <2>1
<1>7. ASSUME NEW j \in 1 .. Len(ws) - 1
      PROVE  /\ Total(mask(ws[j])) \in Int /\ Total(mask(ws[j + 1])) \in Int
             /\ ws[j].start - Total(mask(ws[j])) <= ws[j + 1].start - Total(mask(ws[j + 1]))
  <2>1. j \in 1 .. Len(ws) /\ j + 1 \in 1 .. Len(ws)
    BY <1>1
  <2>2. PICK a \in Int, b \in Int : a = ws[j].start /\ b = ws[j + 1].start
    BY <1>3, <2>1
  <2>3. a <= b
    BY <2>2 DEF InOrder
  <2> DEFINE s == mask(ws[j])
             t == mask(ws[j + 1])
  <2>4. ASSUME NEW i \in 1 .. Len(ws) + 1
        PROVE  t[i] <= s[i] + (IF i = j + 1 THEN b - a ELSE 0)
    <3>1. PICK f \in Int, g \in Int : f = gaps[i].from /\ g = gaps[i].to
      BY <1>4
    <3>2. /\ s[i] = (IF IsSilence(gaps[i]) /\ g <= a THEN AtLeast(g - f - KeepPad, 0) ELSE 0)
          /\ t[i] = (IF IsSilence(gaps[i]) /\ g <= b THEN AtLeast(g - f - KeepPad, 0) ELSE 0)
      BY <2>2, <3>1
    <3>3. IsSilence(gaps[i]) <=> g - f >= 420
      BY <3>1 DEF IsSilence, MinSilence
    <3>4. CASE i <= j
      <4>1. i \in 1 .. Len(ws) /\ j \in i .. Len(ws)
        BY <1>1, <2>1, <3>4
      <4>2. g = ws[i].start /\ ws[i].start <= ws[j].start
        BY <1>4, <3>1, <4>1, OrderedAltogether
      <4>3. g <= a /\ g <= b
        BY <2>2, <2>3, <4>2
      <4>4. s[i] = t[i] /\ s[i] \in Int
        BY <3>2, <4>3 DEF AtLeast, KeepPad
      <4> QED
        BY <3>4, <4>4
    <3>5. CASE i = j + 1
      <4>1. g = b
        <5>1. gaps[i].to = ws[i].start
          BY <1>4, <2>1, <3>5
        <5> QED
          BY <2>2, <3>1, <3>5, <5>1
      <4>2. f = SpeechEnds(ws)[j]
        <5>1. i - 1 = j
          BY <3>5
        <5>2. gaps[i].from = SpeechEnds(ws)[i - 1]
          BY <1>4
        <5> QED
          BY <3>1, <5>1, <5>2
      <4>3. ws[j].end <= SpeechEnds(ws)[j] /\ ws[j].end >= ws[j].start - 10
        BY <2>1, EndsOf
      <4>4. f >= a - 10
        BY <1>3, <2>1, <2>2, <4>2, <4>3
      <4> QED
        BY <2>3, <3>2, <3>3, <3>5, <4>1, <4>4 DEF AtLeast, KeepPad
    <3>6. CASE i > j + 1
      <4>1. i - 1 \in 1 .. Len(ws) /\ i - 1 \in (j + 1) .. Len(ws)
        BY <1>1, <3>6
      <4>2. ws[i - 1].end <= SpeechEnds(ws)[i - 1] /\ ws[i - 1].end >= ws[i - 1].start - 10
        BY <4>1, EndsOf
      <4>3. ws[j + 1].start <= ws[i - 1].start
        BY <2>1, <4>1, OrderedAltogether
      <4>4. f >= b - 10
        <5>1. PICK x \in Int, y \in Int : x = ws[i - 1].start /\ y = ws[i - 1].end
          BY <1>3, <4>1
        <5>2. f = SpeechEnds(ws)[i - 1]
          BY <1>4, <3>1
        <5>3. y <= f /\ y >= x - 10 /\ b <= x
          BY <2>2, <4>2, <4>3, <5>1, <5>2
        <5> QED
          BY <5>3
      <4> QED
        BY <3>2, <3>3, <3>6, <4>4 DEF AtLeast, KeepPad
    <3> QED
      BY <3>4, <3>5, <3>6
  <2>5. s \in Seq(Int) /\ t \in Seq(Int) /\ Len(s) = Len(ws) + 1 /\ Len(t) = Len(ws) + 1
    BY <1>2, <1>6, <2>1
  <2> HIDE DEF s, t
  <2>6. Total(s) \in Int /\ Total(t) \in Int /\ Total(t) <= Total(s) + (b - a)
    <3>1. b - a \in Nat /\ j + 1 \in Int
      BY <2>3
    <3> QED
      BY <2>4, <2>5, <3>1, SumsDiffer
  <2>7. PICK x \in Int, y \in Int : x = Total(s) /\ y = Total(t) /\ y <= x + (b - a)
    BY <2>6
  <2>8. a - x <= b - y
    BY <2>7
  <2> QED
    BY <2>2, <2>7, <2>8 DEF s, t
<1>8. ASSUME NEW j \in 1 .. Len(ws)
      PROVE  /\ cut[j] \in Word
             /\ cut[j].start = ws[j].start - Total(mask(ws[j]))
  <2>1. PICK x \in Int : x = Total(mask(ws[j]))
    <3>1. mask(ws[j]) \in Seq(Int)
      BY <1>2, <1>6
    <3> HIDE DEF mask
    <3> DEFINE m == mask(ws[j])
    <3>2. Total(m) \in Int
      BY <3>1, SumsOf DEF Total
    <3> QED
      BY <3>2
  <2>2. cut[j] = Shifted(<<ws[j]>>, -x)[1]
    BY <1>1, <1>5, <2>1 DEF gaps
  <2>3. Shifted(<<ws[j]>>, -x)[1] \in Word /\ Shifted(<<ws[j]>>, -x)[1].start = ws[j].start - x
    <3>1. ws[j] \in Word /\ -x \in Int /\ ws[j].start + (-x) = ws[j].start - x
      BY <1>2, <1>3
    <3> QED
      BY <3>1, ShiftedWord
  <2> QED
    BY <2>1, <2>2, <2>3
<1>9. cut \in Seq(Word) /\ Len(cut) = Len(ws)
  <2>1. cut = [j \in 1 .. Len(ws) |-> cut[j]]
    BY <1>1
  <2>2. \A j \in 1 .. Len(ws) : cut[j] \in Word
    BY <1>8
  <2> QED
    BY ONLY <1>1, <2>1, <2>2
<1>10. ASSUME NEW j \in 1 .. Len(ws) - 1 PROVE cut[j].start <= cut[j + 1].start
  <2>1. j \in 1 .. Len(ws) /\ j + 1 \in 1 .. Len(ws)
    BY <1>1
  <2> HIDE DEF mask
  <2> QED
    BY <1>7, <1>8, <2>1
<1> QED
  BY <1>9, <1>10 DEF InOrder
-----------------------------------------------------------------------------
\* Captions.

Captions == [start : Int, end : Int, words : Seq(Word)]
Grouping == [cues : Seq(Captions), current : Seq(Word)]

LEMMA CueOf ==
    ASSUME NEW ws \in Seq(Word), ws # <<>>
    PROVE  Cue(ws) \in Captions /\ Cue(ws).start = ws[1].start /\ Cue(ws).words = ws
<1>1. Len(ws) \in Nat /\ Len(ws) \in 1 .. Len(ws) /\ 1 \in 1 .. Len(ws)
  OBVIOUS
<1>2. ws[1] \in Word /\ ws[Len(ws)] \in Word /\ Head(ws) = ws[1]
  BY <1>1
<1>3. ws[1].start \in Int /\ ws[Len(ws)].end \in Int
  BY <1>2 DEF Word
<1> QED
  BY <1>2, <1>3 DEF Cue, Captions

\* A further word joins the open cue, or closes it and opens the next one.
LEMMA GroupedWord ==
    ASSUME NEW a \in Grouping, NEW w \in Word
    PROVE  \/ /\ Grouped(a, w) = [cues |-> a.cues, current |-> Append(a.current, w)]
              /\ Grouped(a, w) \in Grouping
           \/ /\ a.current # <<>>
              /\ Grouped(a, w) = [cues |-> Append(a.cues, Cue(a.current)), current |-> <<w>>]
              /\ Grouped(a, w) \in Grouping
<1>1. /\ a = [cues |-> a.cues, current |-> a.current]
      /\ a.cues \in Seq(Captions) /\ a.current \in Seq(Word)
  BY DEF Grouping
<1>2. CASE a.current # <<>> /\ Full(a.current, w)
  <2>1. Grouped(a, w) = [cues |-> Append(a.cues, Cue(a.current)), current |-> <<w>>]
    BY <1>2 DEF Grouped
  <2>2. Append(a.cues, Cue(a.current)) \in Seq(Captions) /\ <<w>> \in Seq(Word)
    <3>1. Cue(a.current) \in Captions
      BY <1>1, <1>2, CueOf
    <3> QED
      BY <1>1, <3>1
  <2> QED
    BY <1>2, <2>1, <2>2 DEF Grouping
<1>3. CASE ~ (a.current # <<>> /\ Full(a.current, w))
  <2>1. Grouped(a, w) = [a EXCEPT !.current = Append(@, w)]
    BY <1>3 DEF Grouped
  <2>2. Grouped(a, w) = [cues |-> a.cues, current |-> Append(a.current, w)]
    BY <1>1, <2>1
  <2>3. Append(a.current, w) \in Seq(Word)
    BY <1>1
  <2> QED
    BY <1>1, <2>2, <2>3 DEF Grouping
<1> QED
  BY <1>2, <1>3

LEMMA GroupsOf ==
    ASSUME NEW ws \in Seq(Word)
    PROVE  /\ Groups(ws) \in [0 .. Len(ws) -> Grouping]
           /\ Groups(ws)[0] = [cues |-> <<>>, current |-> <<>>]
           /\ \A n \in 1 .. Len(ws) : Groups(ws)[n] = Grouped(Groups(ws)[n - 1], ws[n])
<1> DEFINE none == [cues |-> <<>>, current |-> <<>>]
<1> DEFINE Def(f) == [n \in 0 .. Len(ws) |-> IF n = 0 THEN none ELSE Grouped(f[n - 1], ws[n])]
<1> DEFINE G == [p \in Grouping \X Nat |->
                   IF p[2] \in 1 .. Len(ws) THEN Grouped(p[1], ws[p[2]]) ELSE p[1]]
<1>1. Len(ws) \in Nat /\ \A i \in 1 .. Len(ws) : ws[i] \in Word
  OBVIOUS
<1>2. \A a \in Grouping : \A w \in Word : Grouped(a, w) \in Grouping
  BY GroupedWord
<1>3. G \in [Grouping \X Nat -> Grouping]
  BY <1>1, <1>2
<1>4. \A x \in Grouping : \A k \in 1 .. Len(ws) : G[<<x, k>>] = Grouped(x, ws[k])
  BY <1>1
<1> HIDE DEF G
<1>5. PICK g : g \in Solutions(Grouping, none, G, Len(ws))
  <2>1. none \in Grouping
    BY DEF Grouping
  <2>2. Solutions(Grouping, none, G, Len(ws)) # {}
    BY ONLY <1>1, <1>3, <2>1, Recursion
  <2> QED
    BY <2>2
<1>6. /\ g \in [0 .. Len(ws) -> Grouping] /\ g[0] = none
      /\ \A k \in 1 .. Len(ws) : g[k] = G[<<g[k - 1], k>>]
  BY <1>5 DEF Solutions
<1>7. ASSUME NEW k \in 1 .. Len(ws) PROVE g[k] = Grouped(g[k - 1], ws[k])
  <2>1. k - 1 \in 0 .. Len(ws)
    BY <1>1
  <2>2. g[k - 1] \in Grouping
    BY <1>6, <2>1
  <2> QED
    BY <1>4, <1>6, <2>2
<1> HIDE DEF none
<1>8. g = Def(g)
  BY <1>1, <1>6, <1>7
<1>9. Groups(ws) = Def(Groups(ws))
  BY <1>8 DEF Groups, none
<1>10. /\ DOMAIN Groups(ws) = 0 .. Len(ws) /\ Groups(ws)[0] = none
       /\ \A n \in 1 .. Len(ws) : Groups(ws)[n] = Grouped(Groups(ws)[n - 1], ws[n])
  BY <1>1, <1>9
<1> DEFINE S == {k \in 0 .. Len(ws) : Groups(ws)[k] \in Grouping}
<1>11. 0 \in S
  <2>1. none \in Grouping
    BY DEF Grouping, none
  <2> QED
    BY <1>1, <1>10, <2>1
<1>12. ASSUME NEW k \in 0 .. Len(ws) - 1, k \in S PROVE k + 1 \in S
  <2>1. k + 1 \in 1 .. Len(ws) /\ (k + 1) - 1 = k /\ k + 1 \in 0 .. Len(ws)
    BY <1>1
  <2>2. Groups(ws)[k + 1] = Grouped(Groups(ws)[k], ws[k + 1])
    BY <1>10, <2>1
  <2>3. Groups(ws)[k + 1] \in Grouping
    BY <1>1, <1>2, <1>12, <2>1, <2>2
  <2> QED
    BY <2>1, <2>3
<1>13. 0 .. Len(ws) \subseteq S
  <2> HIDE DEF S
  <2> QED
    BY <1>1, <1>11, <1>12, HandedUp
<1>14. Groups(ws) = [k \in 0 .. Len(ws) |-> Groups(ws)[k]]
  BY <1>9
<1> QED
  BY <1>10, <1>13, <1>14 DEF none

LEMMA SpokenOf ==
    ASSUME NEW cues \in Seq(Captions)
    PROVE  /\ Spoken(cues) \in [0 .. Len(cues) -> Seq(Word)]
           /\ Spoken(cues)[0] = <<>>
           /\ \A n \in 1 .. Len(cues) : Spoken(cues)[n] = Spoken(cues)[n - 1] \o cues[n].words
<1> DEFINE more(e, n) == e \o cues[n].words
<1> DEFINE Def(f) == [n \in 0 .. Len(cues) |-> IF n = 0 THEN <<>> ELSE more(f[n - 1], n)]
<1> DEFINE T == Seq(Word)
<1> DEFINE G == [p \in T \X Nat |->
                   IF p[2] \in 1 .. Len(cues) THEN more(p[1], p[2]) ELSE p[1]]
<1>1. Len(cues) \in Nat /\ \A i \in 1 .. Len(cues) : cues[i].words \in T
  <2>1. \A i \in 1 .. Len(cues) : cues[i] \in Captions
    OBVIOUS
  <2>2. \A i \in 1 .. Len(cues) : cues[i].words \in T
    BY <2>1 DEF Captions
  <2> QED
    BY <2>2
<1>2. \A a \in T : \A i \in 1 .. Len(cues) : more(a, i) \in T
  BY <1>1
<1>3. <<>> \in T
  OBVIOUS
<1> HIDE DEF T, more
<1>4. G \in [T \X Nat -> T]
  BY <1>1, <1>2
<1>5. \A x \in T : \A k \in 1 .. Len(cues) : G[<<x, k>>] = more(x, k)
  BY <1>1
<1> HIDE DEF G
<1>6. PICK g : g \in Solutions(T, <<>>, G, Len(cues))
  <2>1. Solutions(T, <<>>, G, Len(cues)) # {}
    BY ONLY <1>1, <1>3, <1>4, Recursion
  <2> QED
    BY <2>1
<1>7. /\ g \in [0 .. Len(cues) -> T] /\ g[0] = <<>>
      /\ \A k \in 1 .. Len(cues) : g[k] = G[<<g[k - 1], k>>]
  BY <1>6 DEF Solutions
<1>8. ASSUME NEW k \in 1 .. Len(cues) PROVE g[k] = more(g[k - 1], k)
  <2>1. k - 1 \in 0 .. Len(cues)
    BY <1>1
  <2>2. g[k - 1] \in T
    BY <1>7, <2>1
  <2> QED
    BY <1>5, <1>7, <2>2
<1>9. g = Def(g)
  BY <1>1, <1>7, <1>8
<1>10. Spoken(cues) = Def(Spoken(cues))
  BY <1>9 DEF Spoken, more
<1>11. /\ DOMAIN Spoken(cues) = 0 .. Len(cues) /\ Spoken(cues)[0] = <<>>
       /\ \A n \in 1 .. Len(cues) : Spoken(cues)[n] = more(Spoken(cues)[n - 1], n)
  BY <1>1, <1>10
<1> DEFINE S == {k \in 0 .. Len(cues) : Spoken(cues)[k] \in T}
<1>12. 0 \in S
  BY <1>1, <1>3, <1>11
<1>13. ASSUME NEW k \in 0 .. Len(cues) - 1, k \in S PROVE k + 1 \in S
  <2>1. k + 1 \in 1 .. Len(cues) /\ (k + 1) - 1 = k /\ k + 1 \in 0 .. Len(cues)
    BY <1>1
  <2>2. Spoken(cues)[k + 1] = more(Spoken(cues)[k], k + 1)
    BY <1>11, <2>1
  <2>3. Spoken(cues)[k + 1] \in T
    BY <1>1, <1>2, <1>13, <2>1, <2>2
  <2> QED
    BY <2>1, <2>3
<1>14. 0 .. Len(cues) \subseteq S
  <2> HIDE DEF S
  <2> QED
    BY <1>1, <1>12, <1>13, HandedUp
<1>15. Spoken(cues) = [k \in 0 .. Len(cues) |-> Spoken(cues)[k]]
  BY <1>10
<1> QED
  BY <1>11, <1>14, <1>15 DEF T, more

LEMMA ConcatAppend ==
    ASSUME NEW S, NEW x \in Seq(S), NEW y \in Seq(S), NEW w \in S
    PROVE  x \o Append(y, w) = Append(x \o y, w) /\ x \o <<w>> = Append(x, w)
  OBVIOUS

LEMMA AppendFirst ==
    ASSUME NEW S, NEW x \in Seq(S), NEW v \in S
    PROVE  Append(x, v) # <<>> /\ Append(x, v)[1] = IF x = <<>> THEN v ELSE x[1]
<1>1. /\ Len(x) \in Nat /\ Len(Append(x, v)) = Len(x) + 1
      /\ \A i \in 1 .. Len(x) : Append(x, v)[i] = x[i]
      /\ Append(x, v)[Len(x) + 1] = v
  OBVIOUS
<1>2. CASE x = <<>>
  BY <1>2
<1>3. CASE x # <<>>
  <2>1. Len(x) # 0
    BY <1>3
  <2>2. 1 \in 1 .. Len(x)
    BY <1>1, <2>1
  <2> QED
    BY <1>1, <1>3, <2>2
<1> QED
  BY <1>2, <1>3

LEMMA PrefixAppend ==
    ASSUME NEW S, NEW ws \in Seq(S), NEW n \in 0 .. Len(ws) - 1
    PROVE  Append(SubSeq(ws, 1, n), ws[n + 1]) = SubSeq(ws, 1, n + 1)
<1>1. Len(ws) \in Nat /\ n \in Nat /\ n + 1 <= Len(ws)
  OBVIOUS
<1>2. SubSeq(ws, 1, n) = [i \in 1 .. n |-> ws[i]] /\ SubSeq(ws, 1, n + 1) = [i \in 1 .. n + 1 |-> ws[i]]
  BY <1>1
<1>3. \A i \in 1 .. n + 1 : ws[i] \in S
  BY <1>1
<1>4. Append([i \in 1 .. n |-> ws[i]], ws[n + 1]) = [i \in 1 .. n + 1 |-> ws[i]]
  <2>1. [i \in 1 .. n |-> ws[i]] \in Seq(S) /\ Len([i \in 1 .. n |-> ws[i]]) = n
    BY <1>1, <1>3
  <2> QED
    BY <1>1, <1>3, <2>1
<1> QED
  BY <1>2, <1>4

LEMMA SpokenSame ==
    ASSUME NEW c \in Seq(Captions), NEW d \in Seq(Captions), NEW n \in 0 .. Len(c), n <= Len(d),
           \A i \in 1 .. n : c[i].words = d[i].words
    PROVE  Spoken(c)[n] = Spoken(d)[n]
<1>1. n \in Nat /\ Len(c) \in Nat /\ Len(d) \in Nat
  OBVIOUS
<1>2. /\ Spoken(c)[0] = <<>>
      /\ \A k \in 1 .. Len(c) : Spoken(c)[k] = Spoken(c)[k - 1] \o c[k].words
  BY SpokenOf
<1>3. /\ Spoken(d)[0] = <<>>
      /\ \A k \in 1 .. Len(d) : Spoken(d)[k] = Spoken(d)[k - 1] \o d[k].words
  BY SpokenOf
<1> DEFINE S == {k \in 0 .. n : Spoken(c)[k] = Spoken(d)[k]}
<1>4. 0 \in S
  BY <1>1, <1>2, <1>3
<1>5. ASSUME NEW k \in 0 .. n - 1, k \in S PROVE k + 1 \in S
  <2>1. /\ k + 1 \in 1 .. Len(c) /\ k + 1 \in 1 .. Len(d) /\ (k + 1) - 1 = k
        /\ k + 1 \in 1 .. n /\ k + 1 \in 0 .. n
    BY <1>1
  <2>2. Spoken(c)[k + 1] = Spoken(c)[k] \o c[k + 1].words
    BY <1>2, <2>1
  <2>3. Spoken(d)[k + 1] = Spoken(d)[k] \o d[k + 1].words
    BY <1>3, <2>1
  <2>4. Spoken(c)[k + 1] = Spoken(d)[k + 1]
    BY <1>5, <2>1, <2>2, <2>3
  <2> QED
    BY <2>1, <2>4
<1>6. 0 .. n \subseteq S
  <2> HIDE DEF S
  <2> QED
    BY <1>1, <1>4, <1>5, HandedUp
<1> QED
  BY <1>1, <1>6

LEMMA SpokenAppend ==
    ASSUME NEW cues \in Seq(Captions), NEW c \in Captions
    PROVE  Spoken(Append(cues, c))[Len(cues) + 1] = Spoken(cues)[Len(cues)] \o c.words
<1> DEFINE all == Append(cues, c)
<1>1. /\ Len(cues) \in Nat /\ all \in Seq(Captions) /\ Len(all) = Len(cues) + 1
      /\ \A i \in 1 .. Len(cues) : all[i] = cues[i]
      /\ all[Len(cues) + 1] = c
  OBVIOUS
<1> HIDE DEF all
<1>2. Spoken(all)[Len(cues) + 1] = Spoken(all)[Len(cues)] \o c.words
  <2>1. Len(cues) + 1 \in 1 .. Len(all) /\ (Len(cues) + 1) - 1 = Len(cues)
    BY <1>1
  <2> QED
    BY <1>1, <2>1, SpokenOf
<1>3. Spoken(cues)[Len(cues)] = Spoken(all)[Len(cues)]
  <2>1. Len(cues) \in 0 .. Len(cues) /\ Len(cues) <= Len(all)
        /\ \A i \in 1 .. Len(cues) : cues[i].words = all[i].words
    BY <1>1
  <2> QED
    BY ONLY <1>1, <2>1, SpokenSame, cues \in Seq(Captions)
<1> QED
  BY <1>2, <1>3 DEF all

\* What the cues hold of the first n words, the last of them in the open one.
HoldsFirst(a, ws, n) ==
    /\ Spoken(a.cues)[Len(a.cues)] \o a.current = SubSeq(ws, 1, n)
    /\ InOrder(a.cues)
    /\ n = 0 => a.cues = <<>> /\ a.current = <<>>
    /\ n > 0 => /\ a.current # <<>> /\ a.current[1].start <= ws[n].start
                /\ \A i \in 1 .. Len(a.cues) : a.cues[i].start <= a.current[1].start

LEMMA GroupedHolds ==
    ASSUME NEW ws \in Seq(Word), InOrder(ws), NEW n \in 0 .. Len(ws) - 1,
           NEW a \in Grouping, HoldsFirst(a, ws, n)
    PROVE  HoldsFirst(Grouped(a, ws[n + 1]), ws, n + 1)
<1> DEFINE w == ws[n + 1]
<1>1. /\ Len(ws) \in Nat /\ n \in Nat /\ n + 1 \in 1 .. Len(ws) /\ w \in Word
      /\ n > 0 => n \in 1 .. Len(ws) - 1 /\ n \in 1 .. Len(ws) /\ ws[n] \in Word
  OBVIOUS
<1>2. w.start \in Int /\ (n > 0 => ws[n].start \in Int /\ ws[n].start <= w.start)
  BY <1>1 DEF Word, InOrder
<1>3. a.cues \in Seq(Captions) /\ a.current \in Seq(Word) /\ Len(a.cues) \in Nat
  BY DEF Grouping
<1>4. \A i \in 1 .. Len(a.cues) : a.cues[i].start \in Int
  <2>1. \A i \in 1 .. Len(a.cues) : a.cues[i] \in Captions
    BY <1>3
  <2> QED
    BY <2>1 DEF Captions
<1>5. Spoken(a.cues)[Len(a.cues)] \in Seq(Word)
  <2>1. Len(a.cues) \in 0 .. Len(a.cues)
    BY <1>3
  <2> QED
    BY <1>3, <2>1, SpokenOf
<1>6. Append(SubSeq(ws, 1, n), w) = SubSeq(ws, 1, n + 1)
  BY PrefixAppend
<1>7. a.current # <<>> => a.current[1].start \in Int
  <2>1. a.current # <<>> => a.current[1] \in Word
    BY <1>3
  <2> QED
    BY <2>1 DEF Word
<1>8. PICK b \in Grouping : b = Grouped(a, w)
  BY <1>1, GroupedWord
<1>9. CASE b = [cues |-> a.cues, current |-> Append(a.current, w)]
  <2>1. b.cues = a.cues /\ b.current = Append(a.current, w)
    BY <1>9
  <2>2. Spoken(b.cues)[Len(b.cues)] \o b.current = SubSeq(ws, 1, n + 1)
    <3>1. Spoken(a.cues)[Len(a.cues)] \o Append(a.current, w)
            = Append(Spoken(a.cues)[Len(a.cues)] \o a.current, w)
      <4>1. \A x, y \in Seq(Word) : \A v \in Word : x \o Append(y, v) = Append(x \o y, v)
        BY ConcatAppend
      <4> QED
        BY ONLY <1>1, <1>3, <1>5, <4>1
    <3> QED
      BY <1>6, <2>1, <3>1 DEF HoldsFirst
  <2>3. b.current # <<>> /\ b.current[1] = (IF a.current = <<>> THEN w ELSE a.current[1])
    <3>1. \A x \in Seq(Word) : \A v \in Word :
            Append(x, v) # <<>> /\ Append(x, v)[1] = IF x = <<>> THEN v ELSE x[1]
      BY AppendFirst
    <3>2. a.current \in Seq(Word) /\ w \in Word
      BY <1>1, <1>3
    <3>3. /\ Append(a.current, w) # <<>>
          /\ Append(a.current, w)[1] = (IF a.current = <<>> THEN w ELSE a.current[1])
      BY ONLY <3>1, <3>2, Zenon
    <3> QED
      BY ONLY <2>1, <3>3
  <2>4. n + 1 > 0 /\ n + 1 # 0
    BY <1>1
  <2>5. CASE n = 0
    <3>1. a.cues = <<>> /\ a.current = <<>>
      BY <2>5 DEF HoldsFirst
    <3> QED
      BY <1>2, <1>8, <2>1, <2>2, <2>3, <2>4, <3>1 DEF HoldsFirst, InOrder
  <2>6. CASE n > 0
    <3>1. /\ a.current # <<>> /\ a.current[1].start <= ws[n].start /\ InOrder(a.cues)
          /\ \A i \in 1 .. Len(a.cues) : a.cues[i].start <= a.current[1].start
      BY <2>6 DEF HoldsFirst
    <3>2. b.current[1] = a.current[1] /\ b.current[1].start <= ws[n + 1].start
      BY <1>2, <1>7, <2>3, <2>6, <3>1
    <3> QED
      BY <1>8, <2>1, <2>2, <2>3, <2>4, <3>1, <3>2 DEF HoldsFirst
  <2> QED
    BY <1>1, <2>5, <2>6
<1>10. CASE a.current # <<>> /\ b = [cues |-> Append(a.cues, Cue(a.current)), current |-> <<w>>]
  <2>1. b.cues = Append(a.cues, Cue(a.current)) /\ b.current = <<w>>
    BY <1>10
  <2>2. n > 0
    BY <1>1, <1>10 DEF HoldsFirst
  <2>3. /\ a.current[1].start <= ws[n].start /\ InOrder(a.cues)
        /\ \A i \in 1 .. Len(a.cues) : a.cues[i].start <= a.current[1].start
    BY <2>2 DEF HoldsFirst
  <2>4. PICK c \in Captions : c = Cue(a.current) /\ c.start = a.current[1].start /\ c.words = a.current
    BY <1>3, <1>10, CueOf
  <2>5. /\ Len(b.cues) = Len(a.cues) + 1 /\ b.cues[Len(a.cues) + 1] = c
        /\ \A i \in 1 .. Len(a.cues) : b.cues[i] = a.cues[i]
    BY <1>3, <2>1, <2>4
  <2>6. Spoken(b.cues)[Len(b.cues)] \o b.current = SubSeq(ws, 1, n + 1)
    <3>1. Spoken(b.cues)[Len(b.cues)] = Spoken(a.cues)[Len(a.cues)] \o a.current
      BY <1>3, <2>1, <2>4, <2>5, SpokenAppend
    <3>2. Spoken(b.cues)[Len(b.cues)] = SubSeq(ws, 1, n) /\ SubSeq(ws, 1, n) \in Seq(Word)
      BY <1>3, <1>5, <3>1 DEF HoldsFirst
    <3> QED
      BY <1>1, <1>6, <2>1, <3>2, ConcatAppend
  <2>7. ASSUME NEW i \in 1 .. Len(b.cues) PROVE b.cues[i].start <= b.current[1].start
    <3>1. b.current[1] = w
      BY <2>1
    <3>2. a.current[1].start <= w.start
      BY <1>2, <1>7, <1>10, <2>2, <2>3
    <3>3. CASE i <= Len(a.cues)
      <4>1. i \in 1 .. Len(a.cues) /\ b.cues[i] = a.cues[i]
        BY <1>3, <2>5, <3>3
      <4>2. a.cues[i].start \in Int /\ a.cues[i].start <= a.current[1].start
        BY <1>4, <2>3, <4>1
      <4> QED
        BY <1>2, <1>7, <1>10, <3>1, <3>2, <4>1, <4>2
    <3>4. CASE i = Len(a.cues) + 1
      BY <2>4, <2>5, <3>1, <3>2, <3>4
    <3> QED
      BY <1>3, <2>5, <3>3, <3>4
  <2>8. InOrder(b.cues)
    <3>1. ASSUME NEW i \in 1 .. Len(b.cues) - 1 PROVE b.cues[i].start <= b.cues[i + 1].start
      <4>1. i \in 1 .. Len(a.cues) /\ b.cues[i] = a.cues[i]
        BY <1>3, <2>5
      <4>2. CASE i + 1 <= Len(a.cues)
        <5>1. i \in 1 .. Len(a.cues) - 1 /\ b.cues[i + 1] = a.cues[i + 1]
          BY <1>3, <2>5, <4>2
        <5> QED
          BY <2>3, <4>1, <5>1 DEF InOrder
      <4>3. CASE i = Len(a.cues)
        BY <2>3, <2>4, <2>5, <4>1, <4>3
      <4> QED
        BY <1>3, <4>1, <4>2, <4>3
    <3> QED
      BY <3>1 DEF InOrder
  <2>9. b.current # <<>> /\ b.current[1].start <= ws[n + 1].start /\ n + 1 > 0 /\ n + 1 # 0
    BY <1>1, <1>2, <2>1
  <2> QED
    BY <1>8, <2>6, <2>7, <2>8, <2>9 DEF HoldsFirst
<1> QED
  BY <1>1, <1>8, <1>9, <1>10, GroupedWord

LEMMA TrimmedOf ==
    ASSUME NEW cues \in Seq(Captions), NEW cut, cut = Trimmed(cues)
    PROVE  /\ cut \in Seq(Captions) /\ Len(cut) = Len(cues)
           /\ \A i \in 1 .. Len(cues) :
                  /\ cut[i].start = cues[i].start /\ cut[i].words = cues[i].words
                  /\ cut[i].start < cut[i].end
           /\ \A i \in 1 .. Len(cues) - 1 :
                  cut[i].end <= AtLeast(cues[i + 1].start, cut[i].start + 400)
<1>1. Len(cues) \in Nat /\ DOMAIN cues = 1 .. Len(cues) /\ \A i \in 1 .. Len(cues) : cues[i] \in Captions
  OBVIOUS
<1>2. \A i \in 1 .. Len(cues) : cues[i].start \in Int /\ cues[i].end \in Int
  BY <1>1 DEF Captions
<1> DEFINE next(i) == IF i < Len(cues) THEN cues[i + 1].start ELSE cues[i].end
           end(i) == AtMost(AtLeast(cues[i].end, cues[i].start + 400),
                            AtLeast(next(i), cues[i].start + 400))
<1>3. ASSUME NEW i \in 1 .. Len(cues)
      PROVE  next(i) \in Int /\ end(i) \in Int /\ end(i) > cues[i].start
             /\ end(i) <= AtLeast(next(i), cues[i].start + 400)
  <2>1. i < Len(cues) => i + 1 \in 1 .. Len(cues)
    BY <1>1
  <2>2. next(i) \in Int
    BY <1>2, <2>1
  <2> HIDE DEF next
  <2> QED
    BY <1>2, <2>2 DEF AtLeast, AtMost
<1>4. cut = [i \in 1 .. Len(cues) |-> [cues[i] EXCEPT !.end = end(i)]]
  BY <1>1 DEF Trimmed
<1>5. \A i \in 1 .. Len(cues) - 1 : i \in 1 .. Len(cues) /\ next(i) = cues[i + 1].start
  BY <1>1
<1> HIDE DEF next, end
<1>6. ASSUME NEW i \in 1 .. Len(cues)
      PROVE  /\ cut[i] \in Captions /\ cut[i].start = cues[i].start /\ cut[i].words = cues[i].words
             /\ cut[i].end = end(i)
  <2>1. cut[i] = [cues[i] EXCEPT !.end = end(i)]
    BY <1>4
  <2>2. cues[i] \in Captions /\ end(i) \in Int
    BY <1>1, <1>3
  <2> QED
    BY <2>1, <2>2 DEF Captions
<1>7. cut \in Seq(Captions) /\ Len(cut) = Len(cues)
  <2>1. cut = [i \in 1 .. Len(cues) |-> cut[i]]
    BY <1>4
  <2>2. \A i \in 1 .. Len(cues) : cut[i] \in Captions
    BY <1>6
  <2> QED
    BY ONLY <1>1, <2>1, <2>2
<1>8. \A i \in 1 .. Len(cues) : cut[i].start < cut[i].end
  BY <1>2, <1>3, <1>6
<1>9. \A i \in 1 .. Len(cues) - 1 : cut[i].end <= AtLeast(cues[i + 1].start, cut[i].start + 400)
  BY <1>3, <1>5, <1>6
<1> QED
  BY <1>6, <1>7, <1>8, <1>9

LEMMA GroupsHold ==
    ASSUME NEW ws \in Seq(Word), InOrder(ws)
    PROVE  Groups(ws)[Len(ws)] \in Grouping /\ HoldsFirst(Groups(ws)[Len(ws)], ws, Len(ws))
<1>1. Len(ws) \in Nat
  OBVIOUS
<1>2. /\ Groups(ws) \in [0 .. Len(ws) -> Grouping]
      /\ Groups(ws)[0] = [cues |-> <<>>, current |-> <<>>]
      /\ \A n \in 1 .. Len(ws) : Groups(ws)[n] = Grouped(Groups(ws)[n - 1], ws[n])
  BY GroupsOf
<1> DEFINE S == {n \in 0 .. Len(ws) : HoldsFirst(Groups(ws)[n], ws, n)}
<1>3. 0 \in S
  <2> DEFINE none == [cues |-> <<>>, current |-> <<>>]
  <2>1. none.cues = <<>> /\ none.current = <<>>
    OBVIOUS
  <2> HIDE DEF none
  <2>2. none.cues \in Seq(Captions) /\ Len(none.cues) = 0
    BY <2>1
  <2>3. Spoken(none.cues)[Len(none.cues)] \o none.current = SubSeq(ws, 1, 0)
    <3>1. Spoken(none.cues)[Len(none.cues)] = <<>>
      BY <2>2, SpokenOf
    <3>2. <<>> \o none.current = <<>> /\ SubSeq(ws, 1, 0) = <<>>
      BY <2>1
    <3> QED
      BY <3>1, <3>2
  <2>4. HoldsFirst(none, ws, 0)
    BY <2>1, <2>3 DEF HoldsFirst, InOrder
  <2> QED
    BY <1>1, <1>2, <2>4 DEF none
<1>4. ASSUME NEW n \in 0 .. Len(ws) - 1, n \in S PROVE n + 1 \in S
  <2>1. n + 1 \in 1 .. Len(ws) /\ n + 1 \in 0 .. Len(ws) /\ (n + 1) - 1 = n /\ n \in 0 .. Len(ws)
    BY <1>1
  <2>2. Groups(ws)[n + 1] = Grouped(Groups(ws)[n], ws[n + 1]) /\ Groups(ws)[n] \in Grouping
    BY <1>2, <2>1
  <2>3. HoldsFirst(Groups(ws)[n], ws, n)
    BY <1>4
  <2>4. HoldsFirst(Groups(ws)[n + 1], ws, n + 1)
    BY <2>2, <2>3, GroupedHolds
  <2> QED
    BY <2>1, <2>4
<1>5. 0 .. Len(ws) \subseteq S
  <2> HIDE DEF S
  <2> QED
    BY <1>1, <1>3, <1>4, HandedUp
<1>6. Len(ws) \in 0 .. Len(ws)
  BY <1>1
<1> QED
  BY <1>2, <1>5, <1>6

\* The cues of words in order: every word once, in order, no cue into the next one.
LEMMA CuesOf ==
    ASSUME NEW ws \in Seq(Word), InOrder(ws), NEW cues, cues = GroupWordsIntoCues(ws)
    PROVE  /\ Spoken(cues)[Len(cues)] = ws
           /\ \A i \in 1 .. Len(cues) : cues[i].start < cues[i].end
           /\ \A i \in 1 .. Len(cues) - 1 :
                  /\ cues[i].start <= cues[i + 1].start
                  /\ cues[i].end <= AtLeast(cues[i + 1].start, cues[i].start + 400)
<1> DEFINE all == Groups(ws)[Len(ws)]
           closed == IF all.current = <<>> THEN all.cues ELSE Append(all.cues, Cue(all.current))
<1>1. all \in Grouping /\ HoldsFirst(all, ws, Len(ws))
  BY GroupsHold
<1>2. cues = Trimmed(closed)
  BY DEF GroupWordsIntoCues
<1> HIDE DEF all
<1>3. all.cues \in Seq(Captions) /\ all.current \in Seq(Word) /\ Len(all.cues) \in Nat /\ Len(ws) \in Nat
  BY <1>1 DEF Grouping
<1>4. SubSeq(ws, 1, Len(ws)) = ws
  OBVIOUS
<1>5. closed \in Seq(Captions) /\ Spoken(closed)[Len(closed)] = ws /\ InOrder(closed)
  <2>1. CASE all.current = <<>>
    <3>1. closed = all.cues
      BY <2>1
    <3>2. Spoken(all.cues)[Len(all.cues)] \in Seq(Word)
      <4>1. Len(all.cues) \in 0 .. Len(all.cues)
        BY <1>3
      <4> QED
        BY <1>3, <4>1, SpokenOf
    <3>3. Spoken(all.cues)[Len(all.cues)] \o <<>> = Spoken(all.cues)[Len(all.cues)]
      BY <3>2
    <3> QED
      BY <1>1, <1>3, <1>4, <2>1, <3>1, <3>3 DEF HoldsFirst
  <2>2. CASE all.current # <<>>
    <3>1. Len(ws) > 0
      BY <1>1, <1>3, <2>2 DEF HoldsFirst
    <3>2. /\ Spoken(all.cues)[Len(all.cues)] \o all.current = ws /\ InOrder(all.cues)
          /\ \A i \in 1 .. Len(all.cues) : all.cues[i].start <= all.current[1].start
      BY <1>1, <1>4, <3>1 DEF HoldsFirst
    <3>3. PICK c \in Captions :
              c = Cue(all.current) /\ c.start = all.current[1].start /\ c.words = all.current
      BY <1>3, <2>2, CueOf
    <3>4. closed = Append(all.cues, c)
      BY <2>2, <3>3
    <3>5. /\ closed \in Seq(Captions)
          /\ Len(closed) = Len(all.cues) + 1 /\ closed[Len(all.cues) + 1] = c
          /\ \A i \in 1 .. Len(all.cues) : closed[i] = all.cues[i]
      BY <1>3, <3>4
    <3> HIDE DEF closed
    <3>6. Spoken(closed)[Len(closed)] = ws
      BY <1>3, <3>2, <3>3, <3>4, <3>5, SpokenAppend
    <3>7. ASSUME NEW i \in 1 .. Len(closed) - 1 PROVE closed[i].start <= closed[i + 1].start
      <4>1. i \in 1 .. Len(all.cues) /\ closed[i] = all.cues[i]
        BY <1>3, <3>5
      <4>2. CASE i + 1 <= Len(all.cues)
        <5>1. i \in 1 .. Len(all.cues) - 1 /\ closed[i + 1] = all.cues[i + 1]
          BY <1>3, <3>5, <4>2
        <5> QED
          BY <3>2, <4>1, <5>1 DEF InOrder
      <4>3. CASE i = Len(all.cues)
        BY <3>2, <3>3, <3>5, <4>1, <4>3
      <4> QED
        BY <1>3, <4>1, <4>2, <4>3
    <3> QED
      BY <3>5, <3>6, <3>7 DEF InOrder
  <2> QED
    BY <2>1, <2>2
<1> HIDE DEF closed
<1>6. /\ cues \in Seq(Captions) /\ Len(cues) = Len(closed) /\ Len(closed) \in Nat
      /\ \A i \in 1 .. Len(closed) :
             /\ cues[i].start = closed[i].start /\ cues[i].words = closed[i].words
             /\ cues[i].start < cues[i].end
      /\ \A i \in 1 .. Len(closed) - 1 :
             cues[i].end <= AtLeast(closed[i + 1].start, cues[i].start + 400)
  BY <1>2, <1>5, TrimmedOf
<1>7. Spoken(cues)[Len(cues)] = ws
  <2>1. Len(cues) \in 0 .. Len(cues) /\ Len(cues) <= Len(closed)
        /\ \A i \in 1 .. Len(cues) : cues[i].words = closed[i].words
    BY <1>6
  <2>2. Spoken(cues)[Len(cues)] = Spoken(closed)[Len(cues)]
    BY ONLY <1>5, <1>6, <2>1, SpokenSame
  <2> QED
    BY <1>5, <1>6, <2>2
<1>8. \A i \in 1 .. Len(cues) - 1 :
          /\ cues[i].start <= cues[i + 1].start
          /\ cues[i].end <= AtLeast(cues[i + 1].start, cues[i].start + 400)
  <2>1. \A i \in 1 .. Len(cues) - 1 : i \in 1 .. Len(closed) /\ i + 1 \in 1 .. Len(closed)
    BY <1>6
  <2> QED
    BY <1>5, <1>6, <2>1 DEF InOrder
<1> QED
  BY <1>6, <1>7, <1>8
-----------------------------------------------------------------------------
\* Scripts, and the invariant.

Scripts == [by : {"template", "llm"}, hook : Texts, beats : Seq(Texts), cta : Texts]

Phases == {"script_writing", "storyboard", "narration", "autocleanup", "editorial_assembly",
           "av_mux", "qa_sync", "burn_captions", "creative_qa"}

\* A scene is spoken for every section of the script, the words so far begin before the
\* next scene, and no later stage brings them out of order.
NInv ==
    /\ phase \in Phases /\ brief \in Briefs
    /\ phase # "script_writing" => script \in Scripts
    /\ phase \in {"script_writing", "storyboard"} => spoken = 0
    /\ phase = "narration" =>
           spoken \in Nat /\ spoken < Len(durations) /\ Len(durations) = Len(Sections(script))
    /\ phase \in {"script_writing", "storyboard", "narration", "autocleanup"} =>
           cursor \in Nat /\ Timed(words, cursor - 280)
    /\ phase = "autocleanup" => audio \in Int
    /\ words \in Seq(Word) /\ InOrder(words)

\* Some beat is the last one to stay, if none has to.
LEMMA KeptOf ==
    ASSUME NEW beats \in Seq(Texts), NEW avail \in Int
    PROVE  Kept(beats, avail) \in 0 .. Len(beats)
<1> DEFINE Stays(i) == i <= 2 \/ Total(Lengths(SubSeq(beats, 1, i))) <= avail
           S == {k \in 0 .. Len(beats) : ~ \E i \in (k + 1) .. Len(beats) : Stays(i)}
           Last(k) == /\ k = Len(beats) \/ ~ \E i \in (k + 1) .. Len(beats) : Stays(i)
                      /\ Stays(k)
<1>1. Len(beats) \in Nat
  OBVIOUS
<1>2. Stays(0)
  OBVIOUS
<1>3. Kept(beats, avail) = CHOOSE k \in 0 .. Len(beats) : Last(k)
  BY DEF Kept
<1> HIDE DEF Stays
<1>4. Len(beats) \in S /\ S \subseteq Nat
  BY <1>1
<1>5. PICK x \in S : \A y \in S : x <= y
  <2> HIDE DEF S
  <2> QED
    BY <1>4, SmallestNumber
<1>6. Stays(x)
  <2>1. CASE x = 0
    BY <1>2, <2>1
  <2>2. CASE x # 0
    <3>1. x \in 0 .. Len(beats)
      BY <1>5
    <3>2. x - 1 \in 0 .. Len(beats) /\ x - 1 \notin S
      <4>1. x - 1 \in 0 .. Len(beats) /\ ~ (x <= x - 1)
        BY <1>1, <2>2, <3>1
      <4> HIDE DEF S
      <4> QED
        BY <1>5, <4>1
    <3>3. PICK i \in ((x - 1) + 1) .. Len(beats) : Stays(i)
      BY <3>2
    <3>4. i = x
      <4>1. x + 1 <= i => ~ Stays(i)
        BY <1>1, <1>5, <3>1, <3>3
      <4> QED
        BY <1>1, <3>1, <3>3, <4>1
    <3> QED
      BY <3>3, <3>4
  <2> QED
    BY <2>1, <2>2
<1>7. x \in 0 .. Len(beats) /\ Last(x)
  BY <1>5, <1>6
<1> HIDE DEF Last
<1> QED
  BY <1>3, <1>7

LEMMA BriefOf ==
    ASSUME NEW b \in Briefs
    PROVE  /\ b.duration \in Nat /\ b.fps \in Nat \ {0} /\ b.title \in Texts /\ b.audience \in Texts
           /\ b.cta \in Texts /\ b.points \in Seq(Texts)
<1>1. b \in [duration : Seconds, fps : Nat \ {0}, title : Texts, audience : Texts, cta : Texts,
             points : Seq(Texts)]
  BY NarrationAssumption DEF NarrationAssumption
<1>2. /\ b.duration \in Seconds /\ b.fps \in Nat \ {0} /\ b.title \in Texts /\ b.audience \in Texts
      /\ b.cta \in Texts /\ b.points \in Seq(Texts)
  BY <1>1
<1>3. b.duration \in Nat
  <2>1. Seconds \subseteq Nat
    BY DEF Seconds
  <2> QED
    BY <1>2, <2>1
<1> QED
  BY <1>2, <1>3

LEMMA WrittenOf ==
    ASSUME NEW size \in Nat \ {0}, NEW mark \in Marks
    PROVE  [size |-> size, mark |-> mark] \in Written /\ Plain(size) \in Written
  BY DEF Written, Plain, Marks

LEMMA ClosedOf ==
    ASSUME NEW text \in Texts, NEW mark \in Marks
    PROVE  Closed(text, mark) \in Texts
<1>1. CASE text = <<>>
  <2>1. [size |-> 1, mark |-> mark] \in Written
    BY WrittenOf
  <2> QED
    BY <1>1, <2>1 DEF Closed, Texts
<1>2. CASE text # <<>>
  <2>1. text \in Seq(Written) /\ Len(text) \in 1 .. Len(text)
    BY <1>2 DEF Texts
  <2>2. PICK w \in Written : w = [size |-> text[Len(text)].size + 1, mark |-> mark]
    <3>1. text[Len(text)] \in Written
      BY <2>1
    <3>2. text[Len(text)].size + 1 \in Nat \ {0}
      BY <3>1 DEF Written
    <3> QED
      BY <3>2, WrittenOf
  <2>3. Closed(text, mark) = [text EXCEPT ![Len(text)] = w]
    BY <1>2, <2>1, <2>2 DEF Closed
  <2> QED
    BY <2>1, <2>3, ExceptSeq DEF Texts
<1> QED
  BY <1>1, <1>2

LEMMA CutToOf ==
    ASSUME NEW text \in Texts, NEW n \in Nat \ {0}
    PROVE  CutTo(text, n) \in Texts
<1>1. text \in Seq(Written) /\ Len(text) \in Nat
  BY DEF Texts
<1>2. CASE Len(text) <= n
  BY <1>2 DEF CutTo
<1>3. CASE ~ (Len(text) <= n)
  <2> DEFINE cut == SubSeq(text, 1, n)
  <2>1. cut \in Seq(Written) /\ n \in 1 .. Len(cut)
    <3>1. n <= Len(text)
      BY <1>1, <1>3
    <3>2. cut \in Seq(Written) /\ Len(cut) = n
      BY <1>1, <3>1
    <3> QED
      BY <3>2
  <2> HIDE DEF cut
  <2>2. PICK w \in Written :
            w = [size |-> IF cut[n].mark \in {"comma", "stop"} THEN cut[n].size ELSE cut[n].size + 1,
                 mark |-> "stop"]
    <3>1. cut[n] \in Written
      BY <2>1
    <3>2. PICK size \in Nat \ {0} :
              size = IF cut[n].mark \in {"comma", "stop"} THEN cut[n].size ELSE cut[n].size + 1
      <4>1. cut[n].size \in Nat \ {0} /\ cut[n].size + 1 \in Nat \ {0}
        BY <3>1 DEF Written
      <4> QED
        BY <4>1
    <3>3. [size |-> size, mark |-> "stop"] \in Written
      BY WrittenOf DEF Marks
    <3> QED
      BY <3>2, <3>3
  <2>3. CutTo(text, n) = [cut EXCEPT ![n] = w]
    BY <1>3, <2>2 DEF CutTo, cut
  <2> QED
    BY <2>1, <2>3, ExceptSeq DEF Texts
<1> QED
  BY <1>2, <1>3

LEMMA LocalScripts ==
    ASSUME NEW b \in Briefs, NEW s \in ComposeScriptLocal(b)
    PROVE  s \in Scripts
<1>1. /\ b.duration \in Nat /\ b.title \in Texts /\ b.audience \in Texts /\ b.cta \in Texts
      /\ b.points \in Seq(Texts)
  BY BriefOf
<1> DEFINE short == b.duration < 10
           n == Len(b.points)
           Opening == <<Plain(2), Plain(3), Plain(4), Plain(4)>> \o Closed(b.audience, "comma")
                          \o <<Plain(4), Plain(7), [size |-> 11, mark |-> "comma"]>>
           hook == (IF short THEN <<Plain(4)>> ELSE Opening) \o Closed(b.title, "stop")
           selected == IF short /\ n > 2 THEN {<<b.points[1], b.points[i]>> : i \in 3 .. n}
                       ELSE {SubSeq(b.points, 1, AtMost(n, IF short THEN 2 ELSE 3))}
           filler == <<Plain(3), Plain(3)>> \o b.title \o <<Plain(8), [size |-> 8, mark |-> "stop"]>>
           Beats(points) == [i \in DOMAIN points |-> Closed(points[i], "stop")]
           Filled(beats) == beats \o [i \in 1 .. AtLeast(2 - Len(beats), 0) |-> filler]
           cta == <<[size |-> 6, mark |-> "question"]>> \o b.cta
<1>2. PICK points \in selected :
          s = [by |-> "template", hook |-> hook, beats |-> Filled(Beats(points)), cta |-> cta]
  BY DEF ComposeScriptLocal
<1>3. /\ Closed(b.title, "stop") \in Texts /\ Closed(b.audience, "comma") \in Texts
      /\ \A x \in {2, 3, 4, 7, 8} : Plain(x) \in Written
      /\ [size |-> 11, mark |-> "comma"] \in Written /\ [size |-> 8, mark |-> "stop"] \in Written
      /\ [size |-> 6, mark |-> "question"] \in Written
  <2>1. "stop" \in Marks /\ "comma" \in Marks /\ "question" \in Marks
    BY DEF Marks
  <2>2. \A x \in {2, 3, 4, 7, 8} : x \in Nat \ {0}
    OBVIOUS
  <2>3. \A x \in {2, 3, 4, 7, 8} : Plain(x) \in Written
    BY <2>1, <2>2, WrittenOf
  <2>4. Closed(b.title, "stop") \in Texts /\ Closed(b.audience, "comma") \in Texts
    BY <1>1, <2>1, ClosedOf
  <2>5. /\ [size |-> 11, mark |-> "comma"] \in Written /\ [size |-> 8, mark |-> "stop"] \in Written
        /\ [size |-> 6, mark |-> "question"] \in Written
    BY <2>1 DEF Written
  <2> QED
    BY <2>3, <2>4, <2>5
<1>4. hook \in Texts /\ cta \in Texts /\ filler \in Texts
  <2>1. Opening \in Texts
    <3>1. /\ <<Plain(2), Plain(3), Plain(4), Plain(4)>> \in Texts
          /\ <<Plain(4), Plain(7), [size |-> 11, mark |-> "comma"]>> \in Texts
      BY <1>3 DEF Texts
    <3> QED
      BY <1>3, <3>1 DEF Texts
  <2>2. <<Plain(4)>> \in Texts
    BY <1>3 DEF Texts
  <2>3. hook \in Texts
    <3> HIDE DEF Opening
    <3> QED
      BY <1>3, <2>1, <2>2 DEF Texts
  <2>4. cta \in Texts
    BY <1>1, <1>3 DEF Texts
  <2>5. filler \in Texts
    <3>1. <<Plain(3), Plain(3)>> \in Texts /\ <<Plain(8), [size |-> 8, mark |-> "stop"]>> \in Texts
      BY <1>3 DEF Texts
    <3> QED
      BY <1>1, <3>1 DEF Texts
  <2> QED
    BY <2>3, <2>4, <2>5
<1>5. points \in Seq(Texts)
  <2>1. n \in Nat
    BY <1>1
  <2>2. CASE short /\ n > 2
    <3>1. PICK i \in 3 .. n : points = <<b.points[1], b.points[i]>>
      BY <1>2, <2>2
    <3>2. b.points[1] \in Texts /\ b.points[i] \in Texts
      BY <1>1, <2>1, <2>2
    <3> QED
      BY <3>1, <3>2
  <2>3. CASE ~ (short /\ n > 2)
    <3>1. PICK m \in 0 .. n : m = AtMost(n, IF short THEN 2 ELSE 3)
      BY <2>1 DEF AtMost
    <3>2. points = SubSeq(b.points, 1, m)
      BY <1>2, <2>3, <3>1
    <3>3. SubSeq(b.points, 1, m) \in Seq(Texts)
      BY <1>1, <2>1
    <3> QED
      BY <3>2, <3>3
  <2> QED
    BY <2>2, <2>3
<1>6. Beats(points) \in Seq(Texts)
  <2>1. \A i \in 1 .. Len(points) : Closed(points[i], "stop") \in Texts
    BY <1>5, ClosedOf DEF Marks
  <2> QED
    BY <1>5, <2>1
<1> DEFINE beats == Beats(points)
<1> HIDE DEF filler, hook, cta, Beats
<1>7. Filled(beats) \in Seq(Texts)
  <2>1. beats \in Seq(Texts)
    BY <1>6
  <2> HIDE DEF beats
  <2>2. PICK m \in Nat : m = AtLeast(2 - Len(beats), 0)
    <3>1. Len(beats) \in Nat
      BY <2>1
    <3>2. AtLeast(2 - Len(beats), 0) \in Nat
      BY <3>1 DEF AtLeast
    <3> QED
      BY <3>2
  <2> DEFINE more == [i \in 1 .. m |-> filler]
  <2>3. more \in Seq(Texts) /\ Len(more) = m
    BY <1>4
  <2> HIDE DEF more
  <2>4. beats \o more \in Seq(Texts)
    BY <2>1, <2>3
  <2>5. Filled(beats) = beats \o more
    BY <2>2 DEF more
  <2> HIDE DEF Filled
  <2> QED
    BY <2>4, <2>5
<1> HIDE DEF Filled
<1> QED
  BY <1>2, <1>4, <1>7 DEF Scripts

LEMMA ModelScripts == ComposeScriptLLM \subseteq Scripts
<1>1. ASSUME NEW a \in Answers
      PROVE  [by |-> "llm", hook |-> a.hook, beats |-> a.beats, cta |-> a.cta] \in Scripts
  BY NarrationAssumption DEF NarrationAssumption, Scripts
<1> QED
  BY <1>1 DEF ComposeScriptLLM

\* The word budget drops and shortens beats.
LEMMA BudgetedScripts ==
    ASSUME NEW s \in Scripts, NEW duration \in Nat
    PROVE  EnforceWordBudget(s, duration) \in Scripts
<1>1. /\ s = [by |-> s.by, hook |-> s.hook, beats |-> s.beats, cta |-> s.cta]
      /\ s.by \in {"template", "llm"} /\ s.hook \in Texts /\ s.cta \in Texts
      /\ s.beats \in Seq(Texts)
  BY DEF Scripts
<1> DEFINE budget  == AtLeast(2 * duration, 14)
           avail   == AtLeast(budget - Len(s.hook) - Len(s.cta), 6)
           k       == Kept(s.beats, avail)
           perBeat == AtLeast(avail \div AtLeast(k, 1), 2)
           beats   == [i \in 1 .. k |-> CutTo(s.beats[i], perBeat)]
<1>2. EnforceWordBudget(s, duration) = [s EXCEPT !.beats = beats]
  BY DEF EnforceWordBudget
<1>3. avail \in Int
  BY <1>1 DEF Texts, AtLeast
<1> HIDE DEF avail
<1>4. k \in 0 .. Len(s.beats) /\ Len(s.beats) \in Nat
  BY <1>1, <1>3, KeptOf
<1> HIDE DEF k
<1>5. perBeat \in Nat \ {0}
  <2>1. PICK m \in Nat \ {0} : m = AtLeast(k, 1)
    BY <1>4 DEF AtLeast
  <2>2. avail \div m \in Int
    BY <1>3
  <2> QED
    BY <2>1, <2>2 DEF AtLeast
<1> HIDE DEF perBeat
<1>6. ASSUME NEW i \in 1 .. k PROVE CutTo(s.beats[i], perBeat) \in Texts
  <2>1. s.beats[i] \in Texts
    BY <1>1, <1>4
  <2> QED
    BY <1>5, <2>1, CutToOf
<1>7. beats \in Seq(Texts)
  <2>1. k \in Nat
    BY <1>4
  <2> QED
    BY <1>6, <2>1
<1> HIDE DEF beats
<1>8. EnforceWordBudget(s, duration) = [by |-> s.by, hook |-> s.hook, beats |-> beats, cta |-> s.cta]
  BY <1>1, <1>2
<1> QED
  BY <1>1, <1>7, <1>8 DEF Scripts

LEMMA SectionsOf ==
    ASSUME NEW s \in Scripts
    PROVE  Sections(s) \in Seq(Texts) /\ Len(Sections(s)) > 0
<1>1. s.hook \in Texts /\ s.cta \in Texts /\ s.beats \in Seq(Texts)
  BY DEF Scripts
<1>2. <<s.hook>> \o s.beats \in Seq(Texts) /\ Len(<<s.hook>> \o s.beats) = 1 + Len(s.beats)
  BY <1>1
<1>3. Len(s.beats) \in Nat
  BY <1>1
<1> QED
  BY <1>1, <1>2, <1>3 DEF Sections

\* The words of a further scene: behind the words so far, and in front of the next scene.
LEMMA ScenesInOrder ==
    ASSUME NEW ws, NEW from \in Nat, Timed(ws, from - 280),
           NEW scene, NEW length \in Nat, Timed(scene, length)
    PROVE  Timed(ws \o Shifted(scene, from), from + length)
<1>1. /\ ws \in Seq(Word) /\ scene \in Seq(Word) /\ InOrder(ws) /\ InOrder(scene)
      /\ Len(ws) \in Nat /\ Len(scene) \in Nat /\ DOMAIN scene = 1 .. Len(scene)
  <2>1. ws \in Seq(Word) /\ scene \in Seq(Word) /\ InOrder(ws) /\ InOrder(scene)
    BY DEF Timed
  <2> QED
    BY <2>1
<1> DEFINE moved == Shifted(scene, from)
<1>2. moved = [i \in 1 .. Len(scene) |->
                 [scene[i] EXCEPT !.start = @ + from, !.end = @ + from]]
  BY <1>1 DEF Shifted
<1> HIDE DEF moved
<1>3. ASSUME NEW i \in 1 .. Len(scene)
      PROVE  /\ moved[i] \in Word /\ moved[i].start = scene[i].start + from
             /\ moved[i].start \in 0 .. from + length + 280
             /\ moved[i].start >= from /\ moved[i].end >= moved[i].start - 10
  <2>1. scene[i] \in Word
    BY <1>1
  <2>2. scene[i].start \in 0 .. length + 280 /\ scene[i].end >= scene[i].start - 10
    BY DEF Timed
  <2>3. /\ scene[i] = [size |-> scene[i].size, start |-> scene[i].start, end |-> scene[i].end]
        /\ scene[i].size \in Nat /\ scene[i].start \in Int /\ scene[i].end \in Int
    BY <2>1 DEF Word
  <2>4. PICK n \in Nat, a \in Nat, b \in Int :
            n = scene[i].size /\ a = scene[i].start /\ b = scene[i].end /\ a <= length + 280 /\ b >= a - 10
    BY <2>2, <2>3
  <2>5. moved[i] = [size |-> n, start |-> a + from, end |-> b + from]
    BY <1>2, <2>3, <2>4
  <2>6. a <= length + 280 /\ b >= a - 10
    BY <2>4
  <2>7. a + from \in 0 .. from + length + 280 /\ a + from >= from /\ b + from >= (a + from) - 10
    BY ONLY <2>6, n \in Nat, a \in Nat, b \in Int, from \in Nat, length \in Nat
  <2>8. /\ moved[i] \in Word /\ moved[i].start = a + from /\ moved[i].end = b + from
    <3>1. a + from \in Int /\ b + from \in Int
      OBVIOUS
    <3> QED
      BY <2>5, <3>1 DEF Word
  <2> QED
    BY <2>4, <2>7, <2>8
<1>4. moved \in Seq(Word) /\ Len(moved) = Len(scene)
  <2>1. moved = [i \in 1 .. Len(scene) |-> moved[i]]
    BY <1>2
  <2>2. \A i \in 1 .. Len(scene) : moved[i] \in Word
    BY <1>3
  <2> QED
    BY ONLY <1>1, <2>1, <2>2
<1> DEFINE all == ws \o moved
<1>5. /\ all \in Seq(Word) /\ Len(all) = Len(ws) + Len(scene)
      /\ \A i \in 1 .. Len(ws) : all[i] = ws[i]
      /\ \A i \in Len(ws) + 1 .. Len(ws) + Len(scene) : all[i] = moved[i - Len(ws)]
  BY <1>1, <1>4
<1> HIDE DEF all
<1>6. ASSUME NEW i \in 1 .. Len(ws)
      PROVE  /\ all[i].start = ws[i].start /\ ws[i].start \in 0 .. from
             /\ all[i].end >= all[i].start - 10
  <2>1. ws[i].start \in 0 .. (from - 280) + 280 /\ ws[i].end >= ws[i].start - 10
    BY DEF Timed
  <2>2. (from - 280) + 280 = from
    OBVIOUS
  <2> QED
    BY <1>5, <2>1, <2>2
<1>7. ASSUME NEW i \in Len(ws) + 1 .. Len(all)
      PROVE  i - Len(ws) \in 1 .. Len(scene) /\ all[i] = moved[i - Len(ws)]
  BY <1>1, <1>5
<1>8. ASSUME NEW i \in 1 .. Len(all)
      PROVE  all[i].start \in 0 .. (from + length) + 280 /\ all[i].end >= all[i].start - 10
  <2>1. CASE i <= Len(ws)
    <3>1. i \in 1 .. Len(ws)
      BY <1>1, <2>1
    <3>2. 0 .. from \subseteq 0 .. (from + length) + 280
      OBVIOUS
    <3> QED
      BY <1>6, <3>1, <3>2
  <2>2. CASE i > Len(ws)
    <3>1. i \in Len(ws) + 1 .. Len(all)
      BY <1>1, <1>5, <2>2
    <3> QED
      BY <1>3, <1>7, <3>1
  <2> QED
    BY <1>1, <2>1, <2>2
<1>9. ASSUME NEW i \in 1 .. Len(all) - 1 PROVE all[i].start <= all[i + 1].start
  <2>1. CASE i + 1 <= Len(ws)
    <3>1. i \in 1 .. Len(ws) - 1 /\ i \in 1 .. Len(ws) /\ i + 1 \in 1 .. Len(ws)
      BY <1>1, <2>1
    <3> QED
      BY <1>1, <1>5, <3>1 DEF InOrder
  <2>2. CASE i = Len(ws)
    <3>1. i \in 1 .. Len(ws) /\ i + 1 \in Len(ws) + 1 .. Len(all) /\ (i + 1) - Len(ws) = 1
      BY <1>1, <1>5, <2>2
    <3>2. all[i].start \in 0 .. from
      BY <1>6, <3>1
    <3>3. all[i + 1] = moved[1] /\ 1 \in 1 .. Len(scene)
      BY <1>7, <3>1
    <3>4. moved[1].start \in 0 .. from + length + 280 /\ moved[1].start >= from
      BY <1>3, <3>3
    <3> QED
      BY <3>2, <3>3, <3>4
  <2>3. CASE i > Len(ws)
    <3>1. PICK k \in 1 .. Len(scene) - 1 : k = i - Len(ws)
      <4>1. i - Len(ws) \in 1 .. Len(scene) - 1
        BY <1>1, <1>5, <2>3
      <4> QED
        BY <4>1
    <3>2. i \in Len(ws) + 1 .. Len(all) /\ i + 1 \in Len(ws) + 1 .. Len(all) /\ (i + 1) - Len(ws) = k + 1
          /\ k \in 1 .. Len(scene) /\ k + 1 \in 1 .. Len(scene)
      BY <1>1, <1>5, <2>3, <3>1
    <3>3. all[i] = moved[k] /\ all[i + 1] = moved[k + 1]
      BY <1>7, <3>1, <3>2
    <3>4. scene[k].start <= scene[k + 1].start
      BY <1>1 DEF InOrder
    <3>5. PICK a \in Int, b \in Int : a = scene[k].start /\ b = scene[k + 1].start
      <4>1. scene[k] \in Word /\ scene[k + 1] \in Word
        BY <1>1, <3>2
      <4> QED
        BY <4>1 DEF Word
    <3>6. moved[k].start = a + from /\ moved[k + 1].start = b + from
      BY <1>3, <3>2, <3>5
    <3> QED
      BY <3>3, <3>4, <3>5, <3>6
  <2> QED
    BY <1>1, <2>1, <2>2, <2>3
<1> QED
  BY <1>5, <1>8, <1>9 DEF Timed, InOrder, all, moved

LEMMA TimingStarts == TimingInit => NInv
<1> SUFFICES ASSUME TimingInit PROVE NInv
  OBVIOUS
<1>1. words = <<>> /\ words \in Seq(Word) /\ InOrder(words) /\ Timed(words, cursor - 280)
  BY DEF TimingInit, InOrder, Timed
<1>2. phase = "script_writing" /\ brief \in Briefs /\ spoken = 0 /\ cursor = 0
  BY DEF TimingInit
<1> QED
  BY <1>1, <1>2 DEF NInv, Phases

LEMMA NextIsText == ASSUME NInv, phase = "narration" PROVE NextText \in Texts
<1>1. /\ spoken \in Nat /\ spoken < Len(durations) /\ Len(durations) = Len(Sections(script))
      /\ script \in Scripts
  BY DEF NInv
<1>2. Sections(script) \in Seq(Texts) /\ Len(Sections(script)) \in Nat
  BY <1>1, SectionsOf
<1>3. spoken + 1 \in 1 .. Len(Sections(script))
  BY <1>1, <1>2
<1> QED
  BY <1>2, <1>3 DEF NextText

\* A scene is spoken: its words are timed, and moved to where the scene starts.
LEMMA SceneSpoken ==
    ASSUME NInv, phase = "narration",
           NEW ws, NEW length \in Nat, Timed(ws, length), Speak(NextText, ws, length)
    PROVE  NInv'
<1>1. /\ spoken \in Nat /\ spoken < Len(durations) /\ Len(durations) = Len(Sections(script))
      /\ cursor \in Nat /\ Timed(words, cursor - 280) /\ script \in Scripts /\ brief \in Briefs
  BY DEF NInv
<1>2. NextText \in Texts
  BY NextIsText
<1>3. PICK c \in Nat : c = cursor
  BY <1>1
<1> DEFINE scene == AlignWordsToDuration(NextText, ws, length)
<1>4. Timed(scene, length)
  BY <1>2, AlignedIsTimed
<1> HIDE DEF scene
<1>5. Timed(words \o Shifted(scene, c), c + length)
  BY <1>1, <1>3, <1>4, ScenesInOrder
<1>6. /\ words' = words \o Shifted(scene, c) /\ cursor' = c + length + 280 /\ audio' = c + length
      /\ spoken' = spoken + 1
      /\ phase' = IF spoken' = Len(durations) THEN "autocleanup" ELSE "narration"
      /\ UNCHANGED <<brief, script, durations, clips>>
  BY <1>3 DEF Speak, scene
<1>7. cursor' \in Nat /\ cursor' - 280 = c + length /\ audio' \in Int
  BY <1>6
<1>8. Timed(words', cursor' - 280)
  BY <1>5, <1>6, <1>7
<1>9. words' \in Seq(Word) /\ InOrder(words')
  BY <1>8 DEF Timed
<1>10. phase' = "narration" =>
           spoken' \in Nat /\ spoken' < Len(durations') /\ Len(durations') = Len(Sections(script'))
  <2>1. Len(durations) \in Nat
    <3>1. Sections(script) \in Seq(Texts)
      BY <1>1, SectionsOf
    <3> QED
      BY <1>1, <3>1
  <2> QED
    BY <1>1, <1>6, <2>1
<1>11. phase' \in {"narration", "autocleanup"} /\ brief' \in Briefs /\ script' \in Scripts
  BY <1>1, <1>6
<1>12. (Timed(words, cursor - 280))' /\ (InOrder(words))'
  BY <1>8, <1>9 DEF Timed, InOrder
<1>13. (Sections(script))' = Sections(script')
  BY DEF Sections
<1> QED
  BY <1>7, <1>9, <1>10, <1>11, <1>12, <1>13 DEF NInv, Phases

LEMMA TimingSteps == NInv /\ [TimingNext]_timing => NInv'
<1> SUFFICES ASSUME NInv, [TimingNext]_timing PROVE NInv'
  OBVIOUS
<1>1. /\ phase \in Phases /\ brief \in Briefs /\ words \in Seq(Word) /\ InOrder(words)
      /\ phase # "script_writing" => script \in Scripts
  BY DEF NInv
<1>2. CASE WriteScript
  <2>1. PICK s \in ComposeScriptLLM \cup ComposeScriptLocal(brief) :
            script' = EnforceWordBudget(s, brief.duration)
    BY <1>2 DEF WriteScript
  <2>2. s \in Scripts
    BY <1>1, <2>1, LocalScripts, ModelScripts
  <2>3. script' \in Scripts
    <3>1. PICK d \in Nat : d = brief.duration
      BY <1>1, BriefOf
    <3> QED
      BY <2>1, <2>2, <3>1, BudgetedScripts
  <2>4. /\ phase = "script_writing" /\ phase' = "storyboard"
        /\ UNCHANGED <<brief, durations, provider, spoken, cursor, words, audio, clips>>
    BY <1>2 DEF WriteScript
  <2>5. spoken = 0 /\ cursor \in Nat /\ Timed(words, cursor - 280)
    BY <2>4 DEF NInv
  <2> QED
    BY <1>1, <2>3, <2>4, <2>5 DEF NInv, Phases, Timed, InOrder
<1>3. CASE DrawStoryboard
  <2>1. /\ phase = "storyboard" /\ phase' = "narration"
        /\ durations' = SceneDurations(script, brief.duration)
        /\ UNCHANGED <<brief, script, provider, spoken, cursor, words, audio, clips>>
    BY <1>3 DEF DrawStoryboard
  <2>2. script \in Scripts /\ spoken = 0 /\ cursor \in Nat /\ Timed(words, cursor - 280)
    BY <2>1 DEF NInv
  <2>3. PICK texts : texts = Sections(script) /\ texts \in Seq(Texts) /\ Len(texts) > 0
    BY <2>2, SectionsOf
  <2>4. Len(durations') = Len(texts)
    <3>1. DOMAIN texts = 1 .. Len(texts) /\ Len(texts) \in Nat
      BY <2>3
    <3>2. PICK d : d = SceneDurations(script, brief.duration)
      OBVIOUS
    <3>3. d = [i \in 1 .. Len(texts) |-> d[i]]
      BY <2>3, <3>1, <3>2 DEF SceneDurations
    <3> QED
      BY <2>1, <3>1, <3>2, <3>3
  <2>5. spoken' \in Nat /\ spoken' < Len(durations') /\ Len(durations') = Len(Sections(script'))
    BY <2>1, <2>2, <2>3, <2>4
  <2>6. (Sections(script))' = Sections(script')
    BY DEF Sections
  <2> QED
    BY <1>1, <2>1, <2>2, <2>5, <2>6 DEF NInv, Phases, Timed, InOrder
<1>4. CASE SpeakEdge
  <2>1. phase = "narration"
    BY <1>4 DEF SpeakEdge
  <2>2. PICK pace \in Paces :
            Speak(NextText, ByRate(NextText, pace * Len(NextText)), pace * Len(NextText))
    BY <1>4 DEF SpeakEdge
  <2>3. NextText \in Texts
    BY <2>1, NextIsText
  <2>4. PICK length \in Nat : length = pace * Len(NextText)
    <3>1. pace \in Nat
      BY NarrationAssumption DEF NarrationAssumption
    <3>2. Len(NextText) \in Nat
      BY <2>3 DEF Texts
    <3>3. \A a, b \in Nat : a * b \in Nat
      OBVIOUS
    <3> QED
      BY <3>1, <3>2, <3>3
  <2>5. Timed(ByRate(NextText, length), length)
    BY <2>3, ByRateIsTimed
  <2> QED
    BY <2>1, <2>2, <2>4, <2>5, SceneSpoken
<1>5. CASE SpeakSynth
  <2>1. phase = "narration" /\ Speak(NextText, SynthWords(NextText), SynthLength(NextText))
    BY <1>5 DEF SpeakSynth
  <2>2. NextText \in Texts
    BY <2>1, NextIsText
  <2>3. SynthLength(NextText) \in Nat /\ Timed(SynthWords(NextText), SynthLength(NextText))
    BY <2>2, SynthIsTimed
  <2> QED
    BY <2>1, <2>3, SceneSpoken
<1>6. CASE CutSilences
  <2>1. /\ phase = "autocleanup" /\ phase' = "editorial_assembly"
        /\ UNCHANGED <<brief, script, durations, provider, spoken, cursor, clips>>
    BY <1>6 DEF CutSilences
  <2>2. audio \in Int /\ Timed(words, cursor - 280)
    BY <2>1 DEF NInv
  <2>3. words' \in Seq(Word) /\ InOrder(words')
    <3> DEFINE cut == [i \in DOMAIN words |->
                         Shifted(<<words[i]>>, -CutBefore(words[i], Gaps(words, audio)))[1]]
    <3>1. words' = words \/ words' = cut
      BY <1>6 DEF CutSilences
    <3>2. cut \in Seq(Word) /\ InOrder(cut)
      <4>1. \A i \in 1 .. Len(words) : words[i].end >= words[i].start - 10
        BY <2>2 DEF Timed
      <4> HIDE DEF cut
      <4>2. PICK c : c = cut
        OBVIOUS
      <4>3. c \in Seq(Word) /\ InOrder(c)
        BY <1>1, <2>2, <4>1, <4>2, CutKeepsOrder DEF cut
      <4> QED
        BY <4>2, <4>3
    <3> HIDE DEF cut
    <3> QED
      BY <1>1, <3>1, <3>2
  <2>4. (InOrder(words))'
    BY <2>3 DEF InOrder
  <2> QED
    BY <1>1, <2>1, <2>3, <2>4 DEF NInv, Phases
<1>7. CASE Assemble \/ Mux \/ Caption
  <2>1. /\ phase \in {"editorial_assembly", "av_mux", "burn_captions"}
        /\ phase' \in {"av_mux", "qa_sync", "burn_captions", "creative_qa"}
        /\ UNCHANGED <<brief, script, words>>
    BY <1>7 DEF Assemble, Mux, Caption
  <2> QED
    BY <1>1, <2>1 DEF NInv, Phases, InOrder
<1>8. CASE UNCHANGED timing
  BY <1>8 DEF timing, NInv, Timed, InOrder, Sections
<1> QED
  BY <1>2, <1>3, <1>4, <1>5, <1>6, <1>7, <1>8 DEF TimingNext

\* CuesFollowSpeech: the cues hold every word once, in order, and a cue is over when the
\* next one starts unless it is shown for its least time (group_words_into_cues), whatever
\* the script, the voices and the cuts of the cleanup.
THEOREM CuesFollow == TimingSpec => []CuesFollowSpeech
<1>1. NInv => CuesFollowSpeech
  <2> SUFFICES ASSUME NInv PROVE CuesFollowSpeech
    OBVIOUS
  <2>1. words \in Seq(Word) /\ InOrder(words)
    BY DEF NInv
  <2>2. PICK cues : cues = GroupWordsIntoCues(words)
    OBVIOUS
  <2>3. /\ Spoken(cues)[Len(cues)] = words
        /\ \A i \in 1 .. Len(cues) : cues[i].start < cues[i].end
        /\ \A i \in 1 .. Len(cues) - 1 :
               /\ cues[i].start <= cues[i + 1].start
               /\ cues[i].end <= AtLeast(cues[i + 1].start, cues[i].start + 400)
    BY <2>1, <2>2, CuesOf
  <2> QED
    BY <2>2, <2>3 DEF CuesFollowSpeech
<1> QED
  BY <1>1, TimingStarts, TimingSteps, PTL DEF TimingSpec
-----------------------------------------------------------------------------
\* The durations: of the scenes, of the narration and of the clips.

Span == [from : Int, to : Int]

\* The marked elements of the first n elements, for each n.
Collects(f, s, mark) ==
    /\ f[0] = <<>>
    /\ \A n \in 1 .. Len(s) : f[n] = IF mark[n] THEN Append(f[n - 1], s[n]) ELSE f[n - 1]

LEMMA MarkedCollects ==
    ASSUME NEW S, NEW s \in Seq(S), NEW mark
    PROVE  \E f : Collects(f, s, mark) /\ f[Len(s)] = Marked(s, mark)
<1> DEFINE Value(f, n) == IF n = 0 THEN <<>>
                          ELSE IF mark[n] THEN Append(f[n - 1], s[n]) ELSE f[n - 1]
           Def(f) == [n \in 0 .. Len(s) |-> Value(f, n)]
           Next(some, n) == IF n \in 1 .. Len(s) /\ mark[n] THEN Append(some, s[n]) ELSE some
           G == [p \in Seq(S) \X Nat |-> Next(p[1], p[2])]
<1>1. Len(s) \in Nat /\ \A n \in 1 .. Len(s) : s[n] \in S
  OBVIOUS
<1>2. ASSUME NEW some \in Seq(S), NEW n \in Nat PROVE Next(some, n) \in Seq(S)
  <2>1. CASE n \in 1 .. Len(s) /\ mark[n]
    BY <1>1, <2>1
  <2>2. CASE ~ (n \in 1 .. Len(s) /\ mark[n])
    BY <2>2
  <2> QED
    BY <2>1, <2>2
<1> HIDE DEF Next
<1>3. G \in [Seq(S) \X Nat -> Seq(S)]
  BY <1>2
<1>4. \A some \in Seq(S) : \A n \in 1 .. Len(s) : G[<<some, n>>] = Next(some, n)
  BY <1>1
<1> HIDE DEF G
<1>5. PICK g : g \in Solutions(Seq(S), <<>>, G, Len(s))
  <2>1. <<>> \in Seq(S)
    OBVIOUS
  <2>2. Solutions(Seq(S), <<>>, G, Len(s)) # {}
    BY ONLY <1>1, <1>3, <2>1, Recursion
  <2> QED
    BY <2>2
<1>6. /\ g \in [0 .. Len(s) -> Seq(S)] /\ g[0] = <<>>
      /\ \A n \in 1 .. Len(s) : g[n] = G[<<g[n - 1], n>>]
  BY <1>5 DEF Solutions
<1>7. ASSUME NEW n \in 0 .. Len(s) PROVE g[n] = Value(g, n)
  <2>1. CASE n = 0
    BY <1>6, <2>1
  <2>2. CASE n # 0
    <3>1. n \in 1 .. Len(s) /\ n - 1 \in 0 .. Len(s)
      BY <1>1, <2>2
    <3>2. g[n] = Next(g[n - 1], n)
      BY <1>4, <1>6, <3>1
    <3> QED
      BY <2>2, <3>1, <3>2 DEF Next
  <2> QED
    BY <2>1, <2>2
<1>8. \E h : h = Def(h)
  <2> HIDE DEF Value
  <2>1. g = Def(g)
    BY <1>6, <1>7
  <2> QED
    BY <2>1
<1> DEFINE f == CHOOSE h : h = Def(h)
<1>9. Marked(s, mark) = f[Len(s)]
  BY DEF Marked
<1>10. f = Def(f)
  <2> HIDE DEF Value
  <2> QED
    BY <1>8
<1> HIDE DEF f
<1>11. \A n \in 0 .. Len(s) : f[n] = Value(f, n)
  <2> HIDE DEF Value
  <2> QED
    BY <1>10
<1>12. Collects(f, s, mark)
  <2>1. f[0] = <<>>
    <3>1. 0 \in 0 .. Len(s)
      BY <1>1
    <3> QED
      BY <1>11, <3>1
  <2>2. ASSUME NEW n \in 1 .. Len(s)
        PROVE  f[n] = IF mark[n] THEN Append(f[n - 1], s[n]) ELSE f[n - 1]
    <3>1. n \in 0 .. Len(s) /\ n # 0
      BY <1>1
    <3> QED
      BY <1>11, <3>1
  <2> QED
    BY <2>1, <2>2 DEF Collects
<1> QED
  BY <1>9, <1>12

LEMMA MarkedOf ==
    ASSUME NEW S, NEW s \in Seq(S), NEW mark, NEW f, Collects(f, s, mark)
    PROVE  \A n \in 0 .. Len(s) : f[n] \in Seq(S) /\ Len(f[n]) <= n
<1>1. Len(s) \in Nat /\ \A n \in 1 .. Len(s) : s[n] \in S
  OBVIOUS
<1> DEFINE T == {n \in 0 .. Len(s) : f[n] \in Seq(S) /\ Len(f[n]) <= n}
<1>2. 0 \in T
  <2>1. <<>> \in Seq(S) /\ Len(<<>>) <= 0 /\ 0 \in 0 .. Len(s)
    BY <1>1
  <2> QED
    BY <2>1 DEF Collects
<1>3. ASSUME NEW n \in 0 .. Len(s) - 1, n \in T PROVE n + 1 \in T
  <2>1. n + 1 \in 0 .. Len(s) /\ (n + 1) - 1 = n /\ n + 1 \in 1 .. Len(s)
    BY <1>1
  <2>2. f[n + 1] \in {Append(f[n], s[n + 1]), f[n]}
    BY <2>1 DEF Collects
  <2>3. f[n] \in Seq(S) /\ Len(f[n]) <= n /\ s[n + 1] \in S
    BY <1>1, <1>3, <2>1
  <2>4. Append(f[n], s[n + 1]) \in Seq(S) /\ Len(Append(f[n], s[n + 1])) = Len(f[n]) + 1
    BY <2>3
  <2>5. Len(f[n]) \in Nat
    BY <2>3
  <2>6. Len(f[n]) <= n + 1 /\ Len(f[n]) + 1 <= n + 1
    BY <2>3, <2>5
  <2> QED
    BY <2>1, <2>2, <2>3, <2>4, <2>6
<1>4. 0 .. Len(s) \subseteq T
  <2> HIDE DEF T
  <2> QED
    BY <1>1, <1>2, <1>3, HandedUp
<1> QED
  BY <1>4

LEMMA MarkedType ==
    ASSUME NEW S, NEW s \in Seq(S), NEW mark
    PROVE  Marked(s, mark) \in Seq(S) /\ Len(Marked(s, mark)) <= Len(s)
<1>1. PICK f : Collects(f, s, mark) /\ f[Len(s)] = Marked(s, mark)
  BY MarkedCollects
<1>2. Len(s) \in 0 .. Len(s)
  OBVIOUS
<1> QED
  BY <1>1, <1>2, MarkedOf

LEMMA GapsOf ==
    ASSUME NEW ws \in Seq(Word), NEW length \in Int
    PROVE  /\ Gaps(ws, length) \in Seq(Span) /\ Len(Gaps(ws, length)) = Len(ws) + 1
           /\ \A i \in 1 .. Len(ws) + 1 :
                  /\ Gaps(ws, length)[i].from = SpeechEnds(ws)[i - 1]
                  /\ Gaps(ws, length)[i].to = IF i <= Len(ws) THEN ws[i].start ELSE length
<1>1. Len(ws) \in Nat /\ \A i \in 1 .. Len(ws) : ws[i].start \in Int
  <2>1. \A i \in 1 .. Len(ws) : ws[i] \in Word
    OBVIOUS
  <2> QED
    BY <2>1 DEF Word
<1>2. ASSUME NEW i \in 1 .. Len(ws) + 1
      PROVE  [from |-> SpeechEnds(ws)[i - 1], to |-> IF i <= Len(ws) THEN ws[i].start ELSE length] \in Span
  <2>1. i - 1 \in 0 .. Len(ws)
    BY <1>1
  <2>2. SpeechEnds(ws)[i - 1] \in Int
    BY <2>1, EndsOf
  <2>3. i <= Len(ws) => i \in 1 .. Len(ws)
    BY <1>1
  <2>4. (IF i <= Len(ws) THEN ws[i].start ELSE length) \in Int
    BY <1>1, <2>3
  <2> QED
    BY <2>2, <2>4 DEF Span
<1>3. Gaps(ws, length) \in Seq(Span) /\ Len(Gaps(ws, length)) = Len(ws) + 1
  BY <1>1, <1>2 DEF Gaps
<1>4. \A i \in 1 .. Len(ws) + 1 :
          /\ Gaps(ws, length)[i].from = SpeechEnds(ws)[i - 1]
          /\ Gaps(ws, length)[i].to = IF i <= Len(ws) THEN ws[i].start ELSE length
  BY DEF Gaps
<1> QED
  BY <1>3, <1>4

\* The ranges of KeepRanges, the empty ones with them.
KeptFrom(silences, i) == IF i = 1 THEN 0 ELSE Resumes(silences[i - 1])
KeptTo(silences, i)   == IF silences[i].from - KeptFrom(silences, i) > 50
                         THEN silences[i].from - KeepPad \div 2 ELSE silences[i].from
KeptLast(silences, length) ==
    LET from == KeptFrom(silences, Len(silences) + 1)
    IN  IF length > from + 50 THEN length ELSE from
Ranges(silences, length) ==
    [i \in 1 .. Len(silences) + 1 |->
        [from |-> KeptFrom(silences, i),
         to   |-> IF i <= Len(silences) THEN KeptTo(silences, i) ELSE KeptLast(silences, length)]]

LEMMA RangesKept ==
    ASSUME NEW silences \in Seq(Span), NEW length \in Int
    PROVE  LET all == Ranges(silences, length) IN
           KeepRanges(silences, length) = Marked(all, [i \in DOMAIN all |-> all[i].to > all[i].from])
<1>1. Len(silences) \in Nat
  OBVIOUS
<1> DEFINE From(i) == IF i = 1 THEN 0 ELSE Resumes(silences[i - 1])
           To(i)   == IF silences[i].from - From(i) > 50
                      THEN silences[i].from - KeepPad \div 2 ELSE silences[i].from
           one     == [i \in 1 .. Len(silences) + 1 |->
                         IF i <= Len(silences)
                         THEN [from |-> From(i), to |-> To(i)]
                         ELSE [from |-> From(i),
                               to |-> IF length > From(i) + 50 THEN length ELSE From(i)]]
           all     == Ranges(silences, length)
<1>2. KeepRanges(silences, length) = Marked(one, [i \in DOMAIN one |-> one[i].to > one[i].from])
  BY DEF KeepRanges
<1>3. ASSUME NEW i \in 1 .. Len(silences) + 1 PROVE one[i] = all[i]
  <2>1. CASE i <= Len(silences)
    BY <2>1 DEF Ranges, KeptFrom, KeptTo
  <2>2. CASE ~ (i <= Len(silences))
    <3>1. i = Len(silences) + 1
      BY <1>1, <2>2
    <3> QED
      BY <2>2, <3>1 DEF Ranges, KeptFrom, KeptLast
  <2> QED
    BY <2>1, <2>2
<1>4. DOMAIN one = 1 .. Len(silences) + 1 /\ DOMAIN all = 1 .. Len(silences) + 1
  BY DEF Ranges
<1>5. one = [i \in 1 .. Len(silences) + 1 |-> one[i]] /\ all = [i \in 1 .. Len(silences) + 1 |-> all[i]]
  BY DEF Ranges
<1> HIDE DEF one, all
<1>6. one = all
  BY ONLY <1>3, <1>5
<1> QED
  BY <1>2, <1>6 DEF all

LEMMA RangesOf ==
    ASSUME NEW silences \in Seq(Span), NEW length \in Int
    PROVE  /\ \A i \in 1 .. Len(silences) + 1 : KeptFrom(silences, i) \in Int
           /\ \A i \in 1 .. Len(silences) : KeptTo(silences, i) \in Int
           /\ Ranges(silences, length) \in Seq(Span)
           /\ Len(Ranges(silences, length)) = Len(silences) + 1
<1>1. Len(silences) \in Nat /\ KeepPad \div 2 \in Int
  BY DEF KeepPad
<1>2. \A i \in 1 .. Len(silences) : silences[i].from \in Int /\ silences[i].to \in Int
  <2>1. \A i \in 1 .. Len(silences) : silences[i] \in Span
    OBVIOUS
  <2> QED
    BY <2>1 DEF Span
<1>3. ASSUME NEW i \in 1 .. Len(silences) + 1 PROVE KeptFrom(silences, i) \in Int
  <2>1. i # 1 => i - 1 \in 1 .. Len(silences)
    BY <1>1
  <2> QED
    BY <1>1, <1>2, <2>1 DEF Resumes, KeptFrom
<1>4. ASSUME NEW i \in 1 .. Len(silences) PROVE KeptTo(silences, i) \in Int
  <2>1. i \in 1 .. Len(silences) + 1
    BY <1>1
  <2> QED
    BY <1>1, <1>2, <1>3, <2>1 DEF KeptTo
<1>5. KeptLast(silences, length) \in Int
  <2>1. Len(silences) + 1 \in 1 .. Len(silences) + 1
    BY <1>1
  <2> QED
    BY <1>3, <2>1 DEF KeptLast
<1> DEFINE all == Ranges(silences, length)
<1>6. ASSUME NEW i \in 1 .. Len(silences) + 1 PROVE all[i] \in Span
  <2>1. i <= Len(silences) => i \in 1 .. Len(silences)
    BY <1>1
  <2>2. (IF i <= Len(silences) THEN KeptTo(silences, i) ELSE KeptLast(silences, length)) \in Int
    BY <1>4, <1>5, <2>1
  <2> QED
    BY <1>3, <2>2 DEF Span, Ranges
<1>7. all = [i \in 1 .. Len(silences) + 1 |-> all[i]]
  BY DEF Ranges
<1> HIDE DEF all
<1>8. all \in Seq(Span) /\ Len(all) = Len(silences) + 1
  BY ONLY <1>1, <1>6, <1>7
<1> QED
  BY <1>3, <1>4, <1>8 DEF all

LEMMA KeptType ==
    ASSUME NEW silences \in Seq(Span), NEW length \in Int
    PROVE  /\ KeepRanges(silences, length) \in Seq(Span)
           /\ Len(KeepRanges(silences, length)) <= Len(silences) + 1
<1>1. PICK all : all = Ranges(silences, length)
  OBVIOUS
<1>2. all \in Seq(Span) /\ Len(all) = Len(silences) + 1
  BY <1>1, RangesOf
<1>3. KeepRanges(silences, length) = Marked(all, [i \in DOMAIN all |-> all[i].to > all[i].from])
  BY <1>1, RangesKept
<1> QED
  BY <1>2, <1>3, MarkedType

\* No summand is larger than the sum.
LEMMA SummandOf ==
    ASSUME NEW s \in Seq(Nat), NEW i \in 1 .. Len(s)
    PROVE  Total(s) \in Nat /\ s[i] <= Total(s)
<1>1. s \in Seq(Int) /\ Len(s) \in Nat /\ s[i] \in Nat
  OBVIOUS
<1>2. i \in 0 .. Len(s) /\ i - 1 \in 0 .. Len(s) /\ Len(s) \in 0 .. Len(s)
  BY <1>1
<1>3. Sums(s)[i] = Sums(s)[i - 1] + s[i]
  BY <1>1, SumsOf
<1>4. /\ Sums(s)[i] \in Nat /\ Sums(s)[i] <= Total(s)
      /\ Sums(s)[i - 1] \in Nat /\ Sums(s)[Len(s)] \in Nat
  BY <1>2, SumsGrow
<1> QED
  BY <1>1, <1>3, <1>4 DEF Total

LEMMA SumIsNatural == ASSUME NEW s \in Seq(Nat) PROVE Total(s) \in Nat
<1>1. Len(s) \in 0 .. Len(s)
  OBVIOUS
<1> QED
  BY <1>1, SumsGrow DEF Total

LEMMA Distributes == \A x, a, b \in Int : x * (a + b) = x * a + x * b /\ x * a \in Int
  OBVIOUS

\* A linear bound on the summands is one on the sums.
LEMMA SumsBounded ==
    ASSUME NEW x \in Int, NEW y \in Int, NEW a \in Seq(Int), NEW b \in Seq(Int), NEW c \in Seq(Int),
           Len(b) = Len(a), Len(c) = Len(a),
           \A i \in 1 .. Len(a) : x * a[i] <= y * b[i] + x * c[i]
    PROVE  x * Total(a) <= y * Total(b) + x * Total(c)
<1>1. Len(a) \in Nat /\ \A i \in 1 .. Len(a) : a[i] \in Int /\ b[i] \in Int /\ c[i] \in Int
  OBVIOUS
<1>2. /\ Sums(a) \in [0 .. Len(a) -> Int] /\ Sums(a)[0] = 0
      /\ \A n \in 1 .. Len(a) : Sums(a)[n] = Sums(a)[n - 1] + a[n]
  BY SumsOf
<1>3. /\ Sums(b) \in [0 .. Len(a) -> Int] /\ Sums(b)[0] = 0
      /\ \A n \in 1 .. Len(a) : Sums(b)[n] = Sums(b)[n - 1] + b[n]
  BY SumsOf
<1>4. /\ Sums(c) \in [0 .. Len(a) -> Int] /\ Sums(c)[0] = 0
      /\ \A n \in 1 .. Len(a) : Sums(c)[n] = Sums(c)[n - 1] + c[n]
  BY SumsOf
<1> DEFINE T == {n \in 0 .. Len(a) : x * Sums(a)[n] <= y * Sums(b)[n] + x * Sums(c)[n]}
<1>5. 0 \in T
  BY <1>1, <1>2, <1>3, <1>4
<1>6. ASSUME NEW n \in 0 .. Len(a) - 1, n \in T PROVE n + 1 \in T
  <2>1. n + 1 \in 1 .. Len(a) /\ (n + 1) - 1 = n /\ n \in 0 .. Len(a)
    BY <1>1
  <2>2. PICK p \in Int, q \in Int, r \in Int : p = Sums(a)[n] /\ q = Sums(b)[n] /\ r = Sums(c)[n]
    BY <1>2, <1>3, <1>4, <2>1
  <2>3. PICK d \in Int, e \in Int, f \in Int : d = a[n + 1] /\ e = b[n + 1] /\ f = c[n + 1]
    BY <1>1, <2>1
  <2>4. Sums(a)[n + 1] = p + d /\ Sums(b)[n + 1] = q + e /\ Sums(c)[n + 1] = r + f
    BY <1>2, <1>3, <1>4, <2>1, <2>2, <2>3
  <2>5. x * p <= y * q + x * r
    BY <1>6, <2>2
  <2>6. x * d <= y * e + x * f
    BY <2>1, <2>3
  <2>7. /\ x * (p + d) = x * p + x * d /\ y * (q + e) = y * q + y * e
        /\ x * (r + f) = x * r + x * f
        /\ x * p \in Int /\ x * d \in Int /\ y * q \in Int /\ y * e \in Int /\ x * r \in Int /\ x * f \in Int
    BY Distributes
  <2>8. PICK xp \in Int, xd \in Int, yq \in Int, ye \in Int, xr \in Int, xf \in Int :
            xp = x * p /\ xd = x * d /\ yq = y * q /\ ye = y * e /\ xr = x * r /\ xf = x * f
    BY <2>7
  <2>9. xp + xd <= (yq + ye) + (xr + xf)
    BY <2>5, <2>6, <2>8
  <2>10. x * (p + d) <= y * (q + e) + x * (r + f)
    BY <2>7, <2>8, <2>9
  <2>11. n + 1 \in 0 .. Len(a)
    BY <1>1
  <2> QED
    BY <2>4, <2>10, <2>11
<1>7. 0 .. Len(a) \subseteq T
  <2> HIDE DEF T
  <2> QED
    BY <1>1, <1>5, <1>6, HandedUp
<1>8. Len(a) \in T
  BY <1>1, <1>7
<1> QED
  BY <1>8 DEF Total

\* Every scene of the storyboard lasts.
LEMMA ScenesLast ==
    ASSUME NEW s \in Scripts, NEW duration \in Nat
    PROVE  LET d == SceneDurations(s, duration) IN d \in Seq(Nat \ {0}) /\ d # <<>>
<1> DEFINE target  == 1000 * duration
           texts   == Sections(s)
           weight  == [i \in DOMAIN texts |-> AtLeast(Len(texts[i]), 3)]
           share   == [i \in DOMAIN texts |-> AtLeast((weight[i] * target) \div Total(weight), 1600)]
           scaled  == [i \in DOMAIN texts |-> AtLeast((share[i] * target) \div Total(share), 1520)]
           d       == [i \in DOMAIN texts |-> ((scaled[i] + 5) \div 10) * 10]
<1>1. SceneDurations(s, duration) = d
  BY DEF SceneDurations
<1>2. texts \in Seq(Texts) /\ Len(texts) > 0
  BY SectionsOf
<1> HIDE DEF texts
<1>3. DOMAIN texts = 1 .. Len(texts) /\ Len(texts) \in Nat /\ 1 \in 1 .. Len(texts)
  BY <1>2
<1>4. ASSUME NEW i \in 1 .. Len(texts) PROVE weight[i] \in Nat \ {0}
  <2>1. Len(texts[i]) \in Nat
    BY <1>2 DEF Texts
  <2>2. weight[i] = AtLeast(Len(texts[i]), 3)
    BY <1>3
  <2> QED
    BY <2>1, <2>2 DEF AtLeast
<1>5. weight \in Seq(Nat) /\ Len(weight) = Len(texts)
  <2>1. weight = [i \in 1 .. Len(texts) |-> weight[i]]
    BY <1>3
  <2> HIDE DEF weight
  <2> QED
    BY ONLY <1>3, <1>4, <2>1
<1> HIDE DEF weight
<1>6. Total(weight) \in Nat \ {0}
  BY <1>3, <1>4, <1>5, SummandOf
<1>7. target \in Nat
  OBVIOUS
<1> HIDE DEF target
<1>8. \A w, t \in Nat : \A n \in Nat \ {0} : (w * t) \div n \in Nat
  OBVIOUS
<1>9. ASSUME NEW i \in 1 .. Len(texts) PROVE share[i] \in Nat \ {0}
  <2>1. PICK q \in Nat : q = (weight[i] * target) \div Total(weight)
    BY <1>4, <1>6, <1>7, <1>8
  <2>2. share[i] = AtLeast(q, 1600)
    BY <1>3, <2>1
  <2> QED
    BY <2>1, <2>2 DEF AtLeast
<1>10. share \in Seq(Nat) /\ Len(share) = Len(texts)
  <2>1. share = [i \in 1 .. Len(texts) |-> share[i]]
    BY <1>3
  <2> HIDE DEF share
  <2> QED
    BY ONLY <1>3, <1>9, <2>1
<1> HIDE DEF share
<1>11. Total(share) \in Nat \ {0}
  BY <1>3, <1>9, <1>10, SummandOf
<1>12. ASSUME NEW i \in 1 .. Len(texts) PROVE d[i] \in Nat \ {0}
  <2>1. PICK q \in Nat : q = (share[i] * target) \div Total(share)
    BY <1>7, <1>8, <1>9, <1>11
  <2>2. scaled[i] = AtLeast(q, 1520)
    BY <1>3, <2>1
  <2>3. PICK m \in Nat : m = scaled[i] /\ m >= 1520
    BY <2>1, <2>2 DEF AtLeast
  <2> HIDE DEF scaled
  <2>4. d[i] = ((m + 5) \div 10) * 10
    BY <1>3, <2>3
  <2>5. ((m + 5) \div 10) * 10 \in Nat \ {0}
    <3>1. PICK tens \in Nat \ {0} : tens = (m + 5) \div 10
      BY ONLY <2>3, m \in Nat
    <3> QED
      BY ONLY <3>1, tens \in Nat \ {0}
  <2> QED
    BY <2>4, <2>5
<1>13. d \in Seq(Nat \ {0}) /\ Len(d) = Len(texts)
  <2>1. d = [i \in 1 .. Len(texts) |-> d[i]]
    BY <1>3
  <2> HIDE DEF d
  <2> QED
    BY ONLY <1>3, <1>12, <2>1
<1> HIDE DEF d
<1> QED
  BY <1>1, <1>2, <1>13

\* By how much a clip may outlast its share of the narration.
Lift(c) == IF c = 1000 THEN 1000 ELSE 1

\* What a clip may last longer than its share of the narration, in whole frames.
Lifts(cs, fps) == [i \in DOMAIN cs |-> Lift(cs[i]) + UpTo(1000, fps)]

\* A clip is its share of the narration, rounded, unless it is lifted to a second.
LEMMA ClipShare ==
    ASSUME NEW d \in Nat, NEW length \in Nat, NEW planned \in Nat \ {0},
           NEW c, c = ClipDuration(d, length, planned)
    PROVE  c \in Nat /\ (2 * planned) * c <= (2 * length) * d + (2 * planned) * Lift(c)
<1>1. PICK x \in Nat : x = d * length
  <2>1. \A a, b \in Nat : a * b \in Nat
    OBVIOUS
  <2> QED
    BY <2>1
<1>2. 2 * d * length = 2 * x /\ (2 * length) * d = 2 * x
  BY <1>1
<1> DEFINE q == (2 * x + planned) \div (2 * planned)
<1>3. q \in Nat /\ (2 * planned) * q <= 2 * x + planned
  <2>1. \A a \in Nat : \A n \in Nat \ {0} : a \div n \in Nat /\ n * (a \div n) <= a
    OBVIOUS
  <2>2. 2 * x + planned \in Nat /\ 2 * planned \in Nat \ {0}
    OBVIOUS
  <2> QED
    BY <2>1, <2>2
<1>4. c = AtLeast(q, 1000)
  BY <1>2 DEF ClipDuration
<1> HIDE DEF q
<1>5. CASE c = 1000
  <2>1. (2 * planned) * 1000 <= 2 * x + (2 * planned) * 1000
    OBVIOUS
  <2> QED
    BY <1>2, <1>5, <2>1 DEF Lift
<1>6. CASE c # 1000
  <2>1. c = q
    BY <1>4, <1>6 DEF AtLeast
  <2>2. (2 * planned) * q <= 2 * x + (2 * planned) * 1
    <3>1. PICK y \in Int : y = (2 * planned) * q
      BY <1>3
    <3> QED
      BY <1>3, <3>1
  <2> QED
    BY <1>2, <1>3, <1>6, <2>1, <2>2 DEF Lift
<1> QED
  BY <1>5, <1>6

LEMMA FactorOut ==
    ASSUME NEW x \in Nat \ {0}, NEW a \in Int, NEW b \in Int, x * a <= x * b
    PROVE  a <= b
<1> SUFFICES ASSUME b + 1 <= a PROVE FALSE
  OBVIOUS
<1>1. x * (b + 1) <= x * a
  BY Larger
<1>2. x * (b + 1) = x * b + x
  OBVIOUS
<1>3. x * a \in Int /\ x * b \in Int
  BY Distributes
<1>4. PICK p \in Int, q \in Int : p = x * a /\ q = x * b
  BY <1>3
<1>5. q + x <= p /\ p <= q
  BY <1>1, <1>2, <1>4
<1> QED
  BY ONLY <1>5, p \in Int, q \in Int, x \in Nat \ {0}

LEMMA Quotient ==
    ASSUME NEW a \in Nat, NEW n \in Nat \ {0}
    PROVE  UpTo(a, n) \in Nat /\ a <= n * UpTo(a, n) /\ n * UpTo(a, n) <= (a + n) - 1
<1>1. \A x \in Nat : x \div n \in Nat /\ n * (x \div n) <= x /\ x < n * (x \div n) + n
  OBVIOUS
<1>2. PICK q \in Nat, y \in Nat : q = UpTo(a, n) /\ y = n * q /\ y <= (a + n) - 1 /\ (a + n) - 1 < y + n
  <2>1. (a + n) - 1 \in Nat
    OBVIOUS
  <2>2. \A q \in Nat : n * q \in Nat
    OBVIOUS
  <2> QED
    BY <1>1, <2>1, <2>2 DEF UpTo
<1>3. a <= y
  BY ONLY <1>2, y \in Nat, a \in Nat, n \in Nat \ {0}
<1> QED
  BY <1>2, <1>3

\* The frames of a clip: less than one more than its duration.
LEMMA FramesBound ==
    ASSUME NEW c \in Nat, NEW fps \in Nat \ {0}
    PROVE  /\ Frames(c, fps) \in Nat /\ UpTo(1000, fps) \in Nat
           /\ 1000 * Frames(c, fps) <= fps * (c + UpTo(1000, fps))
<1>1. PICK x \in Nat : x = c * fps
  <2>1. \A a, b \in Nat : a * b \in Nat
    OBVIOUS
  <2> QED
    BY <2>1
<1>2. PICK f \in Nat : f = Frames(c, fps) /\ 1000 * f <= (x + 1000) - 1
  BY <1>1, Quotient DEF Frames
<1>3. PICK l \in Nat : l = UpTo(1000, fps) /\ 1000 <= fps * l
  BY Quotient
<1>4. PICK y \in Int : y = fps * l
  BY Distributes
<1>5. fps * (c + l) = x + y
  BY <1>1, <1>4, Distributes
<1>6. 1000 * f <= x + y
  BY <1>2, <1>3, <1>4
<1> QED
  BY <1>2, <1>3, <1>5, <1>6

LEMMA Nothing ==
    ASSUME NEW z \in Seq(Int), \A i \in 1 .. Len(z) : z[i] = 0
    PROVE  Total(z) = 0
<1>1. \A i \in 1 .. Len(z) : z[i] = 0
  OBVIOUS
<1>2. /\ Len(z) \in Nat /\ Sums(z)[0] = 0
      /\ \A k \in 1 .. Len(z) : Sums(z)[k] = Sums(z)[k - 1] + z[k]
  BY <1>1, SumsOf
<1> DEFINE T == {k \in 0 .. Len(z) : Sums(z)[k] = 0}
<1>3. 0 \in T
  BY <1>2
<1>4. ASSUME NEW k \in 0 .. Len(z) - 1, k \in T PROVE k + 1 \in T
  <2>1. k + 1 \in 1 .. Len(z) /\ (k + 1) - 1 = k
    BY <1>2
  <2>2. Sums(z)[k + 1] = Sums(z)[k] + z[k + 1] /\ z[k + 1] = 0 /\ Sums(z)[k] = 0
    BY <1>1, <1>2, <1>4, <2>1
  <2> QED
    BY <2>1, <2>2
<1>5. 0 .. Len(z) \subseteq T
  <2> HIDE DEF T
  <2> QED
    BY <1>2, <1>3, <1>4, HandedUp
<1> QED
  BY <1>1, <1>2, <1>5 DEF Total

\* The pictures: as long as the clips with a frame more for each, at most.
LEMMA PictureBound ==
    ASSUME NEW fps \in Nat \ {0}, NEW cs \in Seq(Nat), NEW longer \in Seq(Nat),
           Len(longer) = Len(cs), \A i \in 1 .. Len(cs) : longer[i] = cs[i] + UpTo(1000, fps)
    PROVE  PictureLength(cs, fps) \in Nat /\ PictureLength(cs, fps) <= Total(longer)
<1>1. Len(cs) \in Nat /\ DOMAIN cs = 1 .. Len(cs)
  OBVIOUS
<1> DEFINE frames == [i \in DOMAIN cs |-> Frames(cs[i], fps)]
           zeros == [i \in 1 .. Len(cs) |-> 0]
<1>2. ASSUME NEW i \in 1 .. Len(cs)
      PROVE  frames[i] \in Nat /\ 1000 * frames[i] <= fps * longer[i]
  <2>1. PICK c \in Nat : c = cs[i]
    OBVIOUS
  <2>2. frames[i] = Frames(c, fps) /\ longer[i] = c + UpTo(1000, fps)
    BY <1>1, <2>1
  <2> HIDE DEF frames
  <2> QED
    BY <2>2, FramesBound
<1>3. frames \in Seq(Nat) /\ Len(frames) = Len(cs)
  <2>1. frames = [i \in 1 .. Len(cs) |-> frames[i]]
    BY <1>1
  <2> HIDE DEF frames
  <2> QED
    BY ONLY <1>1, <1>2, <2>1
<1>4. PictureLength(cs, fps) = UpTo(1000 * Total(frames), fps)
  BY DEF PictureLength
<1>5. zeros \in Seq(Int) /\ Len(zeros) = Len(cs) /\ Total(zeros) = 0
  <2>1. zeros \in Seq(Int) /\ Len(zeros) = Len(cs) /\ \A i \in 1 .. Len(zeros) : zeros[i] = 0
    BY <1>1
  <2> HIDE DEF zeros
  <2> QED
    BY <2>1, Nothing
<1>6. \A i \in 1 .. Len(cs) : zeros[i] = 0
  OBVIOUS
<1> HIDE DEF frames, zeros
<1>7. 1000 * Total(frames) <= fps * Total(longer) + 1000 * Total(zeros)
  <2>1. frames \in Seq(Int) /\ longer \in Seq(Int) /\ Len(longer) = Len(frames) /\ Len(zeros) = Len(frames)
    BY <1>3, <1>5
  <2>2. PICK x \in Int, y \in Int : x = 1000 /\ y = fps
    OBVIOUS
  <2>3. ASSUME NEW i \in 1 .. Len(frames)
        PROVE  x * frames[i] <= y * longer[i] + x * zeros[i]
    <3>1. i \in 1 .. Len(cs)
      BY <1>3
    <3>2. PICK g \in Nat, m \in Nat : g = frames[i] /\ m = longer[i]
      BY <1>2, <3>1
    <3>3. PICK z \in Int : z = fps * m
      BY Distributes
    <3>4. 1000 * g <= z /\ zeros[i] = 0
      BY <1>2, <1>6, <3>1, <3>2, <3>3
    <3>5. 1000 * g <= z + 1000 * 0
      BY <3>4
    <3> QED
      BY <2>2, <3>2, <3>3, <3>4, <3>5
  <2>4. x * Total(frames) <= y * Total(longer) + x * Total(zeros)
    BY ONLY <1>5, <2>1, <2>3, x \in Int, y \in Int, SumsBounded
  <2> QED
    BY <2>2, <2>4
<1>8. PICK g \in Nat, m \in Nat : g = Total(frames) /\ m = Total(longer)
  BY <1>3, SumIsNatural
<1>9. PICK y \in Int : y = fps * m
  BY Distributes
<1>10. PICK h \in Nat : h = 1000 * g /\ h <= y
  <2>1. 1000 * g \in Nat /\ 1000 * g <= y
    BY <1>5, <1>7, <1>8, <1>9
  <2> QED
    BY <2>1
<1>11. PICK q \in Nat : q = UpTo(h, fps) /\ fps * q <= (h + fps) - 1
  <2>1. UpTo(h, fps) \in Nat /\ fps * UpTo(h, fps) <= (h + fps) - 1
    BY ONLY Quotient, h \in Nat, fps \in Nat \ {0}
  <2> QED
    BY <2>1
<1>12. q <= m
  <2> SUFFICES ASSUME m + 1 <= q PROVE FALSE
    OBVIOUS
  <2>1. fps * (m + 1) <= fps * q
    BY Larger
  <2>2. fps * (m + 1) = y + fps
    BY <1>9, Distributes
  <2>3. PICK z \in Int : z = fps * q
    BY Distributes
  <2>4. y + fps <= z /\ z <= (h + fps) - 1
    BY <1>11, <2>1, <2>2, <2>3
  <2> QED
    BY ONLY <1>10, <2>4, y \in Int, z \in Int, h \in Nat, fps \in Nat \ {0}
<1> QED
  BY <1>4, <1>8, <1>10, <1>11, <1>12

\* The pictures: at most the narration, and for each clip a second if it was lifted, or
\* its rounding, and a frame.
LEMMA PicturesAddUp ==
    ASSUME NEW ds \in Seq(Nat \ {0}), ds # <<>>, NEW length \in Nat, NEW fps \in Nat \ {0},
           NEW cs, cs = [i \in DOMAIN ds |-> ClipDuration(ds[i], length, Total(ds))]
    PROVE  /\ PictureLength(cs, fps) \in Nat
           /\ AtLeast(PictureLength(cs, fps), length) <= length + Total(Lifts(cs, fps))
<1>1. ds \in Seq(Nat) /\ Len(ds) \in Nat /\ DOMAIN ds = 1 .. Len(ds) /\ 1 \in 1 .. Len(ds)
  OBVIOUS
<1>2. \A i \in 1 .. Len(ds) : ds[i] \in Nat \ {0}
  OBVIOUS
<1>3. PICK planned \in Nat \ {0} : planned = Total(ds)
  BY <1>1, <1>2, SummandOf
<1>14. PICK frame \in Nat : frame = UpTo(1000, fps)
  <2>1. UpTo(1000, fps) \in Nat
    BY ONLY Quotient, fps \in Nat \ {0}
  <2> QED
    BY <2>1
<1> DEFINE more == Lifts(cs, fps)
           longer == [i \in 1 .. Len(ds) |-> cs[i] + frame]
<1>4. ASSUME NEW i \in 1 .. Len(ds)
      PROVE  /\ cs[i] \in Nat
             /\ (2 * planned) * (cs[i] + frame)
                    <= (2 * length) * ds[i] + (2 * planned) * (Lift(cs[i]) + frame)
  <2>1. PICK e \in Nat : e = ds[i]
    BY <1>2
  <2>2. PICK c : c = ClipDuration(e, length, planned)
    OBVIOUS
  <2>3. cs[i] = c
    BY <1>1, <1>3, <2>1, <2>2
  <2>4. c \in Nat /\ (2 * planned) * c <= (2 * length) * e + (2 * planned) * Lift(c)
    BY <2>2, ClipShare
  <2>5. PICK u \in Int, v \in Int, w \in Int, x \in Int :
            /\ u = (2 * planned) * c /\ v = (2 * length) * e
            /\ w = (2 * planned) * Lift(c) /\ x = (2 * planned) * frame
    <3>1. c \in Int /\ e \in Int /\ Lift(c) \in Int /\ frame \in Int /\ 2 * planned \in Int /\ 2 * length \in Int
      BY <2>4 DEF Lift
    <3> QED
      BY <3>1, Distributes
  <2>6. (2 * planned) * (c + frame) = u + x /\ (2 * planned) * (Lift(c) + frame) = w + x
    <3>1. c \in Int /\ Lift(c) \in Int /\ frame \in Int /\ 2 * planned \in Int
      BY <2>4 DEF Lift
    <3> QED
      BY <2>5, <3>1, Distributes
  <2>7. u + x <= v + (w + x)
    BY <2>4, <2>5
  <2> QED
    BY <2>1, <2>3, <2>4, <2>5, <2>6, <2>7
<1>5. DOMAIN cs = 1 .. Len(ds)
  BY <1>1
<1>6. cs = [i \in 1 .. Len(ds) |-> cs[i]]
  BY <1>1
<1>7. cs \in Seq(Nat) /\ Len(cs) = Len(ds)
  BY ONLY <1>1, <1>4, <1>6
<1>8. ASSUME NEW i \in 1 .. Len(ds)
      PROVE  more[i] \in Nat /\ more[i] = Lift(cs[i]) + frame
  BY <1>5, <1>14 DEF Lift, Lifts
<1>9. more \in Seq(Nat) /\ Len(more) = Len(ds)
  <2>1. more = [i \in 1 .. Len(ds) |-> more[i]]
    BY <1>5 DEF Lifts
  <2> HIDE DEF more
  <2> QED
    BY ONLY <1>1, <1>8, <2>1
<1>15. longer \in Seq(Nat) /\ Len(longer) = Len(ds) /\ \A i \in 1 .. Len(ds) : longer[i] = cs[i] + frame
  <2>1. ASSUME NEW i \in 1 .. Len(ds) PROVE cs[i] + frame \in Nat
    <3>1. PICK c \in Nat : c = cs[i]
      BY <1>4
    <3> QED
      BY <3>1
  <2> QED
    BY <1>1, <2>1
<1> HIDE DEF more, longer
<1>10. \A i \in 1 .. Len(ds) :
           (2 * planned) * longer[i] <= (2 * length) * ds[i] + (2 * planned) * more[i]
  BY <1>4, <1>8, <1>15
<1>11. (2 * planned) * Total(longer) <= (2 * length) * planned + (2 * planned) * Total(more)
  <2>1. longer \in Seq(Int) /\ ds \in Seq(Int) /\ more \in Seq(Int)
    BY <1>1, <1>9, <1>15
  <2>2. 2 * planned \in Int /\ 2 * length \in Int
    OBVIOUS
  <2> QED
    BY <1>3, <1>9, <1>10, <1>15, <2>1, <2>2, SumsBounded
<1>12. PICK a \in Nat, m \in Nat : a = Total(longer) /\ m = Total(more)
  BY <1>9, <1>15, SumIsNatural
<1>13. a <= length + m
  <2>1. (2 * length) * planned + (2 * planned) * m = (2 * planned) * (length + m)
    OBVIOUS
  <2>2. (2 * planned) * a <= (2 * planned) * (length + m)
    BY <1>11, <1>12, <2>1
  <2>3. 2 * planned \in Nat \ {0} /\ length + m \in Int
    OBVIOUS
  <2> QED
    BY <2>2, <2>3, FactorOut
<1>16. PICK p \in Nat : p = PictureLength(cs, fps) /\ p <= a
  <2>1. ASSUME NEW i \in 1 .. Len(cs) PROVE longer[i] = cs[i] + UpTo(1000, fps)
    <3>1. longer[i] = cs[i] + frame
      BY <1>7, <1>15
    <3> QED
      BY <1>14, <3>1
  <2>2. Len(longer) = Len(cs)
    BY <1>7, <1>15
  <2>3. PictureLength(cs, fps) \in Nat /\ PictureLength(cs, fps) <= Total(longer)
    BY ONLY <1>7, <1>15, <2>1, <2>2, fps \in Nat \ {0}, PictureBound
  <2> QED
    BY <1>12, <2>3
<1>17. AtLeast(p, length) <= length + m
  BY <1>13, <1>16 DEF AtLeast
<1> QED
  BY <1>12, <1>16, <1>17 DEF more

\* The storyboard's scenes last, the narration is a sum of what was spoken and kept, and
\* the clips are the shares of the narration.
DInv ==
    /\ phase \notin {"script_writing", "storyboard"} =>
           durations \in Seq(Nat \ {0}) /\ durations # <<>>
    /\ phase \notin {"script_writing", "storyboard", "narration"} => audio \in Nat
    /\ phase \in {"av_mux", "qa_sync", "burn_captions", "creative_qa"} =>
           clips = [i \in DOMAIN durations |-> ClipDuration(durations[i], audio, Total(durations))]

\* The audio that a cut leaves.
LEMMA CutLength ==
    ASSUME NInv, DInv, CutSilences
    PROVE  audio' \in Nat
<1>1. words \in Seq(Word) /\ audio \in Nat
  BY DEF NInv, DInv, CutSilences
<1> DEFINE gaps == Gaps(words, audio)
           keep == KeepRanges(Silences(gaps), audio)
           left == [i \in DOMAIN keep |-> AtLeast(keep[i].to - keep[i].from, 50)]
<1>2. keep \in Seq(Span)
  <2>1. gaps \in Seq(Span)
    BY <1>1, GapsOf
  <2> HIDE DEF gaps
  <2>2. Silences(gaps) \in Seq(Span)
    BY <2>1, MarkedType DEF Silences
  <2> QED
    BY <1>1, <2>2, KeptType
<1>3. audio' = audio \/ audio' = Total(left)
  BY DEF CutSilences
<1> HIDE DEF keep
<1>4. ASSUME NEW i \in 1 .. Len(keep) PROVE left[i] \in Nat
  <2>1. keep[i] \in Span
    BY <1>2
  <2>2. PICK a \in Int, b \in Int : a = keep[i].from /\ b = keep[i].to
    BY <2>1 DEF Span
  <2>3. left[i] = AtLeast(b - a, 50)
    BY <1>2, <2>2
  <2> QED
    BY <2>3 DEF AtLeast
<1>5. left \in Seq(Nat)
  <2>1. Len(keep) \in Nat /\ left = [i \in 1 .. Len(keep) |-> left[i]]
    BY <1>2
  <2> HIDE DEF left
  <2> QED
    BY ONLY <1>4, <2>1
<1> HIDE DEF left
<1> QED
  BY <1>1, <1>3, <1>5, SumIsNatural

LEMMA DurationsStart == TimingInit => DInv
  BY DEF TimingInit, DInv

LEMMA DurationsStep == NInv /\ DInv /\ [TimingNext]_timing => DInv'
<1> SUFFICES ASSUME NInv, DInv, [TimingNext]_timing PROVE DInv'
  OBVIOUS
<1>1. CASE WriteScript
  BY <1>1 DEF WriteScript, DInv
<1>2. CASE DrawStoryboard
  <2>1. /\ phase = "storyboard" /\ phase' = "narration"
        /\ durations' = SceneDurations(script, brief.duration)
    BY <1>2 DEF DrawStoryboard
  <2>2. script \in Scripts /\ brief \in Briefs
    BY <2>1 DEF NInv
  <2>3. PICK d \in Nat : d = brief.duration
    BY <2>2, BriefOf
  <2>4. durations' \in Seq(Nat \ {0}) /\ durations' # <<>>
    BY <2>1, <2>2, <2>3, ScenesLast
  <2> QED
    BY <2>1, <2>4 DEF DInv
<1>3. ASSUME NEW ws, NEW length \in Nat, phase = "narration", Speak(NextText, ws, length)
      PROVE  DInv'
  <2>1. cursor \in Nat /\ durations \in Seq(Nat \ {0}) /\ durations # <<>>
    BY <1>3 DEF NInv, DInv
  <2>2. audio' = cursor + length /\ durations' = durations /\ phase' \in {"autocleanup", "narration"}
    BY <1>3 DEF Speak
  <2>3. audio' \in Nat
    BY <2>1, <2>2
  <2> QED
    BY <2>1, <2>2, <2>3 DEF DInv
<1>4. CASE SpeakEdge
  <2>1. phase = "narration"
    BY <1>4 DEF SpeakEdge
  <2>2. PICK pace \in Paces :
            Speak(NextText, ByRate(NextText, pace * Len(NextText)), pace * Len(NextText))
    BY <1>4 DEF SpeakEdge
  <2>3. PICK length \in Nat : length = pace * Len(NextText)
    <3>1. pace \in Nat
      BY NarrationAssumption DEF NarrationAssumption
    <3>2. Len(NextText) \in Nat
      BY <2>1, NextIsText DEF Texts
    <3>3. \A a, b \in Nat : a * b \in Nat
      OBVIOUS
    <3> QED
      BY <3>1, <3>2, <3>3
  <2> QED
    BY <1>3, <2>1, <2>2, <2>3
<1>5. CASE SpeakSynth
  <2>1. phase = "narration" /\ Speak(NextText, SynthWords(NextText), SynthLength(NextText))
    BY <1>5 DEF SpeakSynth
  <2>2. SynthLength(NextText) \in Nat
    BY <2>1, NextIsText, SynthIsTimed
  <2> QED
    BY <1>3, <2>1, <2>2
<1>6. CASE CutSilences
  <2>1. phase = "autocleanup" /\ phase' = "editorial_assembly" /\ durations' = durations
    BY <1>6 DEF CutSilences
  <2>2. audio' \in Nat
    BY <1>6, CutLength
  <2> QED
    BY <2>1, <2>2 DEF DInv
<1>7. CASE Assemble
  <2>1. /\ phase = "editorial_assembly" /\ phase' = "av_mux"
        /\ clips' = [i \in DOMAIN durations |-> ClipDuration(durations[i], audio, Total(durations))]
        /\ durations' = durations /\ audio' = audio
    BY <1>7 DEF Assemble
  <2>2. clips' = [i \in DOMAIN durations' |-> ClipDuration(durations'[i], audio', Total(durations'))]
    BY <2>1
  <2> QED
    BY <2>1, <2>2 DEF DInv
<1>8. CASE Mux \/ Caption
  <2>1. /\ phase \in {"av_mux", "burn_captions"}
        /\ phase' \in {"qa_sync", "burn_captions", "creative_qa"}
        /\ durations' = durations /\ audio' = audio /\ clips' = clips
    BY <1>8 DEF Mux, Caption
  <2> QED
    BY <2>1 DEF DInv
<1>9. CASE UNCHANGED timing
  BY <1>9 DEF timing, DInv
<1> QED
  BY <1>1, <1>2, <1>4, <1>5, <1>6, <1>7, <1>8, <1>9 DEF TimingNext

\* DriftOnlyFromShortClips: the drift that stage_av_mux refuses is at most what the least
\* duration of a clip, its rounding and its last frame add, whatever the script, the voices,
\* the cuts and the frame rate.
THEOREM DriftIsFromShortClips == TimingSpec => []DriftOnlyFromShortClips
<1>1. NInv /\ DInv => DriftOnlyFromShortClips
  <2> SUFFICES ASSUME NInv, DInv, phase \in {"av_mux", "qa_sync", "burn_captions", "creative_qa"}
               PROVE  Media <= audio + Total(Lifts(clips, brief.fps))
    BY DEF DriftOnlyFromShortClips, Lifts, Lift
  <2>1. /\ durations \in Seq(Nat \ {0}) /\ durations # <<>> /\ audio \in Nat
        /\ clips = [i \in DOMAIN durations |-> ClipDuration(durations[i], audio, Total(durations))]
    BY DEF DInv
  <2>2. PICK ds \in Seq(Nat \ {0}), length \in Nat, fps \in Nat \ {0}, cs \in {clips} :
            ds = durations /\ length = audio /\ fps = brief.fps
    BY <2>1, BriefOf DEF NInv
  <2>3. ds # <<>> /\ cs = [i \in DOMAIN ds |-> ClipDuration(ds[i], length, Total(ds))]
    BY <2>1, <2>2
  <2>4. AtLeast(PictureLength(cs, fps), length) <= length + Total(Lifts(cs, fps))
    BY <2>3, PicturesAddUp
  <2> QED
    BY <2>2, <2>4 DEF Media
<1> QED
  BY <1>1, TimingStarts, TimingSteps, DurationsStart, DurationsStep, PTL DEF TimingSpec
-----------------------------------------------------------------------------
\* How late the last word is: what a cut takes from the audio, and from the words.

LEMMA FunctionIsSeq ==
    ASSUME NEW S, NEW n \in Nat, NEW f \in [1 .. n -> S]
    PROVE  f \in Seq(S) /\ Len(f) = n
  OBVIOUS

LEMMA SumsType ==
    ASSUME NEW s \in Seq(Int)
    PROVE  Total(s) \in Int /\ Total(s) = Sums(s)[Len(s)] /\ \A n \in 0 .. Len(s) : Sums(s)[n] \in Int
<1>1. Len(s) \in 0 .. Len(s) /\ Sums(s) \in [0 .. Len(s) -> Int]
  BY SumsOf
<1> QED
  BY <1>1 DEF Total

LEMMA TotalAppend ==
    ASSUME NEW s \in Seq(Int), NEW v \in Int
    PROVE  Total(Append(s, v)) = Total(s) + v
<1> DEFINE t == Append(s, v)
<1>1. Len(s) \in Nat /\ t \in Seq(Int) /\ Len(t) = Len(s) + 1 /\ t[Len(s) + 1] = v
      /\ \A i \in 1 .. Len(s) : t[i] = s[i]
  OBVIOUS
<1> HIDE DEF t
<1>2. /\ Sums(s) \in [0 .. Len(s) -> Int] /\ Sums(s)[0] = 0
      /\ \A n \in 1 .. Len(s) : Sums(s)[n] = Sums(s)[n - 1] + s[n]
  BY SumsOf
<1>3. /\ Sums(t) \in [0 .. Len(s) + 1 -> Int] /\ Sums(t)[0] = 0
      /\ \A n \in 1 .. Len(s) + 1 : Sums(t)[n] = Sums(t)[n - 1] + t[n]
  BY <1>1, SumsOf
<1> DEFINE T == {n \in 0 .. Len(s) : Sums(t)[n] = Sums(s)[n]}
<1>4. 0 \in T
  BY <1>1, <1>2, <1>3
<1>5. ASSUME NEW n \in 0 .. Len(s) - 1, n \in T PROVE n + 1 \in T
  <2>1. /\ n + 1 \in 1 .. Len(s) /\ (n + 1) - 1 = n /\ n + 1 \in 0 .. Len(s)
        /\ n + 1 \in 1 .. Len(s) + 1
    BY <1>1
  <2>2. Sums(t)[n + 1] = Sums(t)[n] + t[n + 1]
    BY <1>3, <2>1
  <2>3. Sums(s)[n + 1] = Sums(s)[n] + s[n + 1]
    BY <1>2, <2>1
  <2>4. t[n + 1] = s[n + 1]
    BY <1>1, <2>1
  <2> QED
    BY <1>5, <2>1, <2>2, <2>3, <2>4
<1>6. 0 .. Len(s) \subseteq T
  <2> HIDE DEF T
  <2> QED
    BY <1>1, <1>4, <1>5, HandedUp
<1>7. Sums(t)[Len(s)] = Sums(s)[Len(s)] /\ Len(s) + 1 \in 1 .. Len(s) + 1 /\ (Len(s) + 1) - 1 = Len(s)
  BY <1>1, <1>6
<1>8. Sums(t)[Len(s) + 1] = Sums(s)[Len(s)] + v
  BY <1>1, <1>3, <1>7
<1> QED
  BY <1>1, <1>8 DEF Total, t

\* What a function makes of the elements of a sequence.
Each(F, s) == [i \in DOMAIN s |-> F[s[i]]]

LEMMA EachOf ==
    ASSUME NEW S, NEW F \in [S -> Int], NEW s \in Seq(S)
    PROVE  Each(F, s) \in Seq(Int) /\ Len(Each(F, s)) = Len(s)
<1>1. Len(s) \in Nat /\ DOMAIN s = 1 .. Len(s) /\ \A i \in 1 .. Len(s) : s[i] \in S
  OBVIOUS
<1>2. Each(F, s) = [i \in 1 .. Len(s) |-> F[s[i]]]
  BY <1>1 DEF Each
<1>3. \A i \in 1 .. Len(s) : F[s[i]] \in Int
  BY <1>1
<1> QED
  BY ONLY <1>1, <1>2, <1>3

LEMMA EachAppend ==
    ASSUME NEW S, NEW F \in [S -> Int], NEW s \in Seq(S), NEW e \in S
    PROVE  Each(F, Append(s, e)) = Append(Each(F, s), F[e])
<1>1. Len(s) \in Nat /\ Append(s, e) \in Seq(S)
  OBVIOUS
<1>2. PICK a : a = Each(F, s) /\ a \in Seq(Int) /\ Len(a) = Len(s)
  BY EachOf
<1>3. PICK b : b = Each(F, Append(s, e)) /\ b \in Seq(Int) /\ Len(b) = Len(s) + 1
  <2>1. Len(Append(s, e)) = Len(s) + 1
    OBVIOUS
  <2> QED
    BY <1>1, <2>1, EachOf
<1>4. F[e] \in Int
  OBVIOUS
<1>5. PICK v \in Int : v = F[e]
  BY <1>4
<1>6. ASSUME NEW i \in 1 .. Len(s) + 1 PROVE b[i] = Append(a, v)[i]
  <2>1. DOMAIN Append(s, e) = 1 .. Len(s) + 1 /\ DOMAIN s = 1 .. Len(s)
    OBVIOUS
  <2>2. b[i] = F[Append(s, e)[i]]
    BY <1>3, <2>1 DEF Each
  <2>3. CASE i <= Len(s)
    <3>1. i \in 1 .. Len(s)
      BY <1>1, <2>3
    <3>2. Append(s, e)[i] = s[i] /\ Append(a, v)[i] = a[i]
      BY <1>2, <3>1
    <3>3. a[i] = F[s[i]]
      BY <1>2, <2>1, <3>1 DEF Each
    <3> QED
      BY <2>2, <3>2, <3>3
  <2>4. CASE i = Len(s) + 1
    <3>1. Append(s, e)[i] = e /\ Append(a, v)[i] = v
      BY <1>2, <2>4
    <3> QED
      BY <1>5, <2>2, <3>1
  <2>5. i <= Len(s) \/ i = Len(s) + 1
    BY <1>1
  <2> QED
    BY <2>3, <2>4, <2>5
<1>7. Append(a, v) \in Seq(Int) /\ Len(Append(a, v)) = Len(s) + 1
  BY <1>2
<1>8. b = Append(a, v)
  <2>1. Len(b) = Len(Append(a, v)) /\ \A i \in 1 .. Len(b) : b[i] = Append(a, v)[i]
    BY <1>3, <1>6, <1>7
  <2> QED
    BY <1>3, <1>7, <2>1, SeqEqual
<1> QED
  BY <1>2, <1>3, <1>5, <1>8

\* What an element contributes to a sum over the marked ones.
Part(F, s, mark, i) == IF mark[i] THEN F[s[i]] ELSE 0

\* A sum over the marked elements is one over all of them.
LEMMA MarkedTotal ==
    ASSUME NEW S, NEW s \in Seq(S), NEW mark, NEW F \in [S -> Int],
           NEW all \in Seq(Int), Len(all) = Len(s),
           \A i \in 1 .. Len(s) : all[i] = Part(F, s, mark, i)
    PROVE  Total(Each(F, Marked(s, mark))) = Total(all)
<1>1. Len(s) \in Nat /\ DOMAIN s = 1 .. Len(s) /\ \A i \in 1 .. Len(s) : s[i] \in S
  OBVIOUS
<1>5. PICK f : Collects(f, s, mark) /\ f[Len(s)] = Marked(s, mark)
  BY MarkedCollects
<1>6. \A n \in 0 .. Len(s) : f[n] \in Seq(S)
  BY <1>5, MarkedOf
<1>7. /\ Sums(all) \in [0 .. Len(s) -> Int] /\ Sums(all)[0] = 0
      /\ \A n \in 1 .. Len(s) : Sums(all)[n] = Sums(all)[n - 1] + all[n]
  BY SumsOf
<1> DEFINE T == {n \in 0 .. Len(s) : Total(Each(F, f[n])) = Sums(all)[n]}
<1>8. 0 \in T
  <2>1. f[0] = <<>>
    BY <1>5 DEF Collects
  <2>2. Each(F, <<>>) = <<>>
    BY DEF Each
  <2>3. Total(<<>>) = 0
    <3>1. <<>> \in Seq(Int) /\ Len(<<>>) = 0
      OBVIOUS
    <3>2. Sums(<<>>)[0] = 0
      BY <3>1, SumsOf
    <3> QED
      BY <3>1, <3>2 DEF Total
  <2> QED
    BY <1>1, <1>7, <2>1, <2>2, <2>3
<1>9. ASSUME NEW n \in 0 .. Len(s) - 1, n \in T PROVE n + 1 \in T
  <2>1. n + 1 \in 0 .. Len(s) /\ (n + 1) - 1 = n /\ n + 1 \in 1 .. Len(s) /\ n \in 0 .. Len(s)
    BY <1>1
  <2>2. PICK g : g = f[n] /\ g \in Seq(S)
    BY <1>6, <2>1
  <2>3. Each(F, g) \in Seq(Int)
    BY <2>2, EachOf
  <2>4. Sums(all)[n] \in Int /\ Total(Each(F, g)) = Sums(all)[n]
    BY <1>7, <1>9, <2>1, <2>2
  <2>5. Sums(all)[n + 1] = Sums(all)[n] + all[n + 1]
    BY <1>7, <2>1
  <2>6. CASE mark[n + 1]
    <3>1. f[n + 1] = Append(g, s[n + 1]) /\ s[n + 1] \in S
      BY <1>1, <1>5, <2>1, <2>2, <2>6 DEF Collects
    <3>2. Each(F, f[n + 1]) = Append(Each(F, g), F[s[n + 1]])
      <4>1. PICK e \in S : e = s[n + 1]
        BY <3>1
      <4>2. Each(F, Append(g, e)) = Append(Each(F, g), F[e])
        BY <2>2, EachAppend
      <4> QED
        BY <3>1, <4>1, <4>2
    <3>3. F[s[n + 1]] \in Int /\ all[n + 1] = F[s[n + 1]]
      BY <2>1, <2>6, <3>1 DEF Part
    <3>4. Total(Append(Each(F, g), F[s[n + 1]])) = Total(Each(F, g)) + F[s[n + 1]]
      BY <2>3, <3>3, TotalAppend
    <3> QED
      BY <2>1, <2>4, <2>5, <3>2, <3>3, <3>4
  <2>7. CASE ~ mark[n + 1]
    <3>1. f[n + 1] = g
      BY <1>5, <2>1, <2>2, <2>7 DEF Collects
    <3>2. all[n + 1] = 0
      BY <2>1, <2>7 DEF Part
    <3> QED
      BY <2>1, <2>2, <2>4, <2>5, <3>1, <3>2
  <2> QED
    BY <2>6, <2>7
<1>10. 0 .. Len(s) \subseteq T
  <2> HIDE DEF T
  <2> QED
    BY <1>1, <1>8, <1>9, HandedUp
<1>11. Total(Each(F, f[Len(s)])) = Sums(all)[Len(s)]
  <2>1. Len(s) \in 0 .. Len(s)
    BY <1>1
  <2> QED
    BY <1>10, <2>1
<1> QED
  BY <1>5, <1>11 DEF Total
-----------------------------------------------------------------------------
\* How long the audio is behind a cut: what its ranges last.

Lasting == [r \in Span |-> r.to - r.from]
Leaving == [r \in Span |-> AtLeast(r.to - r.from, 50)]

LEMMA SpanLength ==
    ASSUME NEW r \in Span
    PROVE  /\ r.to \in Int /\ r.from \in Int /\ Lasting[r] = r.to - r.from /\ Lasting[r] \in Int
           /\ Leaving[r] \in Int /\ Leaving[r] >= r.to - r.from /\ Leaving[r] >= 50
<1>1. PICK a \in Int, b \in Int : a = r.from /\ b = r.to
  BY DEF Span
<1>2. Lasting[r] = b - a /\ Leaving[r] = AtLeast(b - a, 50)
  BY <1>1 DEF Lasting, Leaving
<1> QED
  BY <1>1, <1>2 DEF AtLeast

LEMMA SpanFunctions == Lasting \in [Span -> Int] /\ Leaving \in [Span -> Int]
<1>1. \A r \in Span : Lasting[r] \in Int /\ Leaving[r] \in Int
  BY SpanLength
<1>2. Lasting = [r \in Span |-> Lasting[r]] /\ Leaving = [r \in Span |-> Leaving[r]]
  BY DEF Lasting, Leaving
<1> QED
  BY <1>1, <1>2

LEMMA MarkedLasting ==
    ASSUME NEW gaps \in Seq(Span), NEW mark, NEW all \in Seq(Int), Len(all) = Len(gaps),
           \A i \in 1 .. Len(gaps) : all[i] = Part(Lasting, gaps, mark, i)
    PROVE  Total(Each(Lasting, Marked(gaps, mark))) = Total(all)
<1>1. Lasting \in [Span -> Int]
  BY SpanFunctions
<1> QED
  BY <1>1, MarkedTotal

LEMMA MarkedLeaving ==
    ASSUME NEW gaps \in Seq(Span), NEW mark, NEW all \in Seq(Int), Len(all) = Len(gaps),
           \A i \in 1 .. Len(gaps) : all[i] = Part(Leaving, gaps, mark, i)
    PROVE  Total(Each(Leaving, Marked(gaps, mark))) = Total(all)
<1>1. Leaving \in [Span -> Int]
  BY SpanFunctions
<1> QED
  BY <1>1, MarkedTotal

\* The audio loses no more than the silences.
LEMMA KeptTotal ==
    ASSUME NEW silences \in Seq(Span), silences # <<>>, NEW length \in Int,
           \A j \in 1 .. Len(silences) : silences[j].to <= length
    PROVE  /\ Total(Each(Leaving, KeepRanges(silences, length))) \in Int
           /\ Total(Each(Lasting, silences)) \in Int
           /\ Total(Each(Leaving, KeepRanges(silences, length)))
                  >= length - Total(Each(Lasting, silences))
<1>1. PICK n \in Nat : n = Len(silences) /\ n >= 1 /\ \A i \in 1 .. n : silences[i] \in Span
  <2>1. Len(silences) \in Nat /\ Len(silences) >= 1 /\ \A i \in 1 .. Len(silences) : silences[i] \in Span
    OBVIOUS
  <2> QED
    BY <2>1
<1> DEFINE From(i) == KeptFrom(silences, i)
<1>2. PICK all \in Seq(Span) :
          /\ all = Ranges(silences, length) /\ Len(all) = n + 1 /\ DOMAIN all = 1 .. n + 1
          /\ \A i \in 1 .. n + 1 : From(i) \in Int
          /\ \A i \in 1 .. n : KeptTo(silences, i) \in Int
  <2>1. PICK r \in Seq(Span) : r = Ranges(silences, length) /\ Len(r) = n + 1
    BY <1>1, RangesOf
  <2>2. DOMAIN r = 1 .. n + 1
    BY <2>1
  <2> QED
    BY <1>1, <2>1, <2>2, RangesOf
<1> DEFINE mark == [i \in DOMAIN all |-> all[i].to > all[i].from]
           left == [i \in 1 .. n + 1 |-> IF all[i].to > all[i].from THEN Leaving[all[i]] ELSE 0]
           gone == Each(Lasting, silences)
<1>3. KeepRanges(silences, length) = Marked(all, mark)
  BY <1>2, RangesKept
<1>4. /\ left \in Seq(Int) /\ Len(left) = n + 1
      /\ Total(Each(Leaving, Marked(all, mark))) = Total(left)
  <2>1. ASSUME NEW i \in 1 .. n + 1 PROVE left[i] \in Int
    <3>1. all[i] \in Span
      BY <1>2
    <3>2. Leaving[all[i]] \in Int
      BY <3>1, SpanLength
    <3> QED
      BY <3>2
  <2>2. left \in Seq(Int) /\ Len(left) = n + 1
    <3>1. left = [i \in 1 .. n + 1 |-> left[i]]
      OBVIOUS
    <3>2. n + 1 \in Nat
      BY <1>1
    <3> HIDE DEF left
    <3>3. left \in [1 .. n + 1 -> Int]
      BY <2>1, <3>1
    <3> QED
      BY <3>2, <3>3, FunctionIsSeq
  <2>3. \A i \in 1 .. Len(all) : left[i] = IF mark[i] THEN Leaving[all[i]] ELSE 0
    BY <1>2
  <2>4. Len(left) = Len(all)
    BY <1>2, <2>2
  <2>5. PICK l \in Seq(Int) : l = left
    BY <2>2
  <2>6. Len(l) = Len(all) /\ \A i \in 1 .. Len(all) : l[i] = Part(Leaving, all, mark, i)
    BY <2>3, <2>4, <2>5 DEF Part
  <2> HIDE DEF left, mark
  <2>7. Total(Each(Leaving, Marked(all, mark))) = Total(l)
    BY <2>6, MarkedLeaving
  <2> QED
    BY <2>2, <2>5, <2>7
<1>5. gone \in Seq(Int) /\ Len(gone) = n
  BY <1>1, SpanFunctions, EachOf
<1>6. ASSUME NEW i \in 1 .. n + 1
      PROVE  /\ all[i].from = From(i) /\ all[i] \in Span
             /\ all[i].to = IF i <= n THEN KeptTo(silences, i) ELSE KeptLast(silences, length)
  BY <1>1, <1>2 DEF Ranges
<1>7. ASSUME NEW i \in 1 .. n + 1 PROVE left[i] >= all[i].to - all[i].from
  <2>1. i \in DOMAIN all /\ all[i] \in Span
    BY <1>2, <1>6
  <2>2. left[i] = IF all[i].to > all[i].from THEN Leaving[all[i]] ELSE 0
    BY <2>1
  <2>3. PICK a \in Int, b \in Int, v \in Int :
            a = all[i].from /\ b = all[i].to /\ v = Leaving[all[i]] /\ v >= b - a
    BY <2>1, SpanLength
  <2>4. left[i] = IF b > a THEN v ELSE 0
    BY <2>2, <2>3
  <2> HIDE DEF left
  <2> QED
    BY <2>3, <2>4
<1>8. ASSUME NEW i \in 1 .. n
      PROVE  /\ gone[i] = silences[i].to - silences[i].from
             /\ silences[i].to \in Int /\ silences[i].from \in Int
  <2>1. i \in DOMAIN silences
    BY <1>1
  <2> QED
    BY <1>1, <2>1, SpanLength DEF Each
<1>9. /\ Sums(left) \in [0 .. n + 1 -> Int] /\ Sums(left)[0] = 0
      /\ \A i \in 1 .. n + 1 : Sums(left)[i] = Sums(left)[i - 1] + left[i]
  BY <1>4, SumsOf
<1>10. /\ Sums(gone) \in [0 .. n -> Int] /\ Sums(gone)[0] = 0
       /\ \A i \in 1 .. n : Sums(gone)[i] = Sums(gone)[i - 1] + gone[i]
  BY <1>5, SumsOf
<1>11. \A i \in 1 .. n + 1 : left[i] \in Int
  BY <1>1, <1>4
<1>12. \A i \in 1 .. n : From(i + 1) = silences[i].to - 70
  <2>1. \A i \in 1 .. n : i + 1 # 1 /\ (i + 1) - 1 = i
    BY <1>1
  <2> QED
    BY <2>1 DEF KeptFrom, Resumes, KeepPad
<1>13. From(1) = 0
  BY DEF KeptFrom
<1>14. ASSUME NEW i \in 1 .. n PROVE KeptTo(silences, i) >= silences[i].from - 70
  BY <1>8 DEF KeptTo, KeepPad
<1> DEFINE T == {k \in 0 .. n : Sums(left)[k] + Sums(gone)[k] >= From(k + 1)}
<1> HIDE DEF left, gone, mark, From
<1>15. 0 \in T
  BY <1>1, <1>9, <1>10, <1>13
<1>16. ASSUME NEW k \in 0 .. n - 1, k \in T PROVE k + 1 \in T
  <2>1. /\ k + 1 \in 1 .. n /\ k + 1 \in 1 .. n + 1 /\ (k + 1) - 1 = k /\ k + 1 \in 0 .. n
        /\ k \in 0 .. n /\ k \in 0 .. n + 1 /\ k + 1 <= n
    BY <1>1
  <2>2. PICK l \in Int, g \in Int, f \in Int, a \in Int, b \in Int, x \in Int, t \in Int :
            /\ l = Sums(left)[k] /\ g = Sums(gone)[k] /\ f = From(k + 1)
            /\ a = silences[k + 1].from /\ b = silences[k + 1].to /\ x = left[k + 1]
            /\ t = KeptTo(silences, k + 1)
    BY <1>2, <1>8, <1>9, <1>10, <1>11, <2>1
  <2>3. Sums(left)[k + 1] = l + x
    BY <1>9, <2>1, <2>2
  <2>4. Sums(gone)[k + 1] = g + (b - a)
    BY <1>8, <1>10, <2>1, <2>2
  <2>5. From((k + 1) + 1) = b - 70
    BY <1>12, <2>1, <2>2
  <2>6. x >= t - f
    BY <1>6, <1>7, <2>1, <2>2
  <2>7. t >= a - 70
    BY <1>14, <2>1, <2>2
  <2>8. l + g >= f
    BY <1>16, <2>2
  <2>9. (l + x) + (g + (b - a)) >= b - 70
    BY ONLY <2>6, <2>7, <2>8, l \in Int, g \in Int, f \in Int, a \in Int, b \in Int, x \in Int, t \in Int
  <2> QED
    BY <2>1, <2>3, <2>4, <2>5, <2>9
<1>17. 0 .. n \subseteq T
  <2> HIDE DEF T
  <2> QED
    BY <1>1, <1>15, <1>16, HandedUp
<1>18. n \in T /\ n \in 1 .. n /\ n + 1 \in 1 .. n + 1 /\ (n + 1) - 1 = n /\ ~ (n + 1 <= n)
       /\ n \in 0 .. n + 1 /\ n \in 0 .. n
  <2> HIDE DEF T
  <2> QED
    BY <1>1, <1>17
<1>19. PICK l \in Int, g \in Int, f \in Int, x \in Int :
           l = Sums(left)[n] /\ g = Sums(gone)[n] /\ f = From(n + 1) /\ x = left[n + 1]
  BY <1>2, <1>9, <1>10, <1>11, <1>18
<1>20. l + g >= f
  BY <1>18, <1>19
<1>21. f <= length - 70
  <2>1. PICK b \in Int : b = silences[n].to /\ b <= length
    BY <1>1, <1>8, <1>18
  <2> QED
    BY <1>12, <1>18, <1>19, <2>1
<1>22. x >= length - f
  <2>1. KeptLast(silences, length) = length
    <3>1. KeptFrom(silences, n + 1) = f
      BY <1>19 DEF From
    <3> QED
      BY <1>1, <1>21, <3>1 DEF KeptLast
  <2> QED
    BY <1>6, <1>7, <1>18, <1>19, <2>1
<1>23. Total(left) = l + x /\ Total(gone) = g
  BY <1>4, <1>5, <1>9, <1>18, <1>19 DEF Total
<1>24. l + x >= length - g
  BY <1>20, <1>22
<1> QED
  BY <1>3, <1>4, <1>23, <1>24 DEF gone
-----------------------------------------------------------------------------
\* The cut of the last word against that of the audio.

\* How many silences there are in front of the words, counted by p.
Silent(ws, i) == ws[i].start - (IF i = 1 THEN 0 ELSE ws[i - 1].end) >= MinSilence

Counts(p, ws) ==
    /\ p \in [0 .. Len(ws) -> Nat] /\ p[0] = 0
    /\ \A i \in 1 .. Len(ws) : p[i - 1] <= p[i] /\ (Silent(ws, i) => p[i - 1] < p[i])

LEMMA StartsInOrder ==
    ASSUME NEW ws \in Seq(Word), InOrder(ws)
    PROVE  \A i \in 1 .. Len(ws) : ws[i].start \in Int /\ ws[i].start <= ws[Len(ws)].start
<1>1. Len(ws) \in Nat /\ \A i \in 1 .. Len(ws) : ws[i].start \in Int
  <2>1. \A i \in 1 .. Len(ws) : ws[i] \in Word
    OBVIOUS
  <2> QED
    BY <2>1 DEF Word
<1> SUFFICES ASSUME Len(ws) > 0
             PROVE  \A i \in 1 .. Len(ws) : ws[i].start <= ws[Len(ws)].start
  BY <1>1
<1>2. PICK m \in Nat : m = Len(ws) - 1
  BY <1>1
<1> DEFINE T == {n \in 0 .. m : ws[Len(ws) - n].start <= ws[Len(ws)].start}
<1>3. 0 \in T
  <2>1. Len(ws) - 0 = Len(ws) /\ Len(ws) \in 1 .. Len(ws) /\ 0 \in 0 .. m
    BY <1>1, <1>2
  <2> QED
    BY <1>1, <2>1
<1>4. ASSUME NEW n \in 0 .. m - 1, n \in T PROVE n + 1 \in T
  <2>1. PICK i \in 1 .. Len(ws) - 1 : i = Len(ws) - (n + 1) /\ i + 1 = Len(ws) - n
    <3>1. Len(ws) - (n + 1) \in 1 .. Len(ws) - 1 /\ (Len(ws) - (n + 1)) + 1 = Len(ws) - n
      BY <1>1, <1>2
    <3> QED
      BY <3>1
  <2>2. i \in 1 .. Len(ws) /\ i + 1 \in 1 .. Len(ws) /\ Len(ws) \in 1 .. Len(ws)
    BY <1>1
  <2>3. ws[i].start <= ws[i + 1].start /\ ws[i + 1].start <= ws[Len(ws)].start
    BY <1>4, <2>1 DEF InOrder
  <2>4. ws[i].start <= ws[Len(ws)].start
    BY <1>1, <2>2, <2>3
  <2>5. n + 1 \in 0 .. m
    BY <1>2
  <2> QED
    BY <2>1, <2>4, <2>5
<1>5. 0 .. m \subseteq T
  <2> HIDE DEF T
  <2> QED
    BY <1>2, <1>3, <1>4, HandedUp
<1>6. ASSUME NEW i \in 1 .. Len(ws) PROVE ws[i].start <= ws[Len(ws)].start
  <2>1. Len(ws) - i \in 0 .. m /\ Len(ws) - (Len(ws) - i) = i
    BY <1>1, <1>2
  <2>2. Len(ws) - i \in T
    BY <1>5, <2>1
  <2> QED
    BY <2>1, <2>2
<1> QED
  BY <1>6

\* What the cut takes from the audio and not from the last word is at most KeepPad for
\* every silence in front of it.
LEMMA CutLateness ==
    ASSUME NEW ws \in Seq(Word), ws # <<>>, NEW length \in Int, InOrder(ws),
           ws[Len(ws)].start <= length, ws[Len(ws)].end <= length + 190,
           NEW p, Counts(p, ws),
           NEW keep, keep = KeepRanges(Silences(Gaps(ws, length)), length), Len(keep) > 1
    PROVE  /\ CutBefore(ws[Len(ws)], Gaps(ws, length)) \in Int
           /\ Total(Each(Leaving, keep)) \in Int
           /\ ws[Len(ws)].end - CutBefore(ws[Len(ws)], Gaps(ws, length))
                  <= Total(Each(Leaving, keep)) + 190 + 140 * p[Len(ws)]
<1>1. PICK n \in Nat : n = Len(ws) /\ n >= 1
  <2>1. Len(ws) \in Nat /\ Len(ws) >= 1
    OBVIOUS
  <2> QED
    BY <2>1
<1>2. \A i \in 1 .. n : ws[i].start \in Int /\ ws[i].end \in Int
  <2>1. \A i \in 1 .. n : ws[i] \in Word
    BY <1>1
  <2> QED
    BY <2>1 DEF Word
<1>3. PICK gaps \in Seq(Span) :
          /\ gaps = Gaps(ws, length) /\ Len(gaps) = n + 1 /\ DOMAIN gaps = 1 .. n + 1
          /\ \A i \in 1 .. n + 1 :
                 /\ gaps[i].from = SpeechEnds(ws)[i - 1]
                 /\ gaps[i].to = IF i <= n THEN ws[i].start ELSE length
  <2>1. PICK g \in Seq(Span) : g = Gaps(ws, length) /\ Len(g) = n + 1
    BY <1>1, GapsOf
  <2>2. DOMAIN g = 1 .. n + 1
    BY <2>1
  <2>3. \A i \in 1 .. n + 1 :
            /\ g[i].from = SpeechEnds(ws)[i - 1]
            /\ g[i].to = IF i <= n THEN ws[i].start ELSE length
    BY <1>1, <2>1, GapsOf
  <2> QED
    BY <2>1, <2>2, <2>3
<1>4. \A i \in 1 .. n + 1 : gaps[i] \in Span /\ gaps[i].from \in Int /\ gaps[i].to \in Int
  <2>1. \A i \in 1 .. n + 1 : gaps[i] \in Span
    BY <1>3
  <2> QED
    BY <2>1 DEF Span
<1>5. \A i \in 1 .. n : ws[i].start <= ws[n].start
  BY <1>1, StartsInOrder
<1>6. n \in 1 .. n /\ n + 1 \in 1 .. n + 1 /\ (n + 1) - 1 = n /\ ~ (n + 1 <= n)
  BY <1>1
<1> DEFINE Cut(i) == IF IsSilence(gaps[i]) /\ gaps[i].to <= ws[n].start
                     THEN AtLeast(gaps[i].to - gaps[i].from - KeepPad, 0) ELSE 0
           mask == [i \in 1 .. n + 1 |-> Cut(i)]
           mark == [i \in DOMAIN gaps |-> IsSilence(gaps[i])]
           gone == [i \in 1 .. n + 1 |-> Part(Lasting, gaps, mark, i)]
<1>7. ASSUME NEW i \in 1 .. n + 1
      PROVE  /\ Cut(i) \in Int /\ Cut(i) >= 0
             /\ gone[i] = (IF IsSilence(gaps[i]) THEN gaps[i].to - gaps[i].from ELSE 0)
             /\ gone[i] \in Int
  <2>1. PICK a \in Int, b \in Int : a = gaps[i].from /\ b = gaps[i].to
    BY <1>4
  <2>2. Cut(i) \in Int /\ Cut(i) >= 0
    <3>1. AtLeast(b - a - KeepPad, 0) \in Int /\ AtLeast(b - a - KeepPad, 0) >= 0
      BY DEF AtLeast, KeepPad
    <3> QED
      BY <2>1, <3>1
  <2>3. Lasting[gaps[i]] = b - a
    BY <1>4, <2>1, SpanLength
  <2>4. gone[i] = IF IsSilence(gaps[i]) THEN b - a ELSE 0
    BY <1>3, <2>3 DEF Part
  <2>5. (IF IsSilence(gaps[i]) THEN b - a ELSE 0) \in Int
    OBVIOUS
  <2> HIDE DEF gone
  <2> QED
    BY <2>1, <2>2, <2>4, <2>5
<1>8. mask \in Seq(Int) /\ Len(mask) = n + 1
  <2>1. mask \in [1 .. n + 1 -> Int]
    <3> HIDE DEF Cut
    <3> QED
      BY <1>7
  <2>2. n + 1 \in Nat
    OBVIOUS
  <2> HIDE DEF mask
  <2> QED
    BY <2>1, <2>2, FunctionIsSeq
<1>9. gone \in Seq(Int) /\ Len(gone) = n + 1
  <2>1. gone = [i \in 1 .. n + 1 |-> gone[i]]
    OBVIOUS
  <2> HIDE DEF gone
  <2>2. gone \in [1 .. n + 1 -> Int]
    BY <1>7, <2>1
  <2>3. n + 1 \in Nat
    OBVIOUS
  <2> QED
    BY <2>2, <2>3, FunctionIsSeq
<1>10. CutBefore(ws[n], gaps) = Total(mask)
  BY <1>3 DEF CutBefore
<1>11. PICK silences \in Seq(Span) :
           /\ silences = Silences(gaps)
           /\ \A j \in 1 .. Len(silences) : silences[j].to <= length
           /\ Total(Each(Lasting, silences)) = Total(gone)
  <2> DEFINE S == {r \in Span : r.to <= length}
  <2>1. \A i \in 1 .. n + 1 : gaps[i].to <= length
    <3>1. ASSUME NEW i \in 1 .. n PROVE ws[i].start <= length
      <4>1. ws[i].start <= ws[n].start /\ ws[n].start <= length
        BY <1>1, <1>5
      <4> QED
        BY <1>2, <1>6, <4>1
    <3>2. \A i \in 1 .. n + 1 : i <= n => i \in 1 .. n
      BY <1>1
    <3>3. length <= length
      OBVIOUS
    <3> QED
      BY <1>3, <3>1, <3>2, <3>3
  <2>2. gaps \in Seq(S)
    <3>1. gaps \in [1 .. n + 1 -> S]
      <4>1. gaps = [i \in 1 .. n + 1 |-> gaps[i]]
        BY <1>3
      <4> QED
        BY <1>4, <2>1, <4>1
    <3>2. n + 1 \in Nat
      OBVIOUS
    <3> HIDE DEF S
    <3> QED
      BY <3>1, <3>2, FunctionIsSeq
  <2>3. PICK s \in Seq(S) : s = Silences(gaps) /\ s = Marked(gaps, mark)
    <3> HIDE DEF S
    <3>1. Marked(gaps, mark) \in Seq(S)
      BY <2>2, MarkedType
    <3>2. Silences(gaps) = Marked(gaps, mark)
      BY DEF Silences
    <3> QED
      BY <3>1, <3>2
  <2>4. s \in Seq(Span) /\ \A j \in 1 .. Len(s) : s[j].to <= length
    OBVIOUS
  <2>5. Total(Each(Lasting, Marked(gaps, mark))) = Total(gone)
    <3>1. \A i \in 1 .. Len(gaps) : gone[i] = Part(Lasting, gaps, mark, i)
      BY <1>3
    <3>2. Len(gone) = Len(gaps)
      BY <1>3, <1>9
    <3>3. PICK l \in Seq(Int) : l = gone
      BY <1>9
    <3> HIDE DEF gone, mark
    <3>4. Len(l) = Len(gaps) /\ \A i \in 1 .. Len(gaps) : l[i] = Part(Lasting, gaps, mark, i)
      BY <3>1, <3>2, <3>3
    <3>5. Total(Each(Lasting, Marked(gaps, mark))) = Total(l)
      BY <3>4, MarkedLasting
    <3> QED
      BY <3>3, <3>5
  <2> QED
    BY <2>3, <2>4, <2>5
<1>12. silences # <<>>
  <2>1. keep = KeepRanges(silences, length)
    BY <1>3, <1>11
  <2>2. Len(keep) <= Len(silences) + 1 /\ keep \in Seq(Span)
    BY <2>1, KeptType
  <2>3. Len(silences) > 0
    BY <2>2
  <2> QED
    BY <2>3
<1>13. PICK left \in Int, taken \in Int :
           /\ left = Total(Each(Leaving, keep)) /\ taken = Total(gone) /\ left >= length - taken
  <2>1. keep = KeepRanges(silences, length)
    BY <1>3, <1>11
  <2>2. /\ Total(Each(Leaving, KeepRanges(silences, length))) \in Int
        /\ Total(Each(Lasting, silences)) \in Int
        /\ Total(Each(Leaving, KeepRanges(silences, length)))
               >= length - Total(Each(Lasting, silences))
    BY <1>11, <1>12, KeptTotal
  <2> HIDE DEF gone
  <2> QED
    BY <1>11, <2>1, <2>2
<1>14. /\ Sums(mask) \in [0 .. n + 1 -> Int] /\ Sums(mask)[0] = 0
       /\ \A i \in 1 .. n + 1 : Sums(mask)[i] = Sums(mask)[i - 1] + Cut(i)
  <2>1. \A i \in 1 .. n + 1 : mask[i] = Cut(i)
    OBVIOUS
  <2> HIDE DEF mask, Cut
  <2> QED
    BY <1>8, <2>1, SumsOf
<1>15. /\ Sums(gone) \in [0 .. n + 1 -> Int] /\ Sums(gone)[0] = 0
       /\ \A i \in 1 .. n + 1 : Sums(gone)[i] = Sums(gone)[i - 1] + gone[i]
  <2> HIDE DEF gone
  <2> QED
    BY <1>9, SumsOf
<1>16. /\ p \in [0 .. n -> Nat] /\ p[0] = 0
       /\ \A i \in 1 .. n : p[i - 1] <= p[i] /\ (Silent(ws, i) => p[i - 1] < p[i])
  BY <1>1 DEF Counts
\* Of a silence in front of a word, KeepPad stays.
<1>17. ASSUME NEW i \in 1 .. n PROVE gone[i] <= Cut(i) + 140 * (p[i] - p[i - 1])
  <2>1. i \in 1 .. n + 1 /\ i - 1 \in 0 .. n /\ i \in 0 .. n
    BY <1>1
  <2>2. PICK a \in Int, b \in Int : a = gaps[i].from /\ b = gaps[i].to
    BY <1>4, <2>1
  <2>3. b = ws[i].start /\ b <= ws[n].start
    BY <1>3, <1>5, <2>1, <2>2
  <2>4. PICK x \in Nat, y \in Nat : x = p[i - 1] /\ y = p[i] /\ x <= y
    BY <1>16, <2>1
  <2>5. CASE ~ IsSilence(gaps[i])
    <3>1. gone[i] = 0 /\ Cut(i) = 0
      BY <1>7, <2>1, <2>5
    <3> HIDE DEF gone, Cut
    <3> QED
      BY <2>4, <3>1
  <2>6. CASE IsSilence(gaps[i])
    <3>1. b - a >= 420
      BY <2>2, <2>6 DEF IsSilence, MinSilence
    <3>2. Silent(ws, i)
      <4>1. (IF i = 1 THEN 0 ELSE ws[i - 1].end) <= a
        <5>1. CASE i = 1
          <6>1. a = SpeechEnds(ws)[0]
            BY <1>3, <2>1, <2>2, <5>1
          <6> QED
            BY <5>1, <6>1, EndsOf
        <5>2. CASE i # 1
          <6>1. i - 1 \in 1 .. n
            BY <1>1, <5>2
          <6>2. a = SpeechEnds(ws)[i - 1]
            BY <1>3, <2>1, <2>2
          <6>3. ws[i - 1].end <= SpeechEnds(ws)[i - 1]
            BY <1>1, <6>1, EndsOf
          <6> QED
            BY <5>2, <6>2, <6>3
        <5> QED
          BY <5>1, <5>2
      <4>2. PICK f \in Int : f = IF i = 1 THEN 0 ELSE ws[i - 1].end
        <5>1. i # 1 => i - 1 \in 1 .. n
          BY <1>1
        <5>2. i # 1 => ws[i - 1].end \in Int
          BY <1>2, <5>1
        <5>3. (IF i = 1 THEN 0 ELSE ws[i - 1].end) \in Int
          BY <5>2
        <5> QED
          BY <5>3
      <4>3. b - f >= 420
        BY <3>1, <4>1, <4>2
      <4> QED
        BY <2>3, <4>2, <4>3 DEF Silent, MinSilence
    <3>3. x + 1 <= y
      BY <1>16, <2>4, <3>2
    <3>4. gone[i] = b - a
      BY <1>7, <2>1, <2>2, <2>6
    <3>5. Cut(i) = AtLeast(b - a - 140, 0)
      BY <2>2, <2>3, <2>6 DEF KeepPad
    <3>6. AtLeast(b - a - 140, 0) = b - a - 140
      BY <3>1 DEF AtLeast
    <3> HIDE DEF gone, Cut
    <3>7. b - a <= (b - a - 140) + 140 * (y - x)
      BY <3>3
    <3> QED
      BY <2>4, <3>4, <3>5, <3>6, <3>7
  <2> QED
    BY <2>5, <2>6
<1> DEFINE T == {k \in 0 .. n : Sums(gone)[k] <= Sums(mask)[k] + 140 * p[k]}
<1> HIDE DEF gone, mask, Cut, mark
<1>18. 0 \in T
  BY <1>1, <1>14, <1>15, <1>16
<1>19. ASSUME NEW k \in 0 .. n - 1, k \in T PROVE k + 1 \in T
  <2>1. /\ k + 1 \in 1 .. n /\ k + 1 \in 1 .. n + 1 /\ (k + 1) - 1 = k /\ k \in 0 .. n
        /\ k \in 0 .. n + 1 /\ k + 1 \in 0 .. n
    BY <1>1
  <2>2. PICK g \in Int, m \in Int, x \in Nat, y \in Nat, h \in Int, c \in Int :
            /\ g = Sums(gone)[k] /\ m = Sums(mask)[k] /\ x = p[k] /\ y = p[k + 1]
            /\ h = gone[k + 1] /\ c = Cut(k + 1)
    BY <1>7, <1>14, <1>15, <1>16, <2>1
  <2>3. Sums(gone)[k + 1] = g + h /\ Sums(mask)[k + 1] = m + c
    BY <1>14, <1>15, <2>1, <2>2
  <2>4. g <= m + 140 * x
    BY <1>19, <2>2
  <2>5. h <= c + 140 * (y - x)
    BY <1>17, <2>1, <2>2
  <2>6. g + h <= (m + c) + 140 * y
    BY <2>4, <2>5
  <2> QED
    BY <2>1, <2>2, <2>3, <2>6
<1>20. 0 .. n \subseteq T
  <2> HIDE DEF T
  <2> QED
    BY <1>1, <1>18, <1>19, HandedUp
<1>21. PICK g \in Int, m \in Int, x \in Nat, h \in Int, c \in Nat :
           /\ g = Sums(gone)[n] /\ m = Sums(mask)[n] /\ x = p[n] /\ h = gone[n + 1]
           /\ c = Cut(n + 1) /\ g <= m + 140 * x
  <2>1. n \in 0 .. n /\ n \in 0 .. n + 1
    BY <1>1
  <2>2. Sums(gone)[n] <= Sums(mask)[n] + 140 * p[n]
    BY <1>20, <2>1
  <2>3. Sums(gone)[n] \in Int /\ Sums(mask)[n] \in Int /\ p[n] \in Nat
    BY <1>14, <1>15, <1>16, <2>1
  <2>4. gone[n + 1] \in Int /\ Cut(n + 1) \in Nat
    BY <1>6, <1>7
  <2> QED
    BY <2>2, <2>3, <2>4
<1>22. Total(gone) = g + h /\ Total(mask) = m + c
  BY <1>6, <1>8, <1>9, <1>14, <1>15, <1>21 DEF Total
<1>23. PICK e \in Int : e = ws[n].end /\ e <= length + 190
  BY <1>1, <1>2, <1>6
\* The silence behind the last word is none that the word moves by.
<1>24. h <= 0 \/ h <= length - e
  <2>1. PICK a \in Int, b \in Int : a = gaps[n + 1].from /\ b = gaps[n + 1].to
    BY <1>4, <1>6
  <2>2. b = length /\ a = SpeechEnds(ws)[n]
    BY <1>3, <1>6, <2>1
  <2>3. e <= a
    BY <1>1, <1>6, <1>23, <2>2, EndsOf
  <2>4. h = IF IsSilence(gaps[n + 1]) THEN b - a ELSE 0
    BY <1>6, <1>7, <1>21, <2>1
  <2> QED
    BY <2>2, <2>3, <2>4
<1>25. e - (m + c) <= left + 190 + 140 * x
  <2>1. left >= length - (g + h)
    BY <1>13, <1>22
  <2> QED
    <3>1. g <= m + 140 * x /\ e <= length + 190
      BY <1>21, <1>23
    <3> QED
      BY ONLY <1>24, <2>1, <3>1, g \in Int, m \in Int, x \in Nat, h \in Int, c \in Nat,
              e \in Int, left \in Int, length \in Int
<1> QED
  <2>1. CutBefore(ws[Len(ws)], Gaps(ws, length)) = m + c
    BY <1>1, <1>3, <1>10, <1>22
  <2>2. ws[Len(ws)].end = e /\ p[Len(ws)] = x /\ Total(Each(Leaving, keep)) = left
    BY <1>1, <1>13, <1>21, <1>23
  <2> QED
    BY <1>25, <2>1, <2>2
-----------------------------------------------------------------------------
\* A scene behind the words of the scenes before it.

SpeechEnd(ws) == IF ws = <<>> THEN 0 ELSE ws[Len(ws)].end

LEMMA ShiftedOf ==
    ASSUME NEW ws \in Seq(Word), NEW by \in Int
    PROVE  /\ Shifted(ws, by) \in Seq(Word) /\ Len(Shifted(ws, by)) = Len(ws)
           /\ \A i \in 1 .. Len(ws) : /\ Shifted(ws, by)[i].size = ws[i].size
                                      /\ Shifted(ws, by)[i].start = ws[i].start + by
                                      /\ Shifted(ws, by)[i].end = ws[i].end + by
<1>1. Len(ws) \in Nat /\ DOMAIN ws = 1 .. Len(ws) /\ \A i \in 1 .. Len(ws) : ws[i] \in Word
  OBVIOUS
<1>2. PICK moved : moved = Shifted(ws, by)
  OBVIOUS
<1>3. moved = [i \in 1 .. Len(ws) |-> [ws[i] EXCEPT !.start = @ + by, !.end = @ + by]]
  BY <1>1, <1>2 DEF Shifted
<1>4. ASSUME NEW i \in 1 .. Len(ws)
      PROVE  /\ moved[i] \in Word /\ moved[i].size = ws[i].size
             /\ moved[i].start = ws[i].start + by /\ moved[i].end = ws[i].end + by
  <2>1. PICK w \in Word : w = ws[i]
    BY <1>1
  <2>2. w = [size |-> w.size, start |-> w.start, end |-> w.end]
        /\ w.size \in Nat /\ w.start \in Int /\ w.end \in Int
    BY DEF Word
  <2>3. moved[i] = [w EXCEPT !.start = @ + by, !.end = @ + by]
    BY <1>3, <2>1
  <2>4. moved[i] = [size |-> w.size, start |-> w.start + by, end |-> w.end + by]
    BY <2>2, <2>3
  <2> QED
    BY <2>1, <2>2, <2>4 DEF Word
<1>5. moved \in [1 .. Len(ws) -> Word]
  <2>1. moved = [i \in 1 .. Len(ws) |-> moved[i]]
    BY <1>3
  <2> QED
    BY <1>4, <2>1
<1>6. moved \in Seq(Word) /\ Len(moved) = Len(ws)
  BY <1>1, <1>5, FunctionIsSeq
<1> QED
  BY <1>2, <1>4, <1>6

\* A scene without a silence in it is placed behind words; inc is 1 if there may be one
\* in front of it.
Joins(ws, scene, from, first, late, length, inc) ==
    /\ scene \in Seq(Word) /\ Runs(scene, first, late, length)
    /\ from \in Int /\ first \in Int /\ late \in Int /\ length \in Int /\ inc \in {0, 1}
    /\ (first + from) - SpeechEnd(ws) < 420 \/ inc = 1

\* The words with it.
Joined(all, silences, at, late) ==
    /\ all # <<>> /\ all[Len(all)].end = at + late
    /\ all[Len(all)].size > 1 => all[Len(all)].start <= at
    /\ \E q : Counts(q, all) /\ q[Len(all)] = silences

LEMMA SceneCounted ==
    ASSUME NEW ws \in Seq(Word), NEW p, Counts(p, ws),
           NEW scene, NEW from, NEW first, NEW late, NEW length, NEW inc,
           Joins(ws, scene, from, first, late, length, inc),
           NEW all, all = ws \o Shifted(scene, from)
    PROVE  Joined(all, p[Len(ws)] + inc, from + length, late)
<1> USE DEF Joins
<1>1. PICK n \in Nat, m \in Nat : n = Len(ws) /\ m = Len(scene) /\ m >= 1
  <2>1. Len(ws) \in Nat /\ Len(scene) \in Nat /\ Len(scene) >= 1
    BY DEF Runs
  <2> QED
    BY <2>1
<1>2. PICK moved \in Seq(Word) :
          /\ moved = Shifted(scene, from) /\ Len(moved) = m
          /\ \A i \in 1 .. m : /\ moved[i].size = scene[i].size
                               /\ moved[i].start = scene[i].start + from
                               /\ moved[i].end = scene[i].end + from
  BY <1>1, ShiftedOf
<1>3. \A i \in 1 .. m : scene[i].start \in Int /\ scene[i].end \in Int
  <2>1. \A i \in 1 .. m : scene[i] \in Word
    BY <1>1
  <2> QED
    BY <2>1 DEF Word
<1>4. /\ Len(all) = n + m /\ \A i \in 1 .. n : all[i] = ws[i]
      /\ \A i \in 1 .. m : all[n + i] = moved[i]
  <2>1. all = ws \o moved
    BY <1>2
  <2>2. Len(ws \o moved) = Len(ws) + Len(moved) /\ \A i \in 1 .. Len(ws) : (ws \o moved)[i] = ws[i]
    OBVIOUS
  <2>3. ASSUME NEW i \in 1 .. Len(moved) PROVE (ws \o moved)[Len(ws) + i] = moved[i]
    OBVIOUS
  <2> QED
    BY <1>1, <1>2, <2>1, <2>2, <2>3
<1>5. /\ scene[1].start = first /\ scene[m].end = length + late
      /\ scene[m].size > 1 => scene[m].start <= length
      /\ \A i \in 1 .. m - 1 : scene[i + 1].start - scene[i].end <= 60
  BY <1>1 DEF Runs
<1>6. /\ all[n + m].end = (from + length) + late
      /\ all[n + m].size > 1 => all[n + m].start <= from + length
  <2>1. m \in 1 .. m
    BY <1>1
  <2>2. /\ all[n + m].end = scene[m].end + from /\ all[n + m].start = scene[m].start + from
        /\ all[n + m].size = scene[m].size
    BY <1>2, <1>4, <2>1
  <2>3. PICK a \in Int : a = scene[m].start /\ (scene[m].size > 1 => a <= length)
    BY <1>3, <1>5, <2>1
  <2>4. PICK e \in Int : e = scene[m].end /\ e = length + late
    BY <1>3, <1>5, <2>1
  <2>5. from \in Int /\ length \in Int /\ late \in Int
    OBVIOUS
  <2>6. e + from = (from + length) + late /\ (a <= length => a + from <= from + length)
    BY ONLY <2>4, <2>5, a \in Int, e \in Int
  <2> QED
    BY <2>2, <2>3, <2>4, <2>6
<1>7. all # <<>>
  <2>1. n + m # 0
    BY <1>1
  <2> QED
    BY <1>4, <2>1
<1>8. /\ p \in [0 .. n -> Nat] /\ p[0] = 0
      /\ \A i \in 1 .. n : p[i - 1] <= p[i] /\ (Silent(ws, i) => p[i - 1] < p[i])
  BY <1>1 DEF Counts
<1>9. PICK x \in Nat : x = p[n]
  <2>1. n \in 0 .. n
    BY <1>1
  <2> QED
    BY <1>8, <2>1
<1> DEFINE q == [i \in 0 .. n + m |-> IF i <= n THEN p[i] ELSE x + inc]
<1>10. q \in [0 .. n + m -> Nat]
  <2>1. \A i \in 0 .. n + m : i <= n => p[i] \in Nat
    BY <1>1, <1>8
  <2>2. x + inc \in Nat
    OBVIOUS
  <2> QED
    BY <2>1, <2>2
<1>11. /\ \A i \in 0 .. n : q[i] = p[i]
       /\ \A i \in n + 1 .. n + m : q[i] = x + inc
  BY <1>1
<1> HIDE DEF q
<1>12. ASSUME NEW i \in 1 .. n + m PROVE q[i - 1] <= q[i] /\ (Silent(all, i) => q[i - 1] < q[i])
  <2>1. CASE i <= n
    <3>1. i \in 1 .. n /\ i - 1 \in 0 .. n /\ i \in 0 .. n
      BY <1>1, <2>1
    <3>2. q[i] = p[i] /\ q[i - 1] = p[i - 1]
      BY <1>11, <3>1
    <3>3. Silent(all, i) = Silent(ws, i)
      <4>1. all[i] = ws[i] /\ (i # 1 => all[i - 1] = ws[i - 1])
        <5>1. i # 1 => i - 1 \in 1 .. n
          BY <3>1
        <5> QED
          BY <1>4, <3>1, <5>1
      <4> QED
        BY <4>1 DEF Silent
    <3> QED
      BY <1>8, <3>1, <3>2, <3>3
  <2>2. CASE i = n + 1
    <3>1. i - 1 = n /\ n \in 0 .. n /\ i \in n + 1 .. n + m /\ 1 \in 1 .. m
      BY <1>1, <2>2
    <3>2. q[i] = x + inc /\ q[i - 1] = x
      BY <1>9, <1>11, <3>1
    <3>3. Silent(all, i) => inc = 1
      <4>1. all[i] = moved[1]
        BY <1>4, <2>2, <3>1
      <4>2. all[i].start = first + from
        BY <1>2, <1>5, <3>1, <4>1
      <4>3. (IF i = 1 THEN 0 ELSE all[i - 1].end) = SpeechEnd(ws)
        <5>1. CASE n = 0
          <6>1. ws = <<>> /\ i = 1
            <7>1. Len(ws) = 0
              BY <1>1, <5>1
            <7>2. ws = <<>>
              BY <7>1
            <7> QED
              BY <2>2, <5>1, <7>2
          <6> QED
            BY <6>1 DEF SpeechEnd
        <5>2. CASE n # 0
          <6>1. ws # <<>> /\ i # 1 /\ n \in 1 .. n
            BY <1>1, <2>2, <5>2
          <6>2. all[i - 1] = ws[Len(ws)]
            BY <1>1, <1>4, <3>1, <6>1
          <6> QED
            BY <6>1, <6>2 DEF SpeechEnd
        <5> QED
          BY <5>1, <5>2
      <4>4. SpeechEnd(ws) \in Int
        <5>1. CASE ws = <<>>
          BY <5>1 DEF SpeechEnd
        <5>2. CASE ws # <<>>
          <6>1. ws[Len(ws)] \in Word
            BY <5>2
          <6> QED
            BY <5>2, <6>1 DEF SpeechEnd, Word
        <5> QED
          BY <5>1, <5>2
      <4>5. PICK s \in Int : s = SpeechEnd(ws)
        BY <4>4
      <4>6. Silent(all, i) <=> (first + from) - s >= 420
        BY <4>2, <4>3, <4>5 DEF Silent, MinSilence
      <4>7. ~ ((first + from) - s < 420 /\ (first + from) - s >= 420)
        OBVIOUS
      <4> QED
        BY <4>5, <4>6, <4>7
    <3> QED
      BY <3>2, <3>3
  <2>3. CASE i > n + 1
    <3>1. PICK k \in 1 .. m - 1 : i = n + (k + 1) /\ i - 1 = n + k
      <4>1. PICK j \in Int : j = (i - n) - 1
        <5>1. (i - n) - 1 \in Int
          BY ONLY n \in Nat, m \in Nat, i \in 1 .. n + m
        <5> QED
          BY <5>1
      <4>2. j \in 1 .. m - 1 /\ i = n + (j + 1) /\ i - 1 = n + j
        BY ONLY <2>3, <4>1, n \in Nat, m \in Nat, i \in 1 .. n + m, j \in Int
      <4> QED
        BY <4>2
    <3>2. i \in n + 1 .. n + m /\ i - 1 \in n + 1 .. n + m /\ k \in 1 .. m /\ k + 1 \in 1 .. m /\ i # 1
      BY <1>1, <2>3, <3>1
    <3>3. q[i] = x + inc /\ q[i - 1] = x + inc
      BY <1>11, <3>2
    <3>4. ~ Silent(all, i)
      <4>1. PICK a \in Int, b \in Int : a = scene[k].end /\ b = scene[k + 1].start /\ b - a <= 60
        BY <1>3, <1>5, <3>1, <3>2
      <4>2. all[i].start = b + from /\ all[i - 1].end = a + from
        <5>1. all[i] = moved[k + 1] /\ all[i - 1] = moved[k]
          BY <1>4, <3>1, <3>2
        <5>2. moved[k + 1].start = scene[k + 1].start + from /\ moved[k].end = scene[k].end + from
          BY <1>2, <3>2
        <5> QED
          BY <4>1, <5>1, <5>2
      <4>3. b - a <= 60
        BY <4>1
      <4>4. ~ ((b + from) - (a + from) >= 420)
        BY ONLY <4>3, a \in Int, b \in Int, from \in Int
      <4> QED
        BY <3>2, <4>2, <4>4 DEF Silent, MinSilence
    <3> QED
      BY <3>3, <3>4
  <2> QED
    BY <1>1, <2>1, <2>2, <2>3
<1>13. Counts(q, all) /\ q[Len(all)] = p[Len(ws)] + inc
  <2>1. 0 \in 0 .. n /\ n + m \in n + 1 .. n + m
    BY <1>1
  <2>2. q[0] = 0 /\ q[n + m] = x + inc
    BY <1>8, <1>11, <2>1
  <2> QED
    BY <1>1, <1>4, <1>9, <1>10, <1>12, <2>2 DEF Counts
<1> QED
  BY <1>4, <1>6, <1>7, <1>13 DEF Joined
-----------------------------------------------------------------------------
\* The invariant of the silences.

\* While the narration is spoken: how late the last word ends, how early if every scene
\* had the neural voice, and how many silences the words have.  A silence takes two
\* scenes: one that is empty or has the neural voice, and the one behind it, which has
\* the local voice.
Spacing ==
    /\ words # <<>> =>
           /\ words[Len(words)].end <= cursor - 90
           /\ words[Len(words)].size > 1 => words[Len(words)].start <= cursor - 280
    /\ provider = "edge" => SpeechEnd(words) >= cursor - 290
    /\ \E p : /\ Counts(p, words) /\ 2 * p[Len(words)] <= spoken
              /\ 2 * p[Len(words)] + 1 <= spoken \/ SpeechEnd(words) > cursor - 170

Lateness(silences) == 190 + 140 * silences

LInv ==
    /\ phase \in {"script_writing", "storyboard", "narration", "autocleanup"} => Spacing
    /\ phase = "autocleanup" => audio = cursor - 280 /\ spoken = Len(durations)
    /\ phase \notin {"script_writing", "storyboard", "narration", "autocleanup"} =>
           \E n \in Nat : /\ 2 * n <= Len(durations)
                          /\ words # <<>> /\ words[Len(words)].size > 1 =>
                                 words[Len(words)].end <= audio + Lateness(n)

LEMMA SpacingStarts == TimingInit => LInv
<1> SUFFICES ASSUME TimingInit PROVE LInv
  OBVIOUS
<1>1. words = <<>> /\ cursor = 0 /\ spoken = 0 /\ phase = "script_writing"
  BY DEF TimingInit
<1> DEFINE p == [i \in 0 .. 0 |-> 0]
<1>2. Counts(p, <<>>) /\ p[Len(<<>>)] = 0
  BY DEF Counts
<1> HIDE DEF p
<1>3. SpeechEnd(<<>>) = 0
  BY DEF SpeechEnd
<1>4. 2 * p[Len(<<>>)] <= 0 /\ 0 > 0 - 170 /\ 0 >= 0 - 290
  BY <1>2
<1>5. Spacing
  BY <1>1, <1>2, <1>3, <1>4 DEF Spacing
<1> QED
  BY <1>1, <1>5 DEF LInv

LEMMA SpeechEndType == ASSUME NEW ws \in Seq(Word) PROVE SpeechEnd(ws) \in Int
<1>1. CASE ws = <<>>
  BY <1>1 DEF SpeechEnd
<1>2. CASE ws # <<>>
  <2>1. ws[Len(ws)] \in Word
    BY <1>2
  <2> QED
    BY <1>2, <2>1 DEF SpeechEnd, Word
<1> QED
  BY <1>1, <1>2

\* A scene with words is spoken.
LEMMA SpacingKept ==
    ASSUME NInv, Spacing, phase = "narration",
           NEW ws, NEW length \in Nat, Speak(NextText, ws, length),
           NEW scene, scene = AlignWordsToDuration(NextText, ws, length), scene \in Seq(Word),
           \/ provider = "edge" /\ provider' = "edge" /\ Runs(scene, 0, -10, length)
           \/ provider' = "synth" /\ Runs(scene, 250, 190, length)
    PROVE  Spacing'
<1>1. PICK c \in Nat, n \in Nat, old \in Seq(Word) : c = cursor /\ n = spoken /\ old = words
  BY DEF NInv
<1>2. PICK p : /\ Counts(p, old) /\ 2 * p[Len(old)] <= n
               /\ 2 * p[Len(old)] + 1 <= n \/ SpeechEnd(old) > c - 170
  BY <1>1 DEF Spacing
<1>3. PICK x \in Nat : x = p[Len(old)]
  <2>1. Len(old) \in 0 .. Len(old) /\ p \in [0 .. Len(old) -> Nat]
    BY <1>2 DEF Counts
  <2> QED
    BY <2>1
<1>4. PICK s \in Int : s = SpeechEnd(old)
  BY SpeechEndType
<1>5. /\ words' = old \o Shifted(scene, c) /\ cursor' = c + length + 280 /\ spoken' = n + 1
  BY <1>1 DEF Speak
<1>6. PICK all : all = old \o Shifted(scene, c)
  OBVIOUS
<1>7. CASE provider = "edge" /\ provider' = "edge" /\ Runs(scene, 0, -10, length)
  <2>1. s >= c - 290
    BY <1>1, <1>4, <1>7 DEF Spacing
  <2>2. (0 + c) - s < 420
    BY ONLY <2>1, c \in Nat, s \in Int
  <2>3. -10 \in Int /\ 0 \in {0, 1}
    OBVIOUS
  <2>4. /\ all # <<>> /\ all[Len(all)].end = (c + length) + (-10)
        /\ all[Len(all)].size > 1 => all[Len(all)].start <= c + length
        /\ \E q : Counts(q, all) /\ q[Len(all)] = p[Len(old)] + 0
    <3>1. PICK late \in Int, first \in Int : late = -10 /\ first = 0 /\ Runs(scene, first, late, length)
      BY <1>7
    <3>2. (first + c) - SpeechEnd(old) < 420 \/ 0 = 1
      BY <1>4, <2>2, <3>1
    <3>3. Counts(p, old) /\ Joins(old, scene, c, first, late, length, 0)
      BY <1>2, <3>1, <3>2 DEF Joins
    <3>4. Joined(all, p[Len(old)] + 0, c + length, late)
      BY ONLY <1>6, <3>3, SceneCounted, old \in Seq(Word)
    <3> QED
      BY <3>1, <3>4 DEF Joined
  <2>5. PICK q : Counts(q, all) /\ q[Len(all)] = x
    BY <1>3, <2>4
  <2>6. 2 * x <= n + 1 /\ 2 * x + 1 <= n + 1
    BY <1>2, <1>3
  <2>7. PICK k \in Int : k = c + length + 280
    OBVIOUS
  <2>8. (c + length) + (-10) <= k - 90 /\ c + length <= k - 280 /\ (c + length) + (-10) >= k - 290
    BY <2>7
  <2>9. SpeechEnd(all) = (c + length) + (-10)
    BY <2>4 DEF SpeechEnd
  <2>10. /\ all[Len(all)].end <= k - 90 /\ SpeechEnd(all) >= k - 290
         /\ all[Len(all)].size > 1 => all[Len(all)].start <= k - 280
    <3>1. c + length = k - 280
      BY ONLY <2>7, c \in Nat, length \in Nat, k \in Int
    <3> QED
      BY <2>4, <2>8, <2>9, <3>1
  <2>11. words' = all /\ cursor' = k /\ spoken' = n + 1
    BY <1>5, <1>6, <2>7
  <2>12. \E r : /\ Counts(r, all) /\ 2 * r[Len(all)] <= n + 1
                /\ 2 * r[Len(all)] + 1 <= n + 1 \/ SpeechEnd(all) > k - 170
    BY <2>5, <2>6
  <2> QED
    BY <2>10, <2>11, <2>12 DEF Spacing, SpeechEnd, Counts, Silent
<1>8. CASE provider' = "synth" /\ Runs(scene, 250, 190, length)
  <2>1. PICK inc \in {0, 1} :
            /\ (250 + c) - s < 420 \/ inc = 1
            /\ 2 * (x + inc) <= n + 1
    <3>1. CASE 2 * x + 1 <= n
      <4>1. 2 * (x + 1) <= n + 1 /\ 1 \in {0, 1}
        BY <3>1
      <4> QED
        BY <4>1
    <3>2. CASE s > c - 170
      <4>1. (250 + c) - s < 420
        BY ONLY <3>2, c \in Nat, s \in Int
      <4>2. 2 * (x + 0) <= n + 1 /\ 0 \in {0, 1}
        BY <1>2, <1>3
      <4> QED
        BY <4>1, <4>2
    <3> QED
      BY <1>2, <1>3, <1>4, <3>1, <3>2
  <2>2. /\ all # <<>> /\ all[Len(all)].end = (c + length) + 190
        /\ all[Len(all)].size > 1 => all[Len(all)].start <= c + length
        /\ \E q : Counts(q, all) /\ q[Len(all)] = p[Len(old)] + inc
    <3>1. PICK late \in Int, first \in Int : late = 190 /\ first = 250 /\ Runs(scene, first, late, length)
      BY <1>8
    <3>2. (first + c) - SpeechEnd(old) < 420 \/ inc = 1
      BY <1>4, <2>1, <3>1
    <3>3. Counts(p, old) /\ Joins(old, scene, c, first, late, length, inc)
      BY <1>2, <3>1, <3>2 DEF Joins
    <3>4. Joined(all, p[Len(old)] + inc, c + length, late)
      BY ONLY <1>6, <3>3, SceneCounted, old \in Seq(Word)
    <3> QED
      BY <3>1, <3>4 DEF Joined
  <2>3. PICK q : Counts(q, all) /\ q[Len(all)] = x + inc
    BY <1>3, <2>2
  <2>4. PICK k \in Int : k = c + length + 280
    OBVIOUS
  <2>5. (c + length) + 190 <= k - 90 /\ c + length <= k - 280 /\ (c + length) + 190 > k - 170
    BY <2>4
  <2>6. SpeechEnd(all) = (c + length) + 190
    BY <2>2 DEF SpeechEnd
  <2>7. /\ all[Len(all)].end <= k - 90 /\ SpeechEnd(all) > k - 170
        /\ all[Len(all)].size > 1 => all[Len(all)].start <= k - 280
    <3>1. c + length = k - 280
      BY ONLY <2>4, c \in Nat, length \in Nat, k \in Int
    <3> QED
      BY <2>2, <2>5, <2>6, <3>1
  <2>8. words' = all /\ cursor' = k /\ spoken' = n + 1
    BY <1>5, <1>6, <2>4
  <2>9. \E r : /\ Counts(r, all) /\ 2 * r[Len(all)] <= n + 1
               /\ 2 * r[Len(all)] + 1 <= n + 1 \/ SpeechEnd(all) > k - 170
    BY <2>1, <2>3, <2>7
  <2> QED
    BY <1>8, <2>7, <2>8, <2>9 DEF Spacing, SpeechEnd, Counts, Silent
<1> QED
  BY <1>7, <1>8

\* A scene without words is spoken, by the local voice.
LEMMA EmptySpacing ==
    ASSUME NInv, Spacing, phase = "narration", NEW length \in Nat,
           Speak(NextText, <<>>, length), AlignWordsToDuration(NextText, <<>>, length) = <<>>,
           provider' = "synth"
    PROVE  Spacing'
<1>1. PICK c \in Nat, n \in Nat, old \in Seq(Word) : c = cursor /\ n = spoken /\ old = words
  BY DEF NInv
<1>2. PICK p : Counts(p, old) /\ 2 * p[Len(old)] <= n
  BY <1>1 DEF Spacing
<1>3. PICK x \in Nat : x = p[Len(old)]
  <2>1. Len(old) \in 0 .. Len(old) /\ p \in [0 .. Len(old) -> Nat]
    BY <1>2 DEF Counts
  <2> QED
    BY <2>1
<1>4. words' = old
  <2>1. words' = old \o Shifted(<<>>, c)
    BY <1>1 DEF Speak
  <2>2. Shifted(<<>>, c) = <<>>
    BY DEF Shifted
  <2>3. old \o <<>> = old
    OBVIOUS
  <2> QED
    BY <2>1, <2>2, <2>3
<1>5. PICK k \in Int : k = c + length + 280 /\ cursor' = k /\ spoken' = n + 1
  BY <1>1 DEF Speak
<1>6. old # <<>> => /\ old[Len(old)].end <= k - 90
                    /\ old[Len(old)].size > 1 => old[Len(old)].start <= k - 280
  <2> SUFFICES ASSUME old # <<>>
               PROVE  /\ old[Len(old)].end <= k - 90
                      /\ old[Len(old)].size > 1 => old[Len(old)].start <= k - 280
    OBVIOUS
  <2>1. PICK a \in Int, b \in Int : a = old[Len(old)].start /\ b = old[Len(old)].end
    <3>1. old[Len(old)] \in Word
      OBVIOUS
    <3> QED
      BY <3>1 DEF Word
  <2>2. b <= c - 90 /\ (old[Len(old)].size > 1 => a <= c - 280)
    BY <1>1, <2>1 DEF Spacing
  <2>3. (b <= c - 90 => b <= k - 90) /\ (a <= c - 280 => a <= k - 280)
    BY ONLY <1>5, a \in Int, b \in Int, c \in Nat, length \in Nat, k \in Int
  <2> QED
    BY <2>1, <2>2, <2>3
<1>7. 2 * x <= n + 1 /\ 2 * x + 1 <= n + 1
  BY <1>2, <1>3
<1>8. \E r : /\ Counts(r, old) /\ 2 * r[Len(old)] <= n + 1
             /\ 2 * r[Len(old)] + 1 <= n + 1 \/ SpeechEnd(old) > k - 170
  BY <1>2, <1>3, <1>7
<1> QED
  BY <1>4, <1>5, <1>6, <1>8 DEF Spacing, SpeechEnd, Counts, Silent

LEMMA CutEnds ==
    ASSUME NInv, LInv, CutSilences
    PROVE  \E n \in Nat : /\ 2 * n <= Len(durations)
                          /\ words' # <<>> /\ words'[Len(words')].size > 1 =>
                                 words'[Len(words')].end <= audio' + Lateness(n)
<1>1. phase = "autocleanup" /\ Spacing /\ audio = cursor - 280 /\ spoken = Len(durations)
  BY DEF CutSilences, LInv
<1>2. PICK ws \in Seq(Word), c \in Nat, length \in Int :
          ws = words /\ c = cursor /\ length = audio /\ InOrder(ws) /\ length = c - 280
  BY <1>1 DEF NInv
<1>3. PICK p : Counts(p, ws) /\ 2 * p[Len(ws)] <= spoken
  BY <1>2, <1>1 DEF Spacing
<1>4. PICK x \in Nat : x = p[Len(ws)]
  <2>1. Len(ws) \in 0 .. Len(ws) /\ p \in [0 .. Len(ws) -> Nat]
    BY <1>3 DEF Counts
  <2> QED
    BY <2>1
<1>5. 2 * x <= Len(durations)
  BY <1>1, <1>3, <1>4
<1> SUFFICES ASSUME words' # <<>>, words'[Len(words')].size > 1
             PROVE  words'[Len(words')].end <= audio' + Lateness(x)
  BY <1>5
<1>6. PICK keep : keep = KeepRanges(Silences(Gaps(ws, length)), length)
  OBVIOUS
<1>7. \/ Len(keep) <= 1 /\ words' = ws /\ audio' = length
      \/ /\ ~ (Len(keep) <= 1)
         /\ words' = [i \in DOMAIN ws |-> Shifted(<<ws[i]>>, -CutBefore(ws[i], Gaps(ws, length)))[1]]
         /\ audio' = Total([i \in DOMAIN keep |-> AtLeast(keep[i].to - keep[i].from, 50)])
  BY <1>2, <1>6 DEF CutSilences
<1>8. ws # <<>>
  <2>1. DOMAIN ws = 1 .. Len(ws)
    OBVIOUS
  <2>2. CASE ws = <<>>
    <3>1. DOMAIN ws = {}
      BY <2>2
    <3>2. words' = <<>>
      BY <1>7, <2>2, <3>1
    <3> QED
      BY <3>2
  <2> QED
    BY <2>2
<1>9. PICK m \in Nat : m = Len(ws) /\ m \in 1 .. m /\ DOMAIN ws = 1 .. m
  <2>1. Len(ws) \in Nat /\ Len(ws) \in 1 .. Len(ws) /\ DOMAIN ws = 1 .. Len(ws)
    BY <1>8
  <2> QED
    BY <2>1
<1>10. PICK w \in Word : w = ws[m]
  BY <1>9
<1>11. w.start \in Int /\ w.end \in Int
  BY DEF Word
<1>16. words'[Len(words')].size = w.size
  <2>1. CASE words' = ws
    BY <1>9, <1>10, <2>1
  <2>2. CASE words' = [i \in DOMAIN ws |-> Shifted(<<ws[i]>>, -CutBefore(ws[i], Gaps(ws, length)))[1]]
    <3>1. PICK new, by : new = words' /\ by = -CutBefore(w, Gaps(ws, length))
      OBVIOUS
    <3>2. new = [i \in 1 .. m |-> Shifted(<<ws[i]>>, -CutBefore(ws[i], Gaps(ws, length)))[1]]
      BY <1>9, <2>2, <3>1
    <3>3. Len(new) = m
      BY <3>2
    <3>4. new[m] = Shifted(<<w>>, by)[1]
      BY <1>9, <1>10, <3>1, <3>2
    <3>5. Shifted(<<w>>, by)[1].size = w.size
      <4> DEFINE one == <<w>>
      <4>1. 1 \in DOMAIN one /\ one[1] = w
        OBVIOUS
      <4> HIDE DEF one
      <4>5. Shifted(one, by)[1] = [w EXCEPT !.start = @ + by, !.end = @ + by]
        BY <4>1 DEF Shifted
      <4>2. Shifted(<<w>>, by)[1] = [w EXCEPT !.start = @ + by, !.end = @ + by]
        BY <4>5 DEF one
      <4>3. w = [size |-> w.size, start |-> w.start, end |-> w.end]
        BY DEF Word
      <4>4. [w EXCEPT !.start = @ + by, !.end = @ + by].size = w.size
        BY <4>3
      <4> QED
        BY <4>2, <4>4
    <3> QED
      BY <3>1, <3>3, <3>4, <3>5
  <2> QED
    BY <1>7, <2>1, <2>2
<1>12. w.start <= length /\ w.end <= length + 190
  <2>1. w.end <= c - 90 /\ w.start <= c - 280
    BY <1>1, <1>2, <1>8, <1>9, <1>10, <1>16 DEF Spacing
  <2> QED
    BY <1>2, <1>11, <2>1
<1>13. Lateness(x) = 190 + 140 * x
  BY DEF Lateness
<1>14. CASE Len(keep) <= 1 /\ words' = ws /\ audio' = length
  <2>1. words'[Len(words')].end = w.end
    BY <1>9, <1>10, <1>14
  <2>2. w.end <= length + (190 + 140 * x)
    BY <1>11, <1>12
  <2> QED
    BY <1>13, <1>14, <2>1, <2>2
<1>15. CASE /\ ~ (Len(keep) <= 1)
            /\ words' = [i \in DOMAIN ws |-> Shifted(<<ws[i]>>, -CutBefore(ws[i], Gaps(ws, length)))[1]]
            /\ audio' = Total([i \in DOMAIN keep |-> AtLeast(keep[i].to - keep[i].from, 50)])
  <2>1. keep \in Seq(Span)
    <3>1. Gaps(ws, length) \in Seq(Span)
      BY GapsOf
    <3>2. Silences(Gaps(ws, length)) \in Seq(Span)
      BY <3>1, MarkedType DEF Silences
    <3> QED
      BY <1>6, <3>2, KeptType
  <2>2. Len(keep) \in Nat /\ Len(keep) > 1
    BY <1>15, <2>1
  <2>3. /\ CutBefore(ws[Len(ws)], Gaps(ws, length)) \in Int
        /\ Total(Each(Leaving, keep)) \in Int
        /\ ws[Len(ws)].end - CutBefore(ws[Len(ws)], Gaps(ws, length))
               <= Total(Each(Leaving, keep)) + 190 + 140 * p[Len(ws)]
    BY <1>2, <1>3, <1>6, <1>8, <1>9, <1>10, <1>12, <2>2, CutLateness
  <2>4. PICK cut \in Int : cut = CutBefore(w, Gaps(ws, length))
    BY <1>9, <1>10, <2>3
  <2>5. audio' = Total(Each(Leaving, keep))
    <3>1. ASSUME NEW i \in DOMAIN keep
          PROVE  Leaving[keep[i]] = AtLeast(keep[i].to - keep[i].from, 50)
      <4>1. keep[i] \in Span
        BY <2>1
      <4> QED
        BY <4>1 DEF Leaving
    <3>2. Each(Leaving, keep) = [i \in DOMAIN keep |-> AtLeast(keep[i].to - keep[i].from, 50)]
      BY <3>1 DEF Each
    <3> QED
      BY <1>15, <3>2
  <2>6. PICK left \in Int : left = audio' /\ w.end - cut <= left + 190 + 140 * x
    BY <1>4, <1>9, <1>10, <2>3, <2>4, <2>5
  <2>7. words'[Len(words')].end = w.end - cut
    <3>1. PICK new : new = words'
      OBVIOUS
    <3>2. new = [i \in 1 .. m |-> Shifted(<<ws[i]>>, -CutBefore(ws[i], Gaps(ws, length)))[1]]
      BY <1>9, <1>15, <3>1
    <3>3. Len(new) = m
      BY <3>2
    <3>4. new[m] = Shifted(<<w>>, -cut)[1]
      BY <1>9, <1>10, <2>4, <3>2
    <3>5. Shifted(<<w>>, -cut)[1].end = w.end + (-cut)
      BY ShiftedWord
    <3> QED
      BY <1>11, <3>1, <3>3, <3>4, <3>5
  <2>8. w.end - cut <= left + (190 + 140 * x)
    BY <2>6, <1>11
  <2> QED
    BY <1>13, <2>6, <2>7, <2>8
<1> QED
  BY <1>7, <1>14, <1>15

LEMMA SpacingSteps == NInv /\ LInv /\ [TimingNext]_timing => LInv'
<1> SUFFICES ASSUME NInv, LInv, [TimingNext]_timing PROVE LInv'
  OBVIOUS
<1>1. CASE WriteScript \/ DrawStoryboard
  <2>1. /\ phase \in {"script_writing", "storyboard"} /\ phase' \in {"storyboard", "narration"}
        /\ UNCHANGED <<provider, spoken, cursor, words>>
    BY <1>1 DEF WriteScript, DrawStoryboard
  <2>2. Spacing
    BY <2>1 DEF LInv
  <2>3. Spacing'
    BY <2>1, <2>2 DEF Spacing, SpeechEnd, Counts, Silent
  <2> QED
    BY <2>1, <2>3 DEF LInv
\* A scene is spoken: what is left to show is that the words stay in place.
<1>2. ASSUME NEW ws, NEW length \in Nat, phase = "narration", Speak(NextText, ws, length), Spacing'
      PROVE  LInv'
  <2>1. /\ cursor' = cursor + length + 280 /\ audio' = cursor + length /\ durations' = durations
        /\ phase' = IF spoken' = Len(durations) THEN "autocleanup" ELSE "narration"
    BY <1>2 DEF Speak
  <2>2. cursor \in Nat
    BY <1>2 DEF NInv
  <2>3. audio' = cursor' - 280
    BY <2>1, <2>2
  <2>4. phase' = "autocleanup" => spoken' = Len(durations')
    BY <2>1
  <2>5. phase' \in {"narration", "autocleanup"}
    BY <2>1
  <2> QED
    BY <1>2, <2>3, <2>4, <2>5 DEF LInv
<1>3. CASE SpeakEdge
  <2>1. phase = "narration" /\ provider = "edge" /\ provider' = "edge" /\ NextText # <<>>
    BY <1>3 DEF SpeakEdge
  <2>2. PICK pace \in Paces :
            Speak(NextText, ByRate(NextText, pace * Len(NextText)), pace * Len(NextText))
    BY <1>3 DEF SpeakEdge
  <2>3. NextText \in Texts
    BY <2>1, NextIsText
  <2>4. PICK length \in Nat : length = pace * Len(NextText)
    <3>1. pace \in Nat
      BY NarrationAssumption DEF NarrationAssumption
    <3>2. Len(NextText) \in Nat
      BY <2>3 DEF Texts
    <3>3. \A a, b \in Nat : a * b \in Nat
      OBVIOUS
    <3> QED
      BY <3>1, <3>2, <3>3
  <2>5. PICK ws : ws = ByRate(NextText, length)
    OBVIOUS
  <2>6. Timed(ws, length) /\ Runs(ws, 0, -10, length)
    BY <2>1, <2>3, <2>5, ByRateIsTimed
  <2>7. ws = AlignWordsToDuration(NextText, ws, length) /\ ws \in Seq(Word)
    BY <2>3, <2>5, <2>6, AlignedIsTimed DEF Timed
  <2>8. Speak(NextText, ws, length)
    BY <2>2, <2>4, <2>5
  <2>9. Spacing
    BY <2>1 DEF LInv
  <2>10. Spacing'
    BY <2>1, <2>6, <2>7, <2>8, <2>9, SpacingKept
  <2> QED
    BY <1>2, <2>1, <2>8, <2>10
<1>4. CASE SpeakSynth
  <2>1. /\ phase = "narration" /\ provider' = "synth"
        /\ Speak(NextText, SynthWords(NextText), SynthLength(NextText))
    BY <1>4 DEF SpeakSynth
  <2>2. NextText \in Texts
    BY <2>1, NextIsText
  <2>3. PICK ws \in {SynthWords(NextText)}, length \in Nat : length = SynthLength(NextText)
    BY <2>2, SynthIsTimed
  <2>4. Timed(ws, length) /\ Speak(NextText, ws, length)
    BY <2>1, <2>2, <2>3, SynthIsTimed
  <2>5. Spacing
    BY <2>1 DEF LInv
  <2>6. CASE NextText # <<>>
    <3>1. Runs(ws, 250, 190, length)
      BY <2>2, <2>3, <2>6, SynthIsTimed
    <3>2. PICK scene : scene = AlignWordsToDuration(NextText, ws, length)
      OBVIOUS
    <3>3. Runs(scene, 250, 190, length) /\ scene \in Seq(Word)
      BY <2>2, <2>4, <2>6, <3>1, <3>2, AlignedIsTimed DEF Timed
    <3>4. Spacing'
      BY <2>1, <2>4, <2>5, <3>2, <3>3, SpacingKept
    <3> QED
      BY <1>2, <2>1, <2>4, <3>4
  <2>7. CASE NextText = <<>>
    <3>1. ws = <<>>
      BY <2>3, <2>7 DEF SynthWords
    <3>2. AlignWordsToDuration(NextText, <<>>, length) = <<>> /\ Speak(NextText, <<>>, length)
      BY <2>2, <2>4, <2>7, <3>1, AlignedIsTimed
    <3>3. Spacing'
      BY <2>1, <2>5, <3>2, EmptySpacing
    <3> QED
      BY <1>2, <2>1, <2>4, <3>3
  <2> QED
    BY <2>6, <2>7
<1>5. CASE CutSilences
  <2>1. phase' = "editorial_assembly" /\ durations' = durations
    BY <1>5 DEF CutSilences
  <2>2. \E n \in Nat : /\ 2 * n <= Len(durations')
                       /\ words' # <<>> /\ words'[Len(words')].size > 1 =>
                              words'[Len(words')].end <= audio' + Lateness(n)
    BY <1>5, <2>1, CutEnds
  <2> QED
    BY <2>1, <2>2 DEF LInv, Lateness
<1>6. CASE Assemble \/ Mux \/ Caption
  <2>1. /\ phase \in {"editorial_assembly", "av_mux", "burn_captions"}
        /\ phase' \in {"av_mux", "qa_sync", "burn_captions", "creative_qa"}
        /\ UNCHANGED <<durations, words, audio>>
    BY <1>6 DEF Assemble, Mux, Caption
  <2> QED
    BY <2>1 DEF LInv, Lateness
<1>7. CASE UNCHANGED timing
  BY <1>7 DEF timing, LInv, Spacing, SpeechEnd, Counts, Silent, Lateness
<1> QED
  BY <1>1, <1>3, <1>4, <1>5, <1>6, <1>7 DEF TimingNext

\* CaptionsFitMedia: with at most three beats, and a last word of more than one character,
\* no timing of the captions runs over the end of the video by half a second, whatever the
\* texts, the voices and the cuts: the check that stage_creative_qa makes of them cannot fail.
THEOREM CaptionsFit == TimingSpec => []CaptionsFitMedia
<1>1. NInv /\ DInv /\ LInv => CaptionsFitMedia
  <2> SUFFICES ASSUME NInv, DInv, LInv, phase = "creative_qa", words # <<>>, Len(durations) <= 5,
                      words[Len(words)].size > 1
               PROVE  words[Len(words)].end <= Media + 500
    BY DEF CaptionsFitMedia
  <2>1. PICK n \in Nat : 2 * n <= Len(durations) /\ words[Len(words)].end <= audio + Lateness(n)
    BY DEF LInv
  <2>2. /\ durations \in Seq(Nat \ {0}) /\ durations # <<>> /\ audio \in Nat
        /\ clips = [i \in DOMAIN durations |-> ClipDuration(durations[i], audio, Total(durations))]
    BY DEF DInv
  <2>3. Lateness(n) <= 470 /\ Lateness(n) \in Int
    <3>1. PICK l \in Nat : l = Len(durations)
      BY <2>2
    <3>2. n <= 2
      BY <2>1, <3>1
    <3> QED
      BY <3>2 DEF Lateness
  <2>4. Media \in Int /\ Media >= audio
    <3>1. PICK ds \in Seq(Nat \ {0}), length \in Nat, fps \in Nat \ {0}, cs \in {clips} :
              ds = durations /\ length = audio /\ fps = brief.fps
      BY <2>2, BriefOf DEF NInv
    <3>2. ds # <<>> /\ cs = [i \in DOMAIN ds |-> ClipDuration(ds[i], length, Total(ds))]
      BY <2>2, <3>1
    <3>3. PICK a \in Nat : a = PictureLength(cs, fps)
      BY <3>2, PicturesAddUp
    <3>4. AtLeast(a, length) \in Int /\ length <= AtLeast(a, length)
      BY DEF AtLeast
    <3> QED
      BY <3>1, <3>3, <3>4 DEF Media
  <2>5. PICK e \in Int : e = words[Len(words)].end
    <3>1. words \in Seq(Word)
      BY DEF NInv
    <3>2. words[Len(words)] \in Word
      BY <3>1
    <3> QED
      BY <3>2 DEF Word
  <2> QED
    BY <2>1, <2>2, <2>3, <2>4, <2>5
<1> QED
  BY <1>1, TimingStarts, TimingSteps, DurationsStart, DurationsStep, SpacingStarts, SpacingSteps,
     PTL DEF TimingSpec
=============================================================================
