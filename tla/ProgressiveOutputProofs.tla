----------------------- MODULE ProgressiveOutputProofs -----------------------
(***************************************************************************)
(* Theorems about ProgressiveOutput for sources of every length, segments  *)
(* of every duration and every DVR window.                                 *)
(*                                                                         *)
(* The inductive invariant says that segments are numbered by their place, *)
(* that the loop is over when the last one is there, and of each manifest  *)
(* ever published that it lists the segments after the k-th up to its own  *)
(* turn of the loop, for a k that its numbers and its time are made from.  *)
(***************************************************************************)
EXTENDS ProgressiveOutput, DataLemmas, FiniteSetTheorems, TLAPS

Timed == [number : Nat, duration : Nat]

DurationsOf(segs) == [i \in 1 .. Len(segs) |-> segs[i].duration]
MsOf(segs) == [i \in 1 .. Len(segs) |-> ToMs(segs[i].duration)]

-----------------------------------------------------------------------------
(* Sums of durations *)

\* Ticks make a natural number of milliseconds (a cast to u64 in the renderer).
LEMMA MsType == ASSUME NEW n \in Nat PROVE ToMs(n) \in Nat
BY SourceAssumption DEF ToMs

\* Durations are natural numbers, in ticks and in milliseconds.
LEMMA Addends ==
    ASSUME NEW segs \in Seq(Timed)
    PROVE  /\ \A i \in 1 .. Len(segs) : DurationsOf(segs)[i] \in Nat
           /\ \A i \in 1 .. Len(segs) : MsOf(segs)[i] \in Nat
<1>1. ASSUME NEW i \in 1 .. Len(segs) PROVE segs[i].duration \in Nat
  <2>1. segs[i] \in Timed
      OBVIOUS
  <2> QED BY <2>1 DEF Timed
<1>2. ASSUME NEW i \in 1 .. Len(segs) PROVE ToMs(segs[i].duration) \in Nat
    BY <1>1, MsType
<1> QED BY <1>1, <1>2 DEF DurationsOf, MsOf

\* TotalDuration is the last partial sum of the durations, as the code adds them.
LEMMA TotalIsSum ==
    ASSUME NEW segs \in Seq(Timed), NEW f, IsSum(f, DurationsOf(segs), Len(segs))
    PROVE  TotalDuration(segs) = f[Len(segs)]
<1> DEFINE total == CHOOSE g : g = [i \in 0 .. Len(segs) |->
                        IF i = 0 THEN 0 ELSE g[i - 1] + segs[i].duration]
<1>1. f = [i \in 0 .. Len(segs) |-> IF i = 0 THEN 0 ELSE f[i - 1] + segs[i].duration]
    BY DEF IsSum, DurationsOf
<1>2. total = [i \in 0 .. Len(segs) |->
                        IF i = 0 THEN 0 ELSE total[i - 1] + segs[i].duration]
    BY <1>1
<1> HIDE DEF total
<1>3. DOMAIN total = 0 .. Len(segs) /\ total[0] = 0
    BY <1>2
<1>4. \A i \in 1 .. Len(segs) : total[i] = total[i - 1] + DurationsOf(segs)[i]
  <2>1. \A i \in 1 .. Len(segs) : i \in 0 .. Len(segs) /\ i # 0
      OBVIOUS
  <2>2. \A i \in 1 .. Len(segs) : total[i] = total[i - 1] + segs[i].duration
      BY <1>2, <2>1
  <2> QED BY <2>2 DEF DurationsOf
<1>5. \A i \in 0 .. Len(segs) : total[i] = f[i]
    BY <1>3, <1>4, SumUnique, Len(segs) \in Nat
<1>6. total[Len(segs)] = f[Len(segs)]
    BY <1>5
<1> QED BY <1>6 DEF TotalDuration, total

\* TotalMs is the last partial sum of the truncated durations.
LEMMA TotalMsIsSum ==
    ASSUME NEW segs \in Seq(Timed), NEW f, IsSum(f, MsOf(segs), Len(segs))
    PROVE  TotalMs(segs) = f[Len(segs)]
<1> DEFINE total == CHOOSE g : g = [i \in 0 .. Len(segs) |->
                        IF i = 0 THEN 0 ELSE g[i - 1] + ToMs(segs[i].duration)]
<1>1. f = [i \in 0 .. Len(segs) |-> IF i = 0 THEN 0 ELSE f[i - 1] + ToMs(segs[i].duration)]
    BY DEF IsSum, MsOf
<1>2. total = [i \in 0 .. Len(segs) |->
                        IF i = 0 THEN 0 ELSE total[i - 1] + ToMs(segs[i].duration)]
    BY <1>1
<1> HIDE DEF total
<1>3. DOMAIN total = 0 .. Len(segs) /\ total[0] = 0
    BY <1>2
<1>4. \A i \in 1 .. Len(segs) : total[i] = total[i - 1] + MsOf(segs)[i]
    BY <1>2 DEF MsOf
<1>5. \A i \in 0 .. Len(segs) : total[i] = f[i]
    BY <1>3, <1>4, SumUnique, Len(segs) \in Nat
<1>6. total[Len(segs)] = f[Len(segs)]
    BY <1>5
<1> QED BY <1>6 DEF TotalMs, total

\* A run of segments: its length, its elements, its type.
LEMMA Runs ==
    ASSUME NEW R, NEW segs \in Seq(R), NEW a \in 0 .. Len(segs), NEW b \in a .. Len(segs)
    PROVE  /\ SubSeq(segs, a + 1, b) \in Seq(R)
           /\ Len(SubSeq(segs, a + 1, b)) = b - a
           /\ \A i \in 1 .. b - a : SubSeq(segs, a + 1, b)[i] = segs[a + i]
OBVIOUS

\* What a run of segments lasts is a difference of the sums of all of them.
LEMMA TotalOfRun ==
    ASSUME NEW segs \in Seq(Timed), NEW f, IsSum(f, DurationsOf(segs), Len(segs)),
           NEW a \in 0 .. Len(segs), NEW b \in a .. Len(segs)
    PROVE  TotalDuration(SubSeq(segs, a + 1, b)) = f[b] - f[a]
<1> DEFINE run == SubSeq(segs, a + 1, b)
           h == [i \in 0 .. b - a |-> f[a + i] - f[a]]
<1>1. run \in Seq(Timed) /\ Len(run) = b - a /\ \A i \in 1 .. b - a : run[i] = segs[a + i]
    BY Runs
<1>2. \A i \in 1 .. b - a : DurationsOf(run)[i] = DurationsOf(segs)[a + i]
    BY <1>1 DEF DurationsOf
<1> HIDE DEF run
<1>3. IsSum(h, DurationsOf(run), b - a)
    BY <1>2, SumOfRun, Addends, Len(segs) \in Nat
<1>4. TotalDuration(run) = h[b - a]
    BY <1>1, <1>3, TotalIsSum
<1>5. h[b - a] = f[b] - f[a]
    OBVIOUS
<1> QED BY <1>4, <1>5 DEF run

\* The same in milliseconds.
LEMMA TotalMsOfRun ==
    ASSUME NEW segs \in Seq(Timed), NEW f, IsSum(f, MsOf(segs), Len(segs)),
           NEW a \in 0 .. Len(segs), NEW b \in a .. Len(segs)
    PROVE  TotalMs(SubSeq(segs, a + 1, b)) = f[b] - f[a]
<1> DEFINE run == SubSeq(segs, a + 1, b)
           h == [i \in 0 .. b - a |-> f[a + i] - f[a]]
<1>1. run \in Seq(Timed) /\ Len(run) = b - a /\ \A i \in 1 .. b - a : run[i] = segs[a + i]
    BY Runs
<1>2. \A i \in 1 .. b - a : MsOf(run)[i] = MsOf(segs)[a + i]
    BY <1>1 DEF MsOf
<1> HIDE DEF run
<1>3. IsSum(h, MsOf(run), b - a)
    BY <1>2, SumOfRun, Addends, Len(segs) \in Nat
<1>4. TotalMs(run) = h[b - a]
    BY <1>1, <1>3, TotalMsIsSum
<1>5. h[b - a] = f[b] - f[a]
    OBVIOUS
<1> QED BY <1>4, <1>5 DEF run

\* Going back from the newest segment, the total only grows.
LEMMA TotalsFromEnd ==
    ASSUME NEW segs \in Seq(Timed)
    PROVE  /\ \A i \in 1 .. Len(segs) + 1 : TotalDuration(From(segs, i)) \in Nat
           /\ \A i, j \in 1 .. Len(segs) + 1 : i <= j =>
                  TotalDuration(From(segs, j)) <= TotalDuration(From(segs, i))
           /\ TotalDuration(From(segs, Len(segs) + 1)) = 0
<1>1. PICK f : IsSum(f, DurationsOf(segs), Len(segs))
    BY SumExists, Addends, Len(segs) \in Nat
<1>2. /\ \A i \in 0 .. Len(segs) : f[i] \in Nat
      /\ \A i, j \in 0 .. Len(segs) : i <= j => f[i] <= f[j]
    BY <1>1, SumMonotone, Addends, Len(segs) \in Nat DEF IsSum
<1>3. ASSUME NEW i \in 1 .. Len(segs) + 1
      PROVE  TotalDuration(From(segs, i)) = f[Len(segs)] - f[i - 1]
  <2>1. i - 1 \in 0 .. Len(segs) /\ Len(segs) \in i - 1 .. Len(segs) /\ (i - 1) + 1 = i
      OBVIOUS
  <2>2. TotalDuration(SubSeq(segs, (i - 1) + 1, Len(segs))) = f[Len(segs)] - f[i - 1]
      BY <1>1, <2>1, TotalOfRun
  <2> QED BY <2>1, <2>2 DEF From
<1>4. ASSUME NEW i \in 1 .. Len(segs) + 1
      PROVE  TotalDuration(From(segs, i)) \in Nat
  <2>1. i - 1 \in 0 .. Len(segs) /\ i - 1 <= Len(segs) /\ Len(segs) \in 0 .. Len(segs)
      OBVIOUS
  <2> QED BY <1>2, <1>3, <2>1
<1>5. ASSUME NEW i \in 1 .. Len(segs) + 1, NEW j \in 1 .. Len(segs) + 1, i <= j
      PROVE  TotalDuration(From(segs, j)) <= TotalDuration(From(segs, i))
  <2>1. i - 1 \in 0 .. Len(segs) /\ j - 1 \in 0 .. Len(segs) /\ i - 1 <= j - 1
        /\ Len(segs) \in 0 .. Len(segs)
      BY <1>5
  <2>2. f[i - 1] <= f[j - 1] /\ f[i - 1] \in Nat /\ f[j - 1] \in Nat /\ f[Len(segs)] \in Nat
      BY <1>2, <2>1
  <2>3. f[Len(segs)] - f[j - 1] <= f[Len(segs)] - f[i - 1]
      BY <2>2
  <2> QED BY <1>3, <2>3
<1>6. TotalDuration(From(segs, Len(segs) + 1)) = 0
  <2>1. Len(segs) + 1 \in 1 .. Len(segs) + 1 /\ (Len(segs) + 1) - 1 = Len(segs)
        /\ Len(segs) \in 0 .. Len(segs)
      OBVIOUS
  <2> QED BY <1>2, <1>3, <2>1
<1> QED BY <1>4, <1>5, <1>6

-----------------------------------------------------------------------------
(* The window *)

\* The window holds the segments after the k-th: all of them unless it is
\* active, else as many as fit, found by adding up from the newest
\* (windowed_segments).
LEMMA WindowStart ==
    ASSUME NEW s, s.segments \in Seq(Timed)
    PROVE  \E k \in 0 .. Len(s.segments) :
               /\ WindowedSegments(s) = SubSeq(s.segments, k + 1, Len(s.segments))
               /\ ~ IsDvrActive(s) => k = 0
               /\ IsDvrActive(s) => \A i \in 1 .. Len(s.segments) + 1 :
                      TotalDuration(From(s.segments, i)) <= Window <=> i > k
<1> DEFINE segs == s.segments
           over == {i \in 1 .. Len(segs) : TotalDuration(From(segs, i)) > Window}
<1>1. Window \in Nat /\ segs \in Seq(Timed) /\ Len(segs) \in Nat
    BY SourceAssumption
<1>2. \A i \in 1 .. Len(segs) + 1 : TotalDuration(From(segs, i)) \in Nat
    BY TotalsFromEnd
<1>3. CASE IsDvrActive(s) /\ over # {}
  <2>1. over \subseteq 0 .. Len(segs)
      BY <1>1
  <2> DEFINE k == Max(over)
  <2>2. k \in over /\ \A i \in over : i <= k
    <3> HIDE DEF over, segs
    <3> QED BY <1>1, <1>3, <2>1, MaxOfBounded
  <2>3. k \in 1 .. Len(segs) /\ TotalDuration(From(segs, k)) > Window
      BY <2>2
  <2>4. WindowedSegments(s) = SubSeq(segs, k + 1, Len(segs))
      BY <1>3 DEF WindowedSegments, From
  <2> HIDE DEF k
  <2>5. ASSUME NEW i \in 1 .. Len(segs) + 1
        PROVE  TotalDuration(From(segs, i)) <= Window <=> i > k
    <3>1. CASE i > k /\ i <= Len(segs)
      <4>1. i \in 1 .. Len(segs) /\ ~ (i <= k)
          BY <3>1, <2>3
      <4>2. i \notin over
          BY <2>2, <4>1
      <4>3. ~ (TotalDuration(From(segs, i)) > Window)
          BY <4>1, <4>2
      <4>4. TotalDuration(From(segs, i)) \in Nat
          BY <1>2
      <4> QED BY <1>1, <3>1, <4>3, <4>4
    <3>2. CASE i = Len(segs) + 1
      <4>1. TotalDuration(From(segs, i)) = 0
          BY <3>2, TotalsFromEnd
      <4> QED BY <1>1, <2>3, <3>2, <4>1
    <3>3. CASE i <= k
      <4>1. k \in 1 .. Len(segs) + 1
          BY <2>3
      <4>2. TotalDuration(From(segs, k)) <= TotalDuration(From(segs, i))
          BY <3>3, <4>1, TotalsFromEnd
      <4>3. TotalDuration(From(segs, k)) \in Nat /\ TotalDuration(From(segs, i)) \in Nat
          BY <1>2, <4>1
      <4>4. ~ (TotalDuration(From(segs, i)) <= Window)
          BY <1>1, <2>3, <4>2, <4>3
      <4> QED BY <2>3, <3>3, <4>4
    <3> QED BY <1>1, <2>3, <3>1, <3>2, <3>3
  <2>6. k \in 0 .. Len(segs)
      BY <2>3
  <2> QED BY <1>3, <2>4, <2>5, <2>6
<1>4. CASE ~ (IsDvrActive(s) /\ over # {})
  <2>1. WindowedSegments(s) = segs
      BY <1>4 DEF WindowedSegments
  <2>2. segs = SubSeq(segs, 0 + 1, Len(segs))
      BY <1>1
  <2>3. ASSUME IsDvrActive(s), NEW i \in 1 .. Len(segs) + 1
        PROVE  TotalDuration(From(segs, i)) <= Window <=> i > 0
    <3>1. over = {}
        BY <1>4, <2>3
    <3>2. CASE i = Len(segs) + 1
      <4>1. TotalDuration(From(segs, i)) = 0
          BY <3>2, TotalsFromEnd
      <4> QED BY <1>1, <4>1
    <3>3. CASE i # Len(segs) + 1
      <4>1. i \in 1 .. Len(segs)
          BY <3>3
      <4>2. ~ (TotalDuration(From(segs, i)) > Window)
          BY <3>1, <4>1
      <4>3. TotalDuration(From(segs, i)) \in Nat
          BY <1>2
      <4> QED BY <1>1, <4>2, <4>3
    <3> QED BY <3>2, <3>3
  <2>4. 0 \in 0 .. Len(segs)
      BY <1>1
  <2> HIDE DEF segs
  <2>5. QED BY <2>1, <2>2, <2>3, <2>4 DEF segs
<1> QED BY <1>3, <1>4

\* A list of segments numbered by their place (source segments are numbered from 0).
NumberedByPlace(segs) == \A i \in 1 .. Len(segs) : segs[i].number = i - 1

\* What a manifest says of the window that begins after the k-th segment: its
\* first and last number, and the segments before it.
LEMMA WindowNumbers ==
    ASSUME NEW segs \in Seq(Timed), NumberedByPlace(segs), NEW k \in 0 .. Len(segs), k < Len(segs)
    PROVE  LET run == SubSeq(segs, k + 1, Len(segs))
           IN  /\ run # <<>> /\ run[1].number = k
               /\ FirstNumber(run) = k /\ LastNumber(run) = Len(segs) - 1
               /\ Numbers(run) = k .. Len(segs) - 1
               /\ Before(segs, k) = SubSeq(segs, 1, k)
<1> DEFINE run == SubSeq(segs, k + 1, Len(segs))
<1>1. /\ run \in Seq(Timed) /\ Len(run) = Len(segs) - k
      /\ \A i \in 1 .. Len(segs) - k : run[i] = segs[k + i]
    BY Runs, Len(segs) \in k .. Len(segs)
<1> HIDE DEF run
<1>2. ASSUME NEW i \in 1 .. Len(run) PROVE run[i].number = k + i - 1
  <2>1. run[i] = segs[k + i] /\ k + i \in 1 .. Len(segs)
      BY <1>1
  <2> QED BY <2>1 DEF NumberedByPlace
<1>3. Len(run) \in Nat /\ Len(run) >= 1 /\ run # <<>>
    BY <1>1
<1>4. run[1].number = k /\ run[Len(run)].number = Len(segs) - 1
    BY <1>1, <1>2, <1>3
<1>5. Numbers(run) = k .. Len(segs) - 1
  <2>1. ASSUME NEW x \in k .. Len(segs) - 1 PROVE x \in Numbers(run)
    <3>1. x - k + 1 \in 1 .. Len(run)
        BY <1>1
    <3>2. run[x - k + 1].number = x
        BY <1>2, <3>1
    <3> QED BY <3>1, <3>2 DEF Numbers
  <2>2. ASSUME NEW x \in Numbers(run) PROVE x \in k .. Len(segs) - 1
      BY <1>1, <1>2 DEF Numbers
  <2> QED BY <2>1, <2>2
<1>6. Before(segs, k) = SubSeq(segs, 1, k)
  <2> DEFINE B == {i \in 1 .. Len(segs) : \A j \in 1 .. i : segs[j].number < k}
  <2>1. ASSUME NEW i \in B PROVE i \in 1 .. k
    <3>1. i \in 1 .. Len(segs) /\ segs[i].number < k
        BY i \in 1 .. i
    <3> QED BY <3>1 DEF NumberedByPlace
  <2>2. ASSUME NEW i \in 1 .. k PROVE i \in B
      BY DEF NumberedByPlace
  <2>3. B = 1 .. k
      BY <2>1, <2>2
  <2>4. Cardinality(1 .. k) = k
      BY FS_Interval, 1 \in Int, k \in Int
  <2> QED BY <2>3, <2>4 DEF Before
<1> QED BY <1>3, <1>4, <1>5, <1>6 DEF run, FirstNumber, LastNumber

-----------------------------------------------------------------------------
(* The inductive invariant *)

Phases == {"AwaitingFirstSegment", "Live", "Complete"}

StateType ==
    [phase : Phases, segments : Seq(SegmentRecords),
     parts : SUBSET [segment : 0 .. SourceLength - 1, index : 1 .. PartCount],
     iframes : SUBSET [segment : 0 .. SourceLength - 1],
     adBreaks : SUBSET [segment : 0 .. SourceLength - 1, time : Nat],
     target : Nat, mediaSequence : {0}]

TypeInv ==
    /\ state \in StateType
    /\ published \in Seq(Manifests)
    /\ sourceIsLive \in BOOLEAN /\ next \in Nat /\ elapsed \in Nat
    /\ loop \in {"running", "ended", "failed"}
    /\ \A x \in state.adBreaks : x.time <= elapsed

LoopInv ==
    /\ Len(state.segments) = next /\ next <= SourceLength
    /\ NumberedByPlace(state.segments)
    /\ loop = "running" => next < SourceLength
    /\ state.phase = "AwaitingFirstSegment" <=> next = 0
    /\ state.phase = "Complete" <=> next = SourceLength /\ ~ sourceIsLive
    /\ \A items \in {state.parts, state.iframes, state.adBreaks} :
           \A x \in items : x.segment < next

\* The a-th manifest lists the segments after the k-th; its numbers and its time
\* are those of the k segments before them.
ListsAfter(a, k) ==
    /\ published[a].listed = SubSeq(state.segments, k + 1, a)
    /\ k < a => /\ published[a].sequence = k
                /\ published[a].startTime = TotalMs(SubSeq(state.segments, 1, k))
    /\ published[a].immutable => a = SourceLength /\ k = 0 /\ ~ sourceIsLive

PublishedInv ==
    /\ Len(published) = next
    /\ \A a \in 1 .. Len(published) : \E k \in 0 .. a : ListsAfter(a, k)

OutputInv == TypeInv /\ LoopInv /\ PublishedInv

-----------------------------------------------------------------------------
(* The calls of the loop *)

\* Segments as they are recorded have a natural number and duration.
LEMMA RecordsTimed == SegmentRecords \subseteq Timed /\ Seq(SegmentRecords) \subseteq Seq(Timed)
<1>1. SegmentRecords \subseteq Timed
  <2>1. 0 .. SourceLength - 1 \subseteq Nat /\ Durations \subseteq Nat
      BY SourceAssumption
  <2> HIDE SourceAssumption
  <2> QED BY <2>1 DEF SegmentRecords, Timed
<1> QED BY <1>1

\* Parts are added to the state and nothing else of it changes (add_parts).
LEMMA PartsAdded ==
    ASSUME NEW s \in StateType, NEW n \in 0 .. SourceLength - 1
    PROVE  /\ AddParts(s, n) \in StateType
           /\ \A f \in {"phase", "segments", "iframes", "adBreaks", "target", "mediaSequence"} :
                  AddParts(s, n)[f] = s[f]
           /\ s.parts \subseteq AddParts(s, n).parts
           /\ \A x \in AddParts(s, n).parts : x \in s.parts \/ x.segment = n
<1> DEFINE new == {[segment |-> n, index |-> p] : p \in 1 .. PartCount}
<1>1. CASE PartCount > 1
  <2>1. AddParts(s, n) = [s EXCEPT !.parts = s.parts \cup new]
      BY <1>1 DEF AddParts
  <2>2. new \subseteq [segment : 0 .. SourceLength - 1, index : 1 .. PartCount]
      OBVIOUS
  <2>3. \A x \in new : x.segment = n
      OBVIOUS
  <2> HIDE DEF new
  <2> QED BY <2>1, <2>2, <2>3 DEF StateType
<1>2. CASE ~ (PartCount > 1)
    BY <1>2 DEF AddParts
<1> QED BY <1>1, <1>2

\* So is an I-frame entry (add_iframe_info).
LEMMA IframeAdded ==
    ASSUME NEW s \in StateType, NEW n \in 0 .. SourceLength - 1
    PROVE  /\ AddIframeInfo(s, n) \in StateType
           /\ \A f \in {"phase", "segments", "parts", "adBreaks", "target", "mediaSequence"} :
                  AddIframeInfo(s, n)[f] = s[f]
           /\ s.iframes \subseteq AddIframeInfo(s, n).iframes
           /\ \A x \in AddIframeInfo(s, n).iframes : x \in s.iframes \/ x.segment = n
<1>1. CASE TrickPlay
  <2>1. AddIframeInfo(s, n) = [s EXCEPT !.iframes = s.iframes \cup {[segment |-> n]}]
      BY <1>1 DEF AddIframeInfo
  <2> QED BY <2>1 DEF StateType
<1>2. CASE ~ TrickPlay
    BY <1>2 DEF AddIframeInfo
<1> QED BY <1>1, <1>2

\* A segment is appended and the output becomes live (add_segment).
LEMMA SegmentAdded ==
    ASSUME NEW s \in StateType, NEW n \in 0 .. SourceLength - 1, NEW d \in Durations
    PROVE  /\ AddSegment(s, n, d) \in StateType
           /\ \A f \in {"parts", "iframes", "adBreaks", "mediaSequence"} :
                  AddSegment(s, n, d)[f] = s[f]
           /\ AddSegment(s, n, d).segments = Append(s.segments, [number |-> n, duration |-> d])
           /\ AddSegment(s, n, d).phase =
                  IF s.phase = "AwaitingFirstSegment" THEN "Live" ELSE s.phase
<1> DEFINE segs == Append(s.segments, [number |-> n, duration |-> d])
           target == IF d > s.target THEN d ELSE s.target
           phase == IF s.phase = "AwaitingFirstSegment" THEN "Live" ELSE s.phase
<1>1. AddSegment(s, n, d) =
          [s EXCEPT !.segments = segs, !.target = target, !.phase = phase]
    BY DEF AddSegment, StateType
<1>2. segs \in Seq(SegmentRecords)
  <2>1. [number |-> n, duration |-> d] \in SegmentRecords /\ s.segments \in Seq(SegmentRecords)
      BY DEF SegmentRecords, StateType
  <2> QED BY <2>1
<1>3. target \in Nat /\ phase \in Phases
    BY SourceAssumption DEF StateType, Phases
<1> HIDE DEF segs, target, phase
<1>4. /\ AddSegment(s, n, d) \in StateType
      /\ \A f \in {"parts", "iframes", "adBreaks", "mediaSequence"} :
             AddSegment(s, n, d)[f] = s[f]
      /\ AddSegment(s, n, d).segments = segs /\ AddSegment(s, n, d).phase = phase
    BY <1>1, <1>2, <1>3 DEF StateType
<1> QED BY <1>4 DEF segs, phase

\* An ad break is added (add_ad_break).
LEMMA AdBreakAdded ==
    ASSUME NEW s \in StateType, NEW n \in 0 .. SourceLength - 1, NEW t \in Nat
    PROVE  /\ AddAdBreak(s, n, t) \in StateType
           /\ \A f \in {"phase", "segments", "parts", "iframes", "target", "mediaSequence"} :
                  AddAdBreak(s, n, t)[f] = s[f]
           /\ s.adBreaks \subseteq AddAdBreak(s, n, t).adBreaks
           /\ \A x \in AddAdBreak(s, n, t).adBreaks :
                  x \in s.adBreaks \/ (x.segment = n /\ x.time = t)
<1>1. AddAdBreak(s, n, t) =
          [s EXCEPT !.adBreaks = s.adBreaks \cup {[segment |-> n, time |-> t]}]
    BY DEF AddAdBreak
<1> QED BY <1>1 DEF StateType

\* The output is completed (finalize).
LEMMA Finalized ==
    ASSUME NEW s \in StateType
    PROVE  /\ Finalize(s) \in StateType /\ Finalize(s).phase = "Complete"
           /\ \A f \in {"segments", "parts", "iframes", "adBreaks", "target", "mediaSequence"} :
                  Finalize(s)[f] = s[f]
BY DEF Finalize, StateType, Phases

\* What a turn of the loop leaves in the state, and what it publishes of it.
LEMMA Turn ==
    ASSUME TypeInv, LoopInv,
           NEW d \in Durations, NEW idr \in BOOLEAN, NEW ad \in BOOLEAN,
           ProcessSegment(d, idr, ad)
    PROVE  /\ state' \in StateType
           /\ state'.segments = Append(state.segments, [number |-> next, duration |-> d])
           /\ state'.phase = IF IsLast(next) THEN "Complete"
                             ELSE IF state.phase = "AwaitingFirstSegment" THEN "Live"
                             ELSE state.phase
           /\ state.parts \subseteq state'.parts
           /\ state.iframes \subseteq state'.iframes
           /\ state.adBreaks \subseteq state'.adBreaks
           /\ \A x \in state'.parts : x \in state.parts \/ x.segment = next
           /\ \A x \in state'.iframes : x \in state.iframes \/ x.segment = next
           /\ \A x \in state'.adBreaks :
                  x \in state.adBreaks \/ (x.segment = next /\ x.time = elapsed)
           /\ published' = Append(published, Render(state'))
           /\ next' = next + 1 /\ elapsed' = elapsed + d /\ sourceIsLive' = sourceIsLive
           /\ loop = "running" /\ next \in 0 .. SourceLength - 1
           /\ loop' = IF next + 1 = SourceLength THEN "ended" ELSE "running"
<1> DEFINE parted  == AddParts(state, next)
           tricked == IF idr THEN AddIframeInfo(parted, next) ELSE parted
           added   == AddSegment(tricked, next, d)
           broken  == IF ad THEN AddAdBreak(added, next, elapsed) ELSE added
           final   == IF IsLast(next) THEN Finalize(broken) ELSE broken
<1>1. /\ loop = "running" /\ state' = final /\ elapsed' = elapsed + d
      /\ published' = Append(published, Render(final)) /\ next' = next + 1
      /\ sourceIsLive' = sourceIsLive
      /\ loop' = IF next + 1 = SourceLength THEN "ended" ELSE "running"
    BY DEF ProcessSegment
<1>2. next \in 0 .. SourceLength - 1 /\ elapsed \in Nat /\ state \in StateType
    BY <1>1, SourceAssumption DEF TypeInv, LoopInv
<1>3. /\ parted \in StateType
      /\ parted.phase = state.phase /\ parted.segments = state.segments
      /\ parted.iframes = state.iframes /\ parted.adBreaks = state.adBreaks
      /\ state.parts \subseteq parted.parts
      /\ \A x \in parted.parts : x \in state.parts \/ x.segment = next
  <2> HIDE DEF parted
  <2> QED BY <1>2, PartsAdded DEF parted
<1>4. /\ tricked \in StateType
      /\ tricked.phase = parted.phase /\ tricked.segments = parted.segments
      /\ tricked.parts = parted.parts /\ tricked.adBreaks = parted.adBreaks
      /\ parted.iframes \subseteq tricked.iframes
      /\ \A x \in tricked.iframes : x \in parted.iframes \/ x.segment = next
  <2> HIDE DEF parted
  <2>1. CASE idr
    <3>1. tricked = AddIframeInfo(parted, next)
        BY <2>1
    <3> HIDE DEF tricked
    <3> QED BY <1>2, <1>3, <3>1, IframeAdded
  <2>2. CASE ~ idr
      BY <1>3, <2>2
  <2> QED BY <2>1, <2>2
<1>5. /\ added \in StateType
      /\ added.phase = IF tricked.phase = "AwaitingFirstSegment" THEN "Live" ELSE tricked.phase
      /\ added.segments = Append(tricked.segments, [number |-> next, duration |-> d])
      /\ added.parts = tricked.parts /\ added.iframes = tricked.iframes
      /\ added.adBreaks = tricked.adBreaks
  <2> HIDE DEF tricked
  <2> QED BY <1>2, <1>4, SegmentAdded
<1>6. /\ broken \in StateType
      /\ broken.phase = added.phase /\ broken.segments = added.segments
      /\ broken.parts = added.parts /\ broken.iframes = added.iframes
      /\ added.adBreaks \subseteq broken.adBreaks
      /\ \A x \in broken.adBreaks : x \in added.adBreaks \/ (x.segment = next /\ x.time = elapsed)
  <2> HIDE DEF added
  <2>1. CASE ad
    <3>1. broken = AddAdBreak(added, next, elapsed)
        BY <2>1
    <3> HIDE DEF broken
    <3>2. added \in StateType /\ next \in 0 .. SourceLength - 1 /\ elapsed \in Nat
        BY <1>2, <1>5
    <3>3. /\ broken \in StateType
          /\ \A f \in {"phase", "segments", "parts", "iframes", "target", "mediaSequence"} :
                 broken[f] = added[f]
          /\ added.adBreaks \subseteq broken.adBreaks
          /\ \A x \in broken.adBreaks : x \in added.adBreaks \/ (x.segment = next /\ x.time = elapsed)
        BY <3>1, <3>2, AdBreakAdded
    <3> QED BY <3>3
  <2>2. CASE ~ ad
      BY <1>5, <2>2
  <2> QED BY <2>1, <2>2
<1>7. /\ final \in StateType
      /\ final.phase = (IF IsLast(next) THEN "Complete" ELSE broken.phase)
      /\ final.segments = broken.segments
      /\ final.parts = broken.parts /\ final.iframes = broken.iframes
      /\ final.adBreaks = broken.adBreaks
  <2> HIDE DEF broken
  <2>1. CASE IsLast(next)
    <3>1. final = Finalize(broken)
        BY <2>1
    <3> HIDE DEF final
    <3> QED BY <1>6, <2>1, <3>1, Finalized
  <2>2. CASE ~ IsLast(next)
      BY <1>6, <2>2
  <2> QED BY <2>1, <2>2
<1> HIDE DEF parted, tricked, added, broken, final
<1>8. /\ final.segments = Append(state.segments, [number |-> next, duration |-> d])
      /\ final.phase = IF IsLast(next) THEN "Complete"
                       ELSE IF state.phase = "AwaitingFirstSegment" THEN "Live"
                       ELSE state.phase
    BY <1>3, <1>4, <1>5, <1>6, <1>7
<1>9. /\ state.parts \subseteq final.parts
      /\ state.iframes \subseteq final.iframes
      /\ state.adBreaks \subseteq final.adBreaks
      /\ \A x \in final.parts : x \in state.parts \/ x.segment = next
      /\ \A x \in final.iframes : x \in state.iframes \/ x.segment = next
      /\ \A x \in final.adBreaks : x \in state.adBreaks \/ (x.segment = next /\ x.time = elapsed)
    BY <1>3, <1>4, <1>5, <1>6, <1>7
<1> QED BY <1>1, <1>2, <1>7, <1>8, <1>9

\* A manifest is made of the state: windowed views hold nothing the state has not.
LEMMA Rendered ==
    ASSUME NEW s \in StateType
    PROVE  /\ Render(s).sequence \in Nat /\ Render(s).startNumber \in Nat
           /\ Render(s).startTime \in Nat /\ Render(s).listed \in Seq(SegmentRecords)
           /\ Render(s).parts \subseteq s.parts /\ Render(s).iframes \subseteq s.iframes
           /\ Render(s).adBreaks \subseteq s.adBreaks
<1>1. s.segments \in Seq(SegmentRecords) /\ s.segments \in Seq(Timed)
    BY RecordsTimed DEF StateType
<1>2. PICK k \in 0 .. Len(s.segments) :
          WindowedSegments(s) = SubSeq(s.segments, k + 1, Len(s.segments))
    BY <1>1, WindowStart
<1>3. WindowedSegments(s) \in Seq(SegmentRecords) /\ WindowedSegments(s) \in Seq(Timed)
    BY <1>1, <1>2, Runs, RecordsTimed, Len(s.segments) \in k .. Len(s.segments)
<1> DEFINE w == WindowedSegments(s)
<1> HIDE DEF w
<1>4. FirstNumber(w) \in Nat /\ (w # <<>> => w[1].number \in Nat)
  <2>1. w # <<>> => w[1] \in Timed
      BY <1>3 DEF w
  <2>2. w # <<>> => w[1].number \in Nat
      BY <2>1 DEF Timed
  <2> QED BY <2>2 DEF FirstNumber
<1>5. WindowedMediaSequence(s) \in Nat
    BY <1>4 DEF WindowedMediaSequence, StateType, w
<1>6. TotalMs(Before(s.segments, FirstNumber(w))) \in Nat
  <2> DEFINE B == {i \in 1 .. Len(s.segments) : \A j \in 1 .. i : s.segments[j].number < FirstNumber(w)}
  <2>1. Cardinality(B) \in 0 .. Len(s.segments)
    <3> DEFINE n == Len(s.segments)
    <3>0. n \in Nat
        BY <1>1
    <3> HIDE DEF n
    <3>1. IsFiniteSet(1 .. n) /\ Cardinality(1 .. n) = n
        BY <3>0, FS_Interval, 1 \in Int, n \in Int
    <3>2. B \subseteq 1 .. n
        BY DEF n
    <3> HIDE DEF B
    <3>3. IsFiniteSet(B) /\ Cardinality(B) <= Cardinality(1 .. n)
        BY <3>1, <3>2, FS_Subset
    <3>4. Cardinality(B) \in Nat
        BY <3>3, FS_CardinalityType
    <3> QED BY <3>0, <3>1, <3>3, <3>4 DEF n
  <2>2. Before(s.segments, FirstNumber(w)) = SubSeq(s.segments, 0 + 1, Cardinality(B))
      BY DEF Before
  <2> HIDE DEF B
  <2>3. PICK f : IsSum(f, MsOf(s.segments), Len(s.segments))
      BY <1>1, SumExists, Addends, Len(s.segments) \in Nat
  <2>4. 0 \in 0 .. Len(s.segments) /\ Cardinality(B) \in 0 .. Len(s.segments)
      BY <1>1, <2>1
  <2>5. TotalMs(SubSeq(s.segments, 0 + 1, Cardinality(B))) = f[Cardinality(B)] - f[0]
      BY <1>1, <2>3, <2>4, TotalMsOfRun
  <2>6. f[0] = 0 /\ f[Cardinality(B)] \in Nat
      BY <2>1, <2>3 DEF IsSum
  <2> QED BY <2>2, <2>5, <2>6
<1>7. \A items : Windowed(s, items) \subseteq items
    BY DEF Windowed
<1>8. /\ Render(s).sequence = WindowedMediaSequence(s)
      /\ Render(s).startNumber = FirstNumber(w)
      /\ Render(s).startTime = TotalMs(Before(s.segments, FirstNumber(w)))
      /\ Render(s).listed = w
      /\ Render(s).parts = Windowed(s, s.parts)
      /\ Render(s).iframes = Windowed(s, s.iframes)
      /\ Render(s).adBreaks = Windowed(s, s.adBreaks)
    BY DEF Render, WindowTime, w
<1> QED BY <1>3, <1>4, <1>5, <1>6, <1>7, <1>8 DEF w

-----------------------------------------------------------------------------
(* The invariant is inductive *)

\* Nothing is published and the state is empty (ProgressiveOutput::new).
LEMMA OutputInit == Init => OutputInv
<1> SUFFICES ASSUME Init PROVE OutputInv
    OBVIOUS
<1>1. DefaultTarget \in Nat /\ SourceLength \in Nat \ {0}
    BY SourceAssumption
<1>2. state \in StateType
    BY <1>1 DEF Init, StateType, Phases
<1>3. TypeInv
    BY <1>2 DEF Init, TypeInv
<1>4. LoopInv
    BY <1>1 DEF Init, LoopInv, NumberedByPlace
<1>5. PublishedInv
    BY DEF Init, PublishedInv
<1> QED BY <1>3, <1>4, <1>5 DEF OutputInv

\* Types, and the places of the ad breaks.
LEMMA TypeTurn ==
    ASSUME OutputInv, NEW d \in Durations, NEW idr \in BOOLEAN, NEW ad \in BOOLEAN,
           ProcessSegment(d, idr, ad)
    PROVE  TypeInv'
<1>1. TypeInv /\ LoopInv
    BY DEF OutputInv
<1>2. Durations \subseteq Nat
    BY SourceAssumption
<1> DEFINE r == Render(state')
<1>3. /\ state' \in StateType
      /\ published' = Append(published, r)
      /\ next' = next + 1 /\ elapsed' = elapsed + d /\ sourceIsLive' = sourceIsLive
      /\ loop' = IF next + 1 = SourceLength THEN "ended" ELSE "running"
      /\ \A x \in state'.adBreaks :
             x \in state.adBreaks \/ (x.segment = next /\ x.time = elapsed)
    BY <1>1, Turn
<1>4. /\ state.parts \subseteq state'.parts
      /\ state.iframes \subseteq state'.iframes
      /\ state.adBreaks \subseteq state'.adBreaks
    BY <1>1, Turn
<1>5. r \in Manifests'
  <2>1. /\ r.sequence \in Nat /\ r.startNumber \in Nat
        /\ r.startTime \in Nat /\ r.listed \in Seq(SegmentRecords)
        /\ r.parts \in SUBSET state'.parts /\ r.iframes \in SUBSET state'.iframes
        /\ r.adBreaks \in SUBSET state'.adBreaks
      BY <1>3, Rendered
  <2> DEFINE c == state'.phase = "Complete"
  <2>2. /\ r = [complete |-> c, sequence |-> r.sequence, startNumber |-> r.startNumber,
                startTime |-> r.startTime, listed |-> r.listed, parts |-> r.parts,
                iframes |-> r.iframes, adBreaks |-> r.adBreaks, target |-> state'.target,
                immutable |-> c]
      BY DEF Render
  <2>3. c \in BOOLEAN /\ state'.target \in Nat
      BY <1>3 DEF StateType
  <2> HIDE DEF r, c
  <2> QED BY <2>1, <2>2, <2>3 DEF Manifests
<1>6. Manifests \subseteq Manifests'
  <2>1. /\ SUBSET state.parts \subseteq SUBSET state'.parts
        /\ SUBSET state.iframes \subseteq SUBSET state'.iframes
        /\ SUBSET state.adBreaks \subseteq SUBSET state'.adBreaks
      BY <1>4
  <2> QED BY <2>1 DEF Manifests
<1>7. published' \in Seq(Manifests')
  <2>1. published \in Seq(Manifests')
      BY <1>1, <1>6 DEF TypeInv
  <2> HIDE DEF r
  <2> QED BY <1>3, <1>5, <2>1
<1>8. /\ sourceIsLive' \in BOOLEAN /\ next' \in Nat /\ elapsed' \in Nat
      /\ loop' \in {"running", "ended", "failed"}
      /\ \A x \in state'.adBreaks : x.time <= elapsed'
  <2>1. /\ elapsed \in Nat /\ d \in Nat /\ next \in Nat /\ sourceIsLive \in BOOLEAN
        /\ \A x \in state.adBreaks : x.time <= elapsed /\ x.time \in Nat
      BY <1>1, <1>2 DEF TypeInv, StateType
  <2>2. \A x \in state'.adBreaks : x.time <= elapsed'
      BY <1>3, <2>1
  <2> QED BY <1>3, <2>1, <2>2
<1> QED BY <1>3, <1>7, <1>8 DEF TypeInv

\* Numbers, phase and the end of the loop.
LEMMA LoopTurn ==
    ASSUME OutputInv, NEW d \in Durations, NEW idr \in BOOLEAN, NEW ad \in BOOLEAN,
           ProcessSegment(d, idr, ad)
    PROVE  LoopInv'
<1>1. TypeInv /\ LoopInv
    BY DEF OutputInv
<1>2. /\ state'.segments = Append(state.segments, [number |-> next, duration |-> d])
      /\ state'.phase = IF IsLast(next) THEN "Complete"
                        ELSE IF state.phase = "AwaitingFirstSegment" THEN "Live"
                        ELSE state.phase
      /\ next' = next + 1 /\ sourceIsLive' = sourceIsLive
      /\ loop' = IF next + 1 = SourceLength THEN "ended" ELSE "running"
      /\ next \in 0 .. SourceLength - 1
    BY <1>1, Turn
<1>3. /\ \A x \in state'.parts : x \in state.parts \/ x.segment = next
      /\ \A x \in state'.iframes : x \in state.iframes \/ x.segment = next
      /\ \A x \in state'.adBreaks : x \in state.adBreaks \/ x.segment = next
    BY <1>1, Turn
<1>4. /\ state.segments \in Seq(SegmentRecords) /\ Len(state.segments) = next
      /\ SourceLength \in Nat /\ next \in Nat
    BY <1>1, SourceAssumption DEF TypeInv, StateType, LoopInv
<1>5. Len(state'.segments) = next' /\ next' <= SourceLength
    BY <1>2, <1>4
<1>6. NumberedByPlace(state'.segments)
  <2> SUFFICES ASSUME NEW i \in 1 .. next + 1 PROVE state'.segments[i].number = i - 1
      BY <1>2, <1>5 DEF NumberedByPlace
  <2>1. CASE i = next + 1
      BY <1>2, <1>4, <2>1
  <2>2. CASE i # next + 1
    <3>1. i \in 1 .. Len(state.segments) /\ state'.segments[i] = state.segments[i]
        BY <1>2, <1>4, <2>2
    <3> QED BY <1>1, <3>1 DEF LoopInv, NumberedByPlace
  <2> QED BY <2>1, <2>2
<1>7. loop' = "running" => next' < SourceLength
    BY <1>2, <1>4
<1>8. state.phase \in Phases /\ (state.phase = "AwaitingFirstSegment" <=> next = 0)
      /\ (state.phase = "Complete" <=> next = SourceLength /\ ~ sourceIsLive)
    BY <1>1 DEF TypeInv, StateType, LoopInv
<1>9. /\ state'.phase = "AwaitingFirstSegment" <=> next' = 0
      /\ state'.phase = "Complete" <=> next' = SourceLength /\ ~ sourceIsLive'
  <2>1. CASE IsLast(next)
      BY <1>2, <1>4, <2>1 DEF IsLast
  <2>2. CASE ~ IsLast(next)
    <3>1. state'.phase = IF state.phase = "AwaitingFirstSegment" THEN "Live" ELSE state.phase
        BY <1>2, <2>2
    <3>2. ~ (next' = SourceLength /\ ~ sourceIsLive') /\ next # SourceLength /\ next' # 0
        BY <1>2, <1>4, <2>2 DEF IsLast
    <3> QED BY <1>8, <3>1, <3>2
  <2> QED BY <2>1, <2>2
<1>10. \A items \in {state'.parts, state'.iframes, state'.adBreaks} :
          \A x \in items : x.segment < next'
  <2>1. /\ \A x \in state.parts : x.segment < next /\ x.segment \in Int
        /\ \A x \in state.iframes : x.segment < next /\ x.segment \in Int
        /\ \A x \in state.adBreaks : x.segment < next /\ x.segment \in Int
      BY <1>1, <1>4 DEF LoopInv, TypeInv, StateType
  <2>2. \A x \in state'.parts : x.segment < next'
      BY <1>2, <1>3, <1>4, <2>1
  <2>3. \A x \in state'.iframes : x.segment < next'
      BY <1>2, <1>3, <1>4, <2>1
  <2>4. \A x \in state'.adBreaks : x.segment < next'
      BY <1>2, <1>3, <1>4, <2>1
  <2> QED BY <2>2, <2>3, <2>4
<1> QED BY <1>5, <1>6, <1>7, <1>9, <1>10 DEF LoopInv

\* What is published stays as it was, and the new manifest is of the window of
\* the segments so far.
LEMMA PublishedTurn ==
    ASSUME OutputInv, NEW d \in Durations, NEW idr \in BOOLEAN, NEW ad \in BOOLEAN,
           ProcessSegment(d, idr, ad)
    PROVE  PublishedInv'
<1>1. TypeInv /\ LoopInv /\ PublishedInv
    BY DEF OutputInv
<1>2. /\ state' \in StateType
      /\ state'.segments = Append(state.segments, [number |-> next, duration |-> d])
      /\ published' = Append(published, Render(state'))
      /\ next' = next + 1 /\ sourceIsLive' = sourceIsLive /\ next \in 0 .. SourceLength - 1
    BY <1>1, Turn
<1>3. LoopInv'
    BY LoopTurn
<1> DEFINE segs == state.segments
           last == [number |-> next, duration |-> d]
           more == Append(segs, last)
           r == Render(state')
<1>4. /\ segs \in Seq(SegmentRecords) /\ Len(segs) = next /\ last \in SegmentRecords
      /\ published \in Seq(Manifests) /\ Len(published) = next /\ next \in Nat
    BY <1>1, <1>2 DEF TypeInv, StateType, LoopInv, PublishedInv, SegmentRecords
<1>5. more \in Seq(SegmentRecords) /\ Len(more) = next + 1 /\ more \in Seq(Timed)
    BY <1>4, RecordsTimed
<1>6. Len(published') = next'
    BY <1>2, <1>4
<1>7. ASSUME NEW a \in 1 .. next PROVE \E k \in 0 .. a : ListsAfter(a, k)'
  <2>1. PICK k \in 0 .. a : ListsAfter(a, k)
      BY <1>1, <1>4 DEF PublishedInv
  <2>2. published'[a] = published[a]
      BY <1>2, <1>4
  <2>3. SubSeq(more, k + 1, a) = SubSeq(segs, k + 1, a) /\ SubSeq(more, 1, k) = SubSeq(segs, 1, k)
      BY <1>4, <1>5
  <2>4. state'.segments = more
      BY <1>2
  <2> HIDE DEF more, segs
  <2>5. ListsAfter(a, k)'
      BY <1>2, <2>1, <2>2, <2>3, <2>4 DEF ListsAfter, segs
  <2> QED BY <2>5
<1>8. ASSUME NEW a, a = next + 1 PROVE \E k \in 0 .. a : ListsAfter(a, k)'
  <2>1. state'.segments = more
      BY <1>2
  <2> HIDE DEF more, segs, last
  <2>2. PICK k \in 0 .. Len(more) :
            /\ WindowedSegments(state') = SubSeq(more, k + 1, Len(more))
            /\ ~ IsDvrActive(state') => k = 0
      BY <1>5, <2>1, WindowStart
  <2>3. published'[a] = r
    <3> HIDE DEF r
    <3> QED BY <1>2, <1>4, <1>8 DEF r
  <2>4. r.listed = SubSeq(more, k + 1, a)
      BY <1>5, <1>8, <2>2 DEF Render
  <2>5. ASSUME k < a
        PROVE  r.sequence = k /\ r.startTime = TotalMs(SubSeq(more, 1, k))
    <3>1. NumberedByPlace(more) /\ k < Len(more)
        BY <1>3, <1>5, <1>8, <2>1, <2>5 DEF LoopInv
    <3>2. /\ WindowedSegments(state') # <<>> /\ WindowedSegments(state')[1].number = k
          /\ FirstNumber(WindowedSegments(state')) = k
          /\ Before(more, k) = SubSeq(more, 1, k)
        BY <1>5, <2>2, <3>1, WindowNumbers
    <3>3. state'.mediaSequence = 0
        BY <1>2 DEF StateType
    <3>4. r.sequence = k
        BY <2>2, <3>2, <3>3 DEF Render, WindowedMediaSequence
    <3>5. r.startTime = TotalMs(SubSeq(more, 1, k))
        BY <2>1, <3>2 DEF Render, WindowTime
    <3> QED BY <3>4, <3>5
  <2>6. r.immutable => a = SourceLength /\ k = 0 /\ ~ sourceIsLive'
    <3>1. r.immutable <=> state'.phase = "Complete"
        BY DEF Render
    <3>2. state'.phase = "Complete" => ~ IsDvrActive(state')
        BY DEF IsDvrActive
    <3> HIDE DEF r
    <3> QED BY <1>2, <1>3, <1>8, <2>2, <3>1, <3>2 DEF LoopInv
  <2> HIDE DEF r
  <2>7. ListsAfter(a, k)'
      BY <2>1, <2>3, <2>4, <2>5, <2>6 DEF ListsAfter
  <2> QED BY <1>5, <1>8, <2>7
<1>9. ASSUME NEW a \in 1 .. Len(published') PROVE \E k \in 0 .. a : ListsAfter(a, k)'
  <2>1. a \in 1 .. next \/ a = next + 1
      BY <1>2, <1>4, <1>6
  <2>2. CASE a \in 1 .. next
      BY <1>7, <2>2
  <2>3. CASE a = next + 1
      BY <1>8, <2>3
  <2> QED BY <2>1, <2>2, <2>3
<1> HIDE DEF segs, last, more, r
<1> QED BY <1>6, <1>9 DEF PublishedInv

\* An error leaves the output as it is.
LEMMA OtherTurns ==
    ASSUME OutputInv, SegmentFails \/ Terminated \/ UNCHANGED vars
    PROVE  OutputInv'
<1>1. /\ sourceIsLive' = sourceIsLive /\ state' = state /\ next' = next
      /\ elapsed' = elapsed /\ published' = published
      /\ loop' = loop \/ loop' = "failed"
    BY DEF SegmentFails, Terminated, vars
<1>2. TypeInv'
    BY <1>1 DEF OutputInv, TypeInv, Manifests
<1>3. LoopInv'
    BY <1>1 DEF OutputInv, LoopInv
<1>4. PublishedInv'
    BY <1>1 DEF OutputInv, PublishedInv, ListsAfter
<1> QED BY <1>2, <1>3, <1>4 DEF OutputInv

\* Every reachable state satisfies the inductive invariant: the loop numbers
\* segments by their place and each manifest published is of a suffix of them.
THEOREM OutputInvariant == Spec => []OutputInv
<1>1. OutputInv /\ [Next]_vars => OutputInv'
  <2> SUFFICES ASSUME OutputInv, [Next]_vars PROVE OutputInv'
      OBVIOUS
  <2>1. ASSUME NEW d \in Durations, NEW idr \in BOOLEAN, NEW ad \in BOOLEAN,
               ProcessSegment(d, idr, ad)
        PROVE  OutputInv'
      BY <2>1, TypeTurn, LoopTurn, PublishedTurn DEF OutputInv
  <2>2. CASE SegmentFails \/ Terminated \/ UNCHANGED vars
      BY <2>2, OtherTurns
  <2> QED BY <2>1, <2>2 DEF Next
<1> QED BY <1>1, OutputInit, PTL DEF Spec

-----------------------------------------------------------------------------
(* What the manifests promise *)

\* The types of ProgressiveOutput hold in every reachable state: what a published
\* manifest holds is always part of the state, times of ad breaks included.
THEOREM OutputTypeCorrect == Spec => []TypeOK
<1>1. OutputInv => TypeOK
  <2> SUFFICES ASSUME OutputInv PROVE TypeOK
      OBVIOUS
  <2>1. TypeInv /\ LoopInv
      BY DEF OutputInv
  <2>2. state.adBreaks \subseteq [segment : 0 .. SourceLength - 1, time : 0 .. elapsed]
    <3>1. \A x \in state.adBreaks :
              x \in [segment : 0 .. SourceLength - 1, time : Nat] /\ x.time <= elapsed
        BY <2>1 DEF TypeInv, StateType
    <3>2. elapsed \in Nat
        BY <2>1 DEF TypeInv
    <3> QED BY <3>1, <3>2
  <2>3. /\ sourceIsLive \in BOOLEAN
        /\ state.phase \in {"AwaitingFirstSegment", "Live", "Complete"}
        /\ state.segments \in Seq(SegmentRecords)
        /\ state.parts \subseteq [segment : 0 .. SourceLength - 1, index : 1 .. PartCount]
        /\ state.iframes \subseteq [segment : 0 .. SourceLength - 1]
        /\ state.target \in Nat /\ state.mediaSequence = 0
        /\ elapsed \in Nat /\ loop \in {"running", "ended", "failed"}
      BY <2>1 DEF TypeInv, StateType, Phases
  <2>4. next \in 0 .. SourceLength
      BY <2>1, SourceAssumption DEF TypeInv, LoopInv
  <2>5. \A i \in 1 .. Len(published) : published[i] \in Manifests
      BY <2>1 DEF TypeInv
  <2> QED BY <2>2, <2>3, <2>4, <2>5 DEF TypeOK
<1> QED BY <1>1, OutputInvariant, PTL

\* The DVR window holds the longest run of segments up to the live edge that fits
\* it, whatever the durations, and all segments if it is not active: what
\* windowed_segments finds by adding up from the newest one.
THEOREM WindowAlwaysLongestRun == Spec => []WindowIsLongestRun
<1>1. OutputInv => WindowIsLongestRun
  <2> SUFFICES ASSUME OutputInv PROVE WindowIsLongestRun
      OBVIOUS
  <2> DEFINE segs == state.segments
             count == Len(WindowedSegments(state))
  <2>1. segs \in Seq(Timed) /\ Len(segs) \in Nat
      BY RecordsTimed DEF OutputInv, TypeInv, StateType
  <2>2. PICK k \in 0 .. Len(segs) :
            /\ WindowedSegments(state) = SubSeq(segs, k + 1, Len(segs))
            /\ ~ IsDvrActive(state) => k = 0
            /\ IsDvrActive(state) => \A i \in 1 .. Len(segs) + 1 :
                   TotalDuration(From(segs, i)) <= Window <=> i > k
      BY <2>1, WindowStart
  <2>3. count = Len(segs) - k
    <3> HIDE DEF segs
    <3> QED BY <2>1, <2>2, Runs, Len(segs) \in k .. Len(segs)
  <2> HIDE DEF segs, count
  <2>4. WindowedSegments(state) = From(segs, Len(segs) - count + 1)
    <3>1. Len(segs) - count + 1 = k + 1
        BY <2>1, <2>3
    <3> QED BY <2>2, <3>1 DEF From
  <2>5. ASSUME IsDvrActive(state) PROVE Fits(count)
    <3>1. Len(segs) - count + 1 = k + 1 /\ k + 1 \in 1 .. Len(segs) + 1 /\ k + 1 > k
        BY <2>1, <2>3
    <3>2. TotalDuration(From(segs, k + 1)) <= Window
        BY <2>2, <2>5, <3>1
    <3> QED BY <3>1, <3>2 DEF Fits, segs
  <2>6. ASSUME IsDvrActive(state), NEW j \in count + 1 .. Len(segs) PROVE ~ Fits(j)
    <3>1. Len(segs) - j + 1 \in 1 .. Len(segs) + 1 /\ ~ (Len(segs) - j + 1 > k)
        BY <2>1, <2>3
    <3>2. ~ (TotalDuration(From(segs, Len(segs) - j + 1)) <= Window)
        BY <2>2, <2>6, <3>1
    <3> QED BY <3>2 DEF Fits, segs
  <2>7. ~ IsDvrActive(state) => count = Len(segs)
      BY <2>1, <2>2, <2>3
  <2> QED BY <2>4, <2>5, <2>6, <2>7 DEF WindowIsLongestRun, segs, count
<1> QED BY <1>1, OutputInvariant, PTL

\* A manifest whose window holds a segment carries exactly the parts, I-frame
\* entries and ad breaks of the segments it lists, also when the filter by number
\* is skipped because the window holds everything.
THEOREM ItemsAlwaysFollowWindow == Spec => []ItemsFollowWindow
<1>1. OutputInv => ItemsFollowWindow
  <2> SUFFICES ASSUME OutputInv, WindowedSegments(state) # <<>>,
                      NEW items \in {state.parts, state.iframes, state.adBreaks}
               PROVE  Windowed(state, items) = ItemsOf(items, WindowedSegments(state))
      BY DEF ItemsFollowWindow
  <2> DEFINE segs == state.segments
             w == WindowedSegments(state)
  <2>1. segs \in Seq(Timed) /\ Len(segs) \in Nat /\ NumberedByPlace(segs)
      BY RecordsTimed DEF OutputInv, TypeInv, StateType, LoopInv
  <2>2. PICK k \in 0 .. Len(segs) : w = SubSeq(segs, k + 1, Len(segs))
      BY <2>1, WindowStart
  <2>3. Len(w) = Len(segs) - k
    <3> HIDE DEF segs
    <3> QED BY <2>1, <2>2, Runs, Len(segs) \in k .. Len(segs)
  <2>4. k < Len(segs)
    <3>1. Len(w) # 0
      <4>1. w \in Seq(Timed)
        <5> HIDE DEF segs, w
        <5> QED BY <2>1, <2>2, Runs, Len(segs) \in k .. Len(segs)
      <4> QED BY <4>1
    <3> QED BY <2>1, <2>3, <3>1
  <2> HIDE DEF segs, w
  <2>5. /\ FirstNumber(w) = k /\ LastNumber(w) = Len(segs) - 1
        /\ Numbers(w) = k .. Len(segs) - 1
      BY <2>1, <2>2, <2>4, WindowNumbers
  <2>6. \A x \in items : x.segment \in 0 .. Len(segs) - 1
    <3>1. /\ \A x \in state.parts : x.segment \in Nat
          /\ \A x \in state.iframes : x.segment \in Nat
          /\ \A x \in state.adBreaks : x.segment \in Nat
        BY SourceAssumption DEF OutputInv, TypeInv, StateType
    <3>2. \A x \in items : x.segment < Len(segs)
        BY DEF OutputInv, LoopInv, segs
    <3>3. \A x \in items : x.segment \in Nat
        BY <3>1
    <3> QED BY <2>1, <3>2, <3>3
  <2>7. CASE Len(w) = Len(segs)
    <3>1. k = 0
        BY <2>1, <2>3, <2>7
    <3>2. Windowed(state, items) = items
        BY <2>7 DEF Windowed, w, segs
    <3> QED BY <2>5, <2>6, <3>1, <3>2 DEF ItemsOf, w
  <2>8. CASE Len(w) # Len(segs)
    <3>1. Windowed(state, items) = {x \in items : x.segment \in FirstNumber(w) .. LastNumber(w)}
        BY <2>8 DEF Windowed, w, segs
    <3> QED BY <2>5, <3>1 DEF ItemsOf, w
  <2> QED BY <2>7, <2>8
<1> QED BY <1>1, OutputInvariant, PTL

\* Where the i-th segment of a published manifest lies: its number and its time are
\* those of a segment of the output, the same for every manifest.
LEMMA PlaceOf ==
    ASSUME OutputInv, NEW f, IsSum(f, MsOf(state.segments), Len(state.segments)),
           NEW a \in 1 .. Len(published), NEW i \in 1 .. Len(published[a].listed)
    PROVE  \E k \in 0 .. a : /\ k + i \in 1 .. Len(state.segments)
                             /\ published[a].sequence = k
                             /\ published[a].listed[i].number = k + i - 1
                             /\ TimeIn(published[a], i) = f[k + i - 1]
<1> DEFINE segs == state.segments
           m == published[a]
<1>1. segs \in Seq(Timed) /\ Len(segs) \in Nat /\ a \in 1 .. Len(segs) /\ NumberedByPlace(segs)
    BY RecordsTimed DEF OutputInv, TypeInv, StateType, LoopInv, PublishedInv
<1>2. PICK k \in 0 .. a : ListsAfter(a, k)
    BY DEF OutputInv, PublishedInv
<1>3. m.listed = SubSeq(segs, k + 1, a)
    BY <1>2 DEF ListsAfter
<1>4. k \in 0 .. Len(segs) /\ a \in k .. Len(segs)
    BY <1>1
<1> HIDE DEF segs
<1>5. /\ m.listed \in Seq(Timed) /\ Len(m.listed) = a - k
      /\ \A j \in 1 .. a - k : m.listed[j] = segs[k + j]
    BY <1>1, <1>3, <1>4, Runs
<1> HIDE DEF m
<1>6. i \in 1 .. a - k /\ k < a /\ k + i \in 1 .. Len(segs) /\ i - 1 \in 0 .. a - k
    BY <1>1, <1>4, <1>5 DEF m
<1>7. m.sequence = k /\ m.startTime = TotalMs(SubSeq(segs, 1, k))
    BY <1>2, <1>6 DEF ListsAfter, m, segs
<1>8. m.listed[i].number = k + i - 1
  <2>1. m.listed[i] = segs[k + i] /\ segs[k + i].number = (k + i) - 1
      BY <1>1, <1>5, <1>6 DEF NumberedByPlace
  <2> QED BY <2>1, <1>4, <1>6
<1>9. IsSum(f, MsOf(segs), Len(segs))
    BY DEF segs
<1>10. TotalMs(SubSeq(segs, 1, k)) = f[k]
  <2>1. 0 \in 0 .. Len(segs) /\ k \in 0 .. Len(segs) /\ 0 + 1 = 1
      BY <1>1, <1>4
  <2>2. TotalMs(SubSeq(segs, 0 + 1, k)) = f[k] - f[0]
      BY <1>1, <1>9, <2>1, TotalMsOfRun
  <2>3. f[0] = 0 /\ f[k] \in Nat
      BY <1>9, <2>1 DEF IsSum
  <2> QED BY <2>1, <2>2, <2>3
<1>11. TotalMs(SubSeq(m.listed, 1, i - 1)) = f[k + i - 1] - f[k]
  <2>1. SubSeq(m.listed, 1, i - 1) = SubSeq(segs, k + 1, k + i - 1)
    <3>1. /\ SubSeq(m.listed, 0 + 1, i - 1) \in Seq(Timed)
          /\ Len(SubSeq(m.listed, 0 + 1, i - 1)) = i - 1
          /\ \A j \in 1 .. i - 1 : SubSeq(m.listed, 0 + 1, i - 1)[j] = m.listed[j]
        BY <1>5, <1>6
    <3>2. k + i - 1 \in k .. Len(segs)
        BY <1>1, <1>4, <1>6
    <3>3. /\ SubSeq(segs, k + 1, k + i - 1) \in Seq(Timed)
          /\ Len(SubSeq(segs, k + 1, k + i - 1)) = i - 1
          /\ \A j \in 1 .. i - 1 : SubSeq(segs, k + 1, k + i - 1)[j] = segs[k + j]
        BY <1>1, <1>4, <1>6, <3>2, Runs
    <3>4. \A j \in 1 .. i - 1 : m.listed[j] = segs[k + j]
        BY <1>5, <1>6
    <3> QED BY <3>1, <3>3, <3>4
  <2>2. k + i - 1 \in k .. Len(segs)
      BY <1>1, <1>4, <1>6
  <2> QED BY <1>1, <1>4, <1>9, <2>1, <2>2, TotalMsOfRun
<1>12. TimeIn(m, i) = f[k + i - 1]
  <2>1. f[k] \in Nat /\ f[k + i - 1] \in Nat
    <3>1. k + i - 1 \in 0 .. Len(segs)
        BY <1>1, <1>4, <1>6
    <3> QED BY <1>4, <1>9, <3>1 DEF IsSum
  <2> QED BY <1>7, <1>10, <1>11, <2>1 DEF TimeIn
<1> QED BY <1>6, <1>7, <1>8, <1>12 DEF m, segs

\* All manifests ever published agree: a segment that two of them list has one
\* presentation time, although each renderer sums truncated durations from a
\* window of its own; its place gives its number, also after the move from live to
\* complete; and a manifest that may be kept for a year is the last one and whole.
THEOREM ManifestsAlwaysAgree == Spec => []ManifestsAgree
<1>1. OutputInv => TimesAgree /\ PlaceIsNumber
  <2> SUFFICES ASSUME OutputInv PROVE TimesAgree /\ PlaceIsNumber
      OBVIOUS
  <2>1. state.segments \in Seq(Timed) /\ Len(state.segments) \in Nat
      BY RecordsTimed DEF OutputInv, TypeInv, StateType
  <2>2. PICK f : IsSum(f, MsOf(state.segments), Len(state.segments))
      BY <2>1, SumExists, Addends
  <2>3. TimesAgree
    <3> SUFFICES ASSUME NEW a \in 1 .. Len(published), NEW b \in 1 .. Len(published),
                        NEW i \in 1 .. Len(published[a].listed),
                        NEW j \in 1 .. Len(published[b].listed),
                        published[a].listed[i].number = published[b].listed[j].number
                 PROVE  TimeIn(published[a], i) = TimeIn(published[b], j)
        BY DEF TimesAgree
    <3>1. PICK k \in 0 .. a : /\ published[a].listed[i].number = k + i - 1
                              /\ TimeIn(published[a], i) = f[k + i - 1]
        BY <2>2, PlaceOf
    <3>2. PICK l \in 0 .. b : /\ published[b].listed[j].number = l + j - 1
                              /\ TimeIn(published[b], j) = f[l + j - 1]
        BY <2>2, PlaceOf
    <3> QED BY <3>1, <3>2
  <2>4. PlaceIsNumber
    <3> SUFFICES ASSUME NEW a \in 1 .. Len(published), NEW i \in 1 .. Len(published[a].listed)
                 PROVE  published[a].sequence + i - 1 = published[a].listed[i].number
        BY DEF PlaceIsNumber
    <3>1. PICK k \in 0 .. a : /\ published[a].sequence = k
                              /\ published[a].listed[i].number = k + i - 1
        BY <2>2, PlaceOf
    <3> QED BY <3>1
  <2> QED BY <2>3, <2>4
<1>2. OutputInv => ImmutableIsFinal
  <2> SUFFICES ASSUME OutputInv, NEW a \in 1 .. Len(published), published[a].immutable
               PROVE  /\ a = Len(published) /\ loop # "running"
                      /\ Numbers(published[a].listed) = 0 .. SourceLength - 1
      BY DEF ImmutableIsFinal
  <2> DEFINE segs == state.segments
  <2>1. PICK k \in 0 .. a : ListsAfter(a, k)
      BY DEF OutputInv, PublishedInv
  <2>2. a = SourceLength /\ published[a].listed = SubSeq(segs, 0 + 1, a)
      BY <2>1 DEF ListsAfter
  <2>3. /\ Len(published) = next /\ Len(segs) = next /\ next <= SourceLength /\ next \in Nat
        /\ loop = "running" => next < SourceLength
        /\ NumberedByPlace(segs) /\ segs \in Seq(Timed)
      BY RecordsTimed DEF OutputInv, TypeInv, StateType, LoopInv, PublishedInv
  <2>4. a = next /\ SourceLength \in Nat
      BY <2>2, <2>3, SourceAssumption
  <2> HIDE DEF segs
  <2>5. /\ Len(published[a].listed) = a
        /\ \A i \in 1 .. a : published[a].listed[i] = segs[i]
    <3>1. published[a].listed = SubSeq(segs, 1, Len(segs))
        BY <2>2, <2>3, <2>4
    <3> QED BY <2>3, <2>4, <3>1
  <2>6. Numbers(published[a].listed) = 0 .. SourceLength - 1
    <3>1. \A i \in 1 .. a : published[a].listed[i].number = i - 1
        BY <2>3, <2>4, <2>5 DEF NumberedByPlace
    <3>2. ASSUME NEW x \in 0 .. SourceLength - 1 PROVE x \in Numbers(published[a].listed)
      <4>1. x + 1 \in 1 .. a
          BY <2>2, <2>4
      <4>2. published[a].listed[x + 1].number = x
          BY <3>1, <4>1
      <4> QED BY <2>5, <4>1, <4>2 DEF Numbers
    <3>3. ASSUME NEW x \in Numbers(published[a].listed) PROVE x \in 0 .. SourceLength - 1
        BY <2>2, <2>4, <2>5, <3>1 DEF Numbers
    <3> QED BY <3>2, <3>3
  <2> QED BY <2>2, <2>3, <2>4, <2>6
<1>3. OutputInv => ManifestsAgree
    BY <1>1, <1>2 DEF ManifestsAgree
<1> QED BY <1>3, OutputInvariant, PTL

=============================================================================
