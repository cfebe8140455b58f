------------------------ MODULE ManifestReaderProofs ------------------------
(***************************************************************************)
(* Proofs about ManifestReader: a reader leaves the output alone, so that  *)
(* all that ProgressiveOutputProofs says of the output holds while it is   *)
(* read; what is read of a manifest this program rendered is what the      *)
(* manifest was rendered from; of an MPD of another origin, what that MPD  *)
(* says; and of a playlist of another origin, its segments where RFC 3986  *)
(* has them.                                                               *)
(***************************************************************************)
EXTENDS ManifestReader, ProgressiveOutputProofs, FunctionTheorems

-----------------------------------------------------------------------------
(* The output goes on as if nobody read it *)

\* A specification with readers implements the one without: each step of it is
\* a step of execute_progressive or one that changes nothing of the output, as
\* fetch_source_manifest only reads.
THEOREM ReadersLeaveOutput == ReaderSpec => Spec
<1>1. ReaderInit => Init
    BY DEF ReaderInit
<1>2. [ReaderNext]_readerVars => [Next]_vars
  <2> SUFFICES ASSUME [ReaderNext]_readerVars PROVE [Next]_vars
      OBVIOUS
  <2>1. CASE OutputStep
      BY <2>1 DEF OutputStep
  <2>2. CASE Read
    <3>1. UNCHANGED vars
        BY <2>2 DEF Read, FetchOutput, FetchOther, ResolveTracks, CombineTracks
    <3> QED BY <3>1
  <2>3. CASE DoneReading
      BY <2>3 DEF DoneReading
  <2>4. CASE UNCHANGED readerVars
      BY <2>4 DEF readerVars
  <2> QED BY <2>1, <2>2, <2>3, <2>4 DEF ReaderNext
<1> QED BY <1>1, <1>2, PTL DEF ReaderSpec, Spec

\* What was proved of the output holds while it is read: its invariant, and that
\* the window is the longest run that fits, that manifests agree, and that items
\* follow the window.
THEOREM OutputHoldsWhileRead ==
    ReaderSpec => []OutputInv /\ []WindowIsLongestRun /\ []ManifestsAgree /\ []ItemsFollowWindow
BY ReadersLeaveOutput, OutputInvariant, WindowAlwaysLongestRun, ManifestsAlwaysAgree,
   ItemsAlwaysFollowWindow, PTL

-----------------------------------------------------------------------------
(* What belongs to a segment *)

\* The parts of a segment come together, and a segment has one ad break.
PartOf(n, p) == [segment |-> n, index |-> p]
WholeParts(parts) == \A x \in parts : \A p \in 1 .. PartCount : PartOf(x.segment, p) \in parts
OneBreakEach(breaks) == \A x, y \in breaks : x.segment = y.segment => x = y

ItemsInv ==
    /\ WholeParts(state.parts) /\ OneBreakEach(state.adBreaks)
    /\ \A a \in 1 .. Len(published) :
          /\ WholeParts(published[a].parts) /\ OneBreakEach(published[a].adBreaks)
          /\ published[a].startNumber = FirstNumber(published[a].listed)

\* A turn of the loop adds the parts of its segment and at most one break.
LEMMA ItemsAdded ==
    ASSUME TypeInv, LoopInv,
           NEW d \in Durations, NEW idr \in BOOLEAN, NEW ad \in BOOLEAN,
           ProcessSegment(d, idr, ad)
    PROVE  /\ state'.parts = IF PartCount > 1
                             THEN state.parts \union {PartOf(next, p) : p \in 1 .. PartCount}
                             ELSE state.parts
           /\ state'.adBreaks = IF ad THEN state.adBreaks \union {[segment |-> next, time |-> elapsed]}
                                ELSE state.adBreaks
<1> DEFINE parted  == AddParts(state, next)
           tricked == IF idr THEN AddIframeInfo(parted, next) ELSE parted
           added   == AddSegment(tricked, next, d)
           broken  == IF ad THEN AddAdBreak(added, next, elapsed) ELSE added
           final   == IF IsLast(next) THEN Finalize(broken) ELSE broken
           new     == {PartOf(next, p) : p \in 1 .. PartCount}
<1>1. state' = final
    BY DEF ProcessSegment
<1>2. next \in 0 .. SourceLength - 1 /\ elapsed \in Nat /\ state \in StateType
  <2>1. loop = "running"
      BY DEF ProcessSegment
  <2> QED BY <2>1, SourceAssumption DEF TypeInv, LoopInv
<1>3. /\ parted \in StateType /\ parted.adBreaks = state.adBreaks
      /\ parted.parts = IF PartCount > 1 THEN state.parts \union new ELSE state.parts
  <2>1. parted \in StateType /\ parted.adBreaks = state.adBreaks
    <3> HIDE DEF parted
    <3> QED BY <1>2, PartsAdded DEF parted
  <2>2. PartCount > 1 => parted = [state EXCEPT !.parts = state.parts \union new]
      BY DEF AddParts, PartOf
  <2>3. ~ (PartCount > 1) => parted = state
      BY DEF AddParts
  <2> HIDE DEF parted, new
  <2> QED BY <1>2, <2>1, <2>2, <2>3 DEF StateType
<1>4. /\ tricked \in StateType
      /\ tricked.parts = parted.parts /\ tricked.adBreaks = parted.adBreaks
  <2> HIDE DEF parted
  <2>1. CASE idr
    <3>1. tricked = AddIframeInfo(parted, next)
        BY <2>1
    <3> HIDE DEF tricked
    <3> QED BY <1>2, <1>3, <3>1, IframeAdded
  <2>2. CASE ~ idr
      BY <1>3, <2>2
  <2> QED BY <2>1, <2>2
<1>5. /\ added \in StateType
      /\ added.parts = tricked.parts /\ added.adBreaks = tricked.adBreaks
  <2> HIDE DEF tricked
  <2> QED BY <1>2, <1>4, SegmentAdded
<1>6. /\ broken \in StateType /\ broken.parts = added.parts
      /\ broken.adBreaks = IF ad THEN added.adBreaks \union {[segment |-> next, time |-> elapsed]}
                           ELSE added.adBreaks
  <2> HIDE DEF added
  <2>1. CASE ad
    <3>1. broken = [added EXCEPT !.adBreaks = added.adBreaks \union {[segment |-> next, time |-> elapsed]}]
        BY <2>1 DEF AddAdBreak
    <3>2. broken = AddAdBreak(added, next, elapsed)
        BY <2>1
    <3> HIDE DEF broken
    <3>3. broken \in StateType
        BY <1>2, <1>5, <3>2, AdBreakAdded
    <3> QED BY <1>5, <2>1, <3>1, <3>3 DEF StateType
  <2>2. CASE ~ ad
      BY <1>5, <2>2
  <2> QED BY <2>1, <2>2
<1>7. final.parts = broken.parts /\ final.adBreaks = broken.adBreaks
  <2> HIDE DEF broken
  <2>1. CASE IsLast(next)
    <3>1. final = Finalize(broken)
        BY <2>1
    <3> HIDE DEF final
    <3> QED BY <1>6, <3>1, Finalized
  <2>2. CASE ~ IsLast(next)
      BY <2>2
  <2> QED BY <2>1, <2>2
<1> HIDE DEF parted, tricked, added, broken, final, new
<1>8. /\ state'.parts = IF PartCount > 1 THEN state.parts \union new ELSE state.parts
      /\ state'.adBreaks = IF ad THEN state.adBreaks \union {[segment |-> next, time |-> elapsed]}
                           ELSE state.adBreaks
    BY <1>1, <1>3, <1>4, <1>5, <1>6, <1>7
<1> QED BY <1>8 DEF new

\* A windowed view is all of the items or those of some segments.
LEMMA ItemsWindowed ==
    ASSUME NEW s
    PROVE  /\ \A parts : WholeParts(parts) => WholeParts(Windowed(s, parts))
           /\ \A breaks : OneBreakEach(breaks) => OneBreakEach(Windowed(s, breaks))
<1> DEFINE numbers == FirstNumber(WindowedSegments(s)) .. LastNumber(WindowedSegments(s))
<1>1. \A items : \/ Windowed(s, items) = items
                 \/ Windowed(s, items) = {x \in items : x.segment \in numbers}
    BY DEF Windowed
<1> HIDE DEF numbers
<1>2. ASSUME NEW parts, WholeParts(parts) PROVE WholeParts(Windowed(s, parts))
  <2> DEFINE kept == {x \in parts : x.segment \in numbers}
  <2>1. WholeParts(kept)
    <3> HIDE DEF kept
    <3> SUFFICES ASSUME NEW x \in kept, NEW p \in 1 .. PartCount
                 PROVE  PartOf(x.segment, p) \in kept
        BY DEF WholeParts
    <3> DEFINE y == PartOf(x.segment, p)
    <3>1. y.segment = x.segment /\ y \in parts
        BY <1>2 DEF WholeParts, kept, PartOf
    <3> HIDE DEF y
    <3>2. y \in kept
        BY <3>1 DEF kept
    <3> QED BY <3>2 DEF y
  <2> HIDE DEF kept
  <2>2. Windowed(s, parts) = parts \/ Windowed(s, parts) = kept
      BY <1>1 DEF kept
  <2> QED BY <1>2, <2>1, <2>2
<1>3. ASSUME NEW breaks, OneBreakEach(breaks) PROVE OneBreakEach(Windowed(s, breaks))
  <2> DEFINE kept == {x \in breaks : x.segment \in numbers}
  <2>1. OneBreakEach(kept)
      BY <1>3 DEF OneBreakEach
  <2> HIDE DEF kept
  <2>2. Windowed(s, breaks) = breaks \/ Windowed(s, breaks) = kept
      BY <1>1 DEF kept
  <2> QED BY <1>3, <2>1, <2>2
<1> QED BY <1>2, <1>3

LEMMA ItemsTurn ==
    ASSUME OutputInv, ItemsInv, [Next]_vars PROVE ItemsInv'
<1>0. TypeInv /\ LoopInv /\ published \in Seq(Manifests)
    BY DEF OutputInv, TypeInv
<1>1. ASSUME NEW d \in Durations, NEW idr \in BOOLEAN, NEW ad \in BOOLEAN,
             ProcessSegment(d, idr, ad)
      PROVE  ItemsInv'
  <2>1. next \in Nat /\ \A x \in state.parts \union state.adBreaks : x.segment \in Nat /\ x.segment < next
      BY <1>0 DEF TypeInv, LoopInv, StateType
  <2>2. WholeParts(state'.parts)
    <3> DEFINE new == {PartOf(next, p) : p \in 1 .. PartCount}
    <3>1. WholeParts(state.parts)
        BY DEF ItemsInv
    <3>2. state'.parts = state.parts \union new \/ state'.parts = state.parts
        BY <1>0, <1>1, ItemsAdded
    <3>3. WholeParts(state.parts \union new)
      <4> DEFINE all == state.parts \union new
      <4> HIDE DEF all, new
      <4> SUFFICES ASSUME NEW x \in all, NEW p \in 1 .. PartCount
                   PROVE  PartOf(x.segment, p) \in all
          BY DEF WholeParts, all
      <4>1. CASE x \in state.parts
          BY <3>1, <4>1 DEF WholeParts, all
      <4>2. CASE x \in new
        <5>1. x.segment = next
            BY <4>2 DEF new, PartOf
        <5> QED BY <5>1 DEF all, new
      <4> QED BY <4>1, <4>2 DEF all
    <3> HIDE DEF new
    <3> QED BY <3>1, <3>2, <3>3
  <2>3. OneBreakEach(state'.adBreaks)
    <3> DEFINE e == [segment |-> next, time |-> elapsed]
    <3>1. OneBreakEach(state.adBreaks)
        BY DEF ItemsInv
    <3>2. state'.adBreaks = state.adBreaks \union {e} \/ state'.adBreaks = state.adBreaks
        BY <1>0, <1>1, ItemsAdded
    <3>3. e.segment = next
        OBVIOUS
    <3> HIDE DEF e
    <3>4. OneBreakEach(state.adBreaks \union {e})
        BY <2>1, <3>1, <3>3 DEF OneBreakEach
    <3> QED BY <3>1, <3>2, <3>4
  <2> DEFINE r == Render(state')
  <2>4. WholeParts(r.parts) /\ OneBreakEach(r.adBreaks)
    <3>1. r.parts = Windowed(state', state'.parts) /\ r.adBreaks = Windowed(state', state'.adBreaks)
        BY DEF Render
    <3> HIDE DEF r
    <3> QED BY <2>2, <2>3, <3>1, ItemsWindowed
  <2>5. r.startNumber = FirstNumber(r.listed)
      BY DEF Render
  <2>6. published' = Append(published, r)
      BY <1>0, <1>1, Turn
  <2> HIDE DEF r
  <2>7. \A a \in 1 .. Len(published') :
            \/ a \in 1 .. Len(published) /\ published'[a] = published[a]
            \/ published'[a] = r
      BY <1>0, <2>6
  <2> QED BY <2>2, <2>3, <2>4, <2>5, <2>7 DEF ItemsInv
<1>2. CASE SegmentFails \/ Terminated \/ UNCHANGED vars
  <2>1. state' = state /\ published' = published
      BY <1>2 DEF SegmentFails, Terminated, vars
  <2> QED BY <2>1 DEF ItemsInv
<1> QED BY <1>1, <1>2 DEF Next

\* In every manifest ever published the parts of a segment are whole, a segment
\* has one ad break at most, and the DASH start number is that of its first segment.
THEOREM ItemsAreWhole == Spec => []ItemsInv
<1>1. Init => ItemsInv
    BY DEF Init, ItemsInv, WholeParts, OneBreakEach
<1>2. OutputInv /\ ItemsInv /\ [Next]_vars => ItemsInv'
    BY ItemsTurn
<1> QED BY <1>1, <1>2, OutputInvariant, PTL DEF Spec

-----------------------------------------------------------------------------
(* Runs of the parsers *)

\* What either parser does with a line or an event, and normalize_path with a piece.
ReadItem(format, base, p, item) ==
    CASE format = "hls"  -> ReadLine(p, base, item)
      [] format = "dash" -> ReadEvent(p, item)
      [] format = "path" -> PushPiece(p, item)
      [] format = "master" -> ReadMasterLine(p, item, base)
      [] format = "blocks" -> NextBlock(base.events, base.name, p, item)

\* The states of the parser, one for each item that was read.
IsRun(f, format, base, p, items) ==
    /\ DOMAIN f = 0 .. Len(items) /\ f[0] = p
    /\ \A i \in 1 .. Len(items) : f[i] = ReadItem(format, base, f[i - 1], items[i])

\* The parsers have a run over every list (the loops of parse_hls_manifest and
\* parse_dash_manifest).
LEMMA RunExists ==
    ASSUME NEW items, Len(items) \in Nat, NEW format, NEW base, NEW p
    PROVE  \E f : IsRun(f, format, base, p, items)
<1> DEFINE N == Len(items)
           Upto(f, n) == /\ DOMAIN f = 0 .. n /\ f[0] = p
                         /\ \A i \in 1 .. n : f[i] = ReadItem(format, base, f[i - 1], items[i])
           T == {n \in 0 .. N : \E f : Upto(f, n)}
<1>1. 0 \in T
  <2> DEFINE g == [i \in 0 .. 0 |-> p]
  <2>1. Upto(g, 0)
      OBVIOUS
  <2> HIDE DEF g
  <2>2. 0 \in 0 .. N
      OBVIOUS
  <2> QED BY <2>1, <2>2
<1>2. ASSUME NEW n \in 0 .. N, n < N, n \in T PROVE n + 1 \in T
  <2>1. PICK f : Upto(f, n)
      BY <1>2
  <2> DEFINE last == ReadItem(format, base, f[n], items[n + 1])
             g == [i \in 0 .. n + 1 |-> IF i = n + 1 THEN last ELSE f[i]]
  <2>2. n \in Nat /\ n + 1 \in 0 .. N
      BY <1>2
  <2> HIDE DEF last
  <2>3. DOMAIN g = 0 .. n + 1 /\ g[0] = p /\ g[n + 1] = last
      BY <2>1, <2>2
  <2>4. ASSUME NEW k \in 1 .. n + 1 PROVE g[k] = ReadItem(format, base, g[k - 1], items[k])
    <3>1. CASE k = n + 1
      <4>1. g[k - 1] = f[n] /\ g[k] = last
          BY <2>2, <3>1
      <4> QED BY <2>2, <3>1, <4>1 DEF last
    <3>2. CASE k # n + 1
      <4>1. k \in 1 .. n /\ g[k] = f[k] /\ g[k - 1] = f[k - 1]
          BY <2>2, <3>2
      <4> QED BY <2>1, <4>1
    <3> QED BY <3>1, <3>2
  <2> HIDE DEF g
  <2>5. Upto(g, n + 1)
      BY <2>3, <2>4
  <2> QED BY <2>2, <2>5
<1>3. N \in T
  <2> HIDE DEF T, N
  <2>1. \A n \in 0 .. N : n < N /\ n \in T => n + 1 \in T
      BY <1>2
  <2>2. \A n \in 0 .. N : n \in T
      BY <1>1, <2>1, CountUp, Zenon DEF N
  <2> QED BY <2>2 DEF N
<1> QED BY <1>3 DEF IsRun

\* A list has one run only.
LEMMA RunIsUnique ==
    ASSUME NEW items, Len(items) \in Nat, NEW format, NEW base, NEW p,
           NEW f, IsRun(f, format, base, p, items), NEW g, IsRun(g, format, base, p, items)
    PROVE  f = g
<1> DEFINE T == {k \in 0 .. Len(items) : f[k] = g[k]}
<1>1. 0 \in T
    BY DEF IsRun
<1>2. ASSUME NEW k \in 0 .. Len(items), k < Len(items), k \in T PROVE k + 1 \in T
  <2>1. k + 1 \in 0 .. Len(items) /\ (k + 1) - 1 = k /\ k + 1 \in 1 .. Len(items)
      BY <1>2
  <2>2. /\ f[k + 1] = ReadItem(format, base, f[k], items[k + 1])
        /\ g[k + 1] = ReadItem(format, base, g[k], items[k + 1])
      BY <2>1 DEF IsRun
  <2>3. f[k] = g[k]
      BY <1>2
  <2> QED BY <2>1, <2>2, <2>3
<1>3. \A k \in 0 .. Len(items) : k \in T
  <2> HIDE DEF T
  <2> QED BY <1>1, <1>2, CountUp, Zenon
<1>4. \A k \in 0 .. Len(items) : f[k] = g[k]
    BY <1>3
<1>5. f = [k \in 0 .. Len(items) |-> f[k]] /\ g = [k \in 0 .. Len(items) |-> g[k]]
    BY DEF IsRun
<1> QED BY <1>4, <1>5

\* A recursive function that reads a list item by item is its run.
LEMMA RunIsRecursion ==
    ASSUME NEW items, Len(items) \in Nat, NEW format, NEW base, NEW p,
           NEW f, f = [i \in 0 .. Len(items) |->
                          IF i = 0 THEN p ELSE ReadItem(format, base, f[i - 1], items[i])]
    PROVE  IsRun(f, format, base, p, items)
BY DEF IsRun

\* A run solves the recursion.
LEMMA RecursionIsRun ==
    ASSUME NEW items, Len(items) \in Nat, NEW format, NEW base, NEW p,
           NEW f, IsRun(f, format, base, p, items)
    PROVE  f = [i \in 0 .. Len(items) |->
                   IF i = 0 THEN p ELSE ReadItem(format, base, f[i - 1], items[i])]
<1> DEFINE r(i) == IF i = 0 THEN p ELSE ReadItem(format, base, f[i - 1], items[i])
<1>1. DOMAIN f = 0 .. Len(items)
    BY DEF IsRun
<1>2. f = [i \in 0 .. Len(items) |-> f[i]]
    BY DEF IsRun
<1>3. ASSUME NEW i \in 0 .. Len(items) PROVE f[i] = r(i)
  <2>1. i = 0 \/ i \in 1 .. Len(items)
      OBVIOUS
  <2> QED BY <2>1 DEF IsRun
<1> HIDE DEF r
<1>4. f = [i \in 0 .. Len(items) |-> r(i)]
    BY <1>2, <1>3
<1> QED BY <1>4 DEF r

\* Where the run over a list ends.
Run(format, base, p, items) ==
    (CHOOSE f : IsRun(f, format, base, p, items))[Len(items)]

LEMMA RunIsLast ==
    ASSUME NEW items, Len(items) \in Nat, NEW format, NEW base, NEW p,
           NEW f, IsRun(f, format, base, p, items)
    PROVE  Run(format, base, p, items) = f[Len(items)]
<1> DEFINE g == CHOOSE h : IsRun(h, format, base, p, items)
<1>1. IsRun(g, format, base, p, items)
    OBVIOUS
<1> HIDE DEF g
<1>2. f = g
    BY <1>1, RunIsUnique
<1> QED BY <1>2 DEF Run, g

\* The states of parse_hls_manifest.
HlsEnd(base, p, lines) == Reading(LAMBDA acc, line : ReadLine(acc, base, line), p, lines)

LEMMA HlsReading ==
    ASSUME NEW lines, Len(lines) \in Nat, NEW base, NEW p
    PROVE  HlsEnd(base, p, lines) = Run("hls", base, p, lines)
<1> DEFINE after == CHOOSE g : g = [i \in 0 .. Len(lines) |->
                        IF i = 0 THEN p ELSE ReadLine(g[i - 1], base, lines[i])]
<1>1. PICK f : IsRun(f, "hls", base, p, lines)
    BY RunExists
<1>2. f = [i \in 0 .. Len(lines) |-> IF i = 0 THEN p ELSE ReadLine(f[i - 1], base, lines[i])]
  <2>1. f = [i \in 0 .. Len(lines) |->
                IF i = 0 THEN p ELSE ReadItem("hls", base, f[i - 1], lines[i])]
      BY <1>1, RecursionIsRun
  <2> QED BY <2>1 DEF ReadItem
<1>3. after = [i \in 0 .. Len(lines) |->
                  IF i = 0 THEN p ELSE ReadLine(after[i - 1], base, lines[i])]
    BY <1>2
<1> HIDE DEF after
<1>4. IsRun(after, "hls", base, p, lines)
    BY <1>3 DEF IsRun, ReadItem
<1>5. after[Len(lines)] = Run("hls", base, p, lines)
    BY <1>4, RunIsLast
<1> QED BY <1>5 DEF HlsEnd, Reading, after

\* The states of parse_dash_manifest.
DashEnd(p, events) == Reading(ReadEvent, p, events)

LEMMA DashReading ==
    ASSUME NEW events, Len(events) \in Nat, NEW p
    PROVE  DashEnd(p, events) = Run("dash", "none", p, events)
<1> DEFINE after == CHOOSE g : g = [i \in 0 .. Len(events) |->
                        IF i = 0 THEN p ELSE ReadEvent(g[i - 1], events[i])]
<1>1. PICK f : IsRun(f, "dash", "none", p, events)
    BY RunExists
<1>2. f = [i \in 0 .. Len(events) |-> IF i = 0 THEN p ELSE ReadEvent(f[i - 1], events[i])]
  <2>1. f = [i \in 0 .. Len(events) |->
                IF i = 0 THEN p ELSE ReadItem("dash", "none", f[i - 1], events[i])]
      BY <1>1, RecursionIsRun
  <2> QED BY <2>1 DEF ReadItem
<1>3. after = [i \in 0 .. Len(events) |->
                  IF i = 0 THEN p ELSE ReadEvent(after[i - 1], events[i])]
    BY <1>2
<1> HIDE DEF after
<1>4. IsRun(after, "dash", "none", p, events)
    BY <1>3 DEF IsRun, ReadItem
<1>5. after[Len(events)] = Run("dash", "none", p, events)
    BY <1>4, RunIsLast
<1> QED BY <1>5 DEF DashEnd, Reading, after

\* A list of nothing leaves the parser as it is.
LEMMA RunOfEmpty ==
    ASSUME NEW format, NEW base, NEW p PROVE Run(format, base, p, <<>>) = p
<1>1. Len(<<>>) = 0 /\ Len(<<>>) \in Nat
    OBVIOUS
<1>2. PICK f : IsRun(f, format, base, p, <<>>)
    BY <1>1, RunExists
<1>3. Run(format, base, p, <<>>) = f[Len(<<>>)]
    BY <1>1, <1>2, RunIsLast
<1> QED BY <1>1, <1>2, <1>3 DEF IsRun

\* A further item is read in the state the parser was left in.
LEMMA RunOfAppend ==
    ASSUME NEW d, IsList(d), NEW e, NEW format, NEW base, NEW p
    PROVE  Run(format, base, p, Append(d, e)) = ReadItem(format, base, Run(format, base, p, d), e)
<1> DEFINE r == Append(d, e)
           n == Len(d)
<1>1. /\ n \in Nat /\ Len(r) = n + 1 /\ Len(r) \in Nat /\ r[n + 1] = e
      /\ \A i \in 1 .. n : r[i] = d[i]
    BY AppendIsList
<1> HIDE DEF r
<1>2. PICK f : IsRun(f, format, base, p, r)
    BY <1>1, RunExists
<1> DEFINE g == [i \in 0 .. n |-> f[i]]
<1>3. IsRun(g, format, base, p, d)
    BY <1>1, <1>2 DEF IsRun
<1>4. Run(format, base, p, d) = f[n] /\ Run(format, base, p, r) = f[n + 1]
  <2>1. Run(format, base, p, d) = g[n]
    <3> HIDE DEF g
    <3> QED BY <1>1, <1>3, RunIsLast
  <2>2. Run(format, base, p, r) = f[n + 1]
      BY <1>1, <1>2, RunIsLast
  <2> QED BY <1>1, <2>1, <2>2
<1>5. f[n + 1] = ReadItem(format, base, f[n], e)
    BY <1>1, <1>2 DEF IsRun
<1> QED BY <1>4, <1>5 DEF r

\* Of two lists in a row the second is read from where the first ends.
LEMMA RunOfJoined ==
    ASSUME NEW a, IsList(a), NEW b, IsList(b), NEW format, NEW base, NEW p
    PROVE  Run(format, base, p, Joined(a, b)) = Run(format, base, Run(format, base, p, a), b)
<1> DEFINE S == Range(a) \union Range(b)
           T == {c \in Seq(S) : Run(format, base, p, Joined(a, c))
                                    = Run(format, base, Run(format, base, p, a), c)}
<1>0. a \in Seq(S) /\ b \in Seq(S)
    BY DEF IsList
<1> HIDE DEF S
<1>1. <<>> \in T
  <2>1. Joined(a, <<>>) = a /\ <<>> \in Seq(S)
      BY <1>0 DEF Joined
  <2> QED BY <2>1, RunOfEmpty
<1>2. ASSUME NEW c \in Seq(S), NEW e \in S, c \in T PROVE Append(c, e) \in T
  <2> DEFINE r == Append(c, e)
             q == Joined(a, c)
  <2>1. r \in Seq(S) /\ IsList(c)
      BY SeqIsList
  <2>2. Joined(a, r) = Append(q, e)
    <3>1. AppendsToSecond(a, c, e)
        BY <1>0, AppendToConcat, Zenon
    <3> QED BY <3>1, Zenon DEF AppendsToSecond, Joined
  <2>3. IsList(q)
    <3>1. q \in Seq(S)
        BY <1>0, JoinedType, Zenon
    <3> QED BY <3>1, SeqIsList, Zenon
  <2> HIDE DEF q
  <2>4. Run(format, base, p, Append(q, e)) = ReadItem(format, base, Run(format, base, p, q), e)
      BY <2>3, RunOfAppend
  <2>5. Run(format, base, Run(format, base, p, a), r)
            = ReadItem(format, base, Run(format, base, Run(format, base, p, a), c), e)
      BY <2>1, RunOfAppend
  <2>6. Run(format, base, p, q) = Run(format, base, Run(format, base, p, a), c)
      BY <1>2 DEF q
  <2> HIDE DEF r
  <2>7. r \in T
      BY <2>1, <2>2, <2>4, <2>5, <2>6
  <2> QED BY <2>7 DEF r
<1>3. b \in T
  <2> HIDE DEF T
  <2> QED BY <1>0, <1>1, <1>2, ListInduction
<1> QED BY <1>3

\* One item.
LEMMA RunOfOne ==
    ASSUME NEW format, NEW base, NEW p, NEW e
    PROVE  Run(format, base, p, <<e>>) = ReadItem(format, base, p, e)
<1>1. IsList(<<>>) /\ Append(<<>>, e) = <<e>>
    BY EmptyIsList
<1>2. Run(format, base, p, Append(<<>>, e)) = ReadItem(format, base, Run(format, base, p, <<>>), e)
    BY <1>1, RunOfAppend
<1> QED BY <1>1, <1>2, RunOfEmpty

\* Lists of one item and of two.
LEMMA ShortLists == ASSUME NEW e, NEW d PROVE IsList(<<e>>) /\ IsList(<<e, d>>)
<1>1. <<e>> \in Seq({e}) /\ <<e, d>> \in Seq({e, d})
    OBVIOUS
<1> QED BY <1>1, SeqIsList, Zenon

\* Two items.
LEMMA RunOfTwo ==
    ASSUME NEW format, NEW base, NEW p, NEW d, NEW e
    PROVE  Run(format, base, p, <<d, e>>) = ReadItem(format, base, ReadItem(format, base, p, d), e)
<1>1. IsList(<<d>>)
    BY ShortLists, Zenon
<1>2. Run(format, base, p, Append(<<d>>, e)) = ReadItem(format, base, Run(format, base, p, <<d>>), e)
    BY <1>1, RunOfAppend
<1>3. Append(<<d>>, e) = <<d, e>>
  <2> DEFINE s == Append(<<d>>, e)
             t == <<d, e>>
  <2>1. s \in Seq({d, e}) /\ Len(s) = 2 /\ s[1] = d /\ s[2] = e
      OBVIOUS
  <2>2. t \in Seq({d, e}) /\ Len(t) = 2 /\ t[1] = d /\ t[2] = e
      OBVIOUS
  <2> HIDE DEF s, t
  <2>3. \A i \in 1 .. Len(s) : s[i] = t[i]
      BY <2>1, <2>2
  <2>4. s = t
      BY <2>1, <2>2, <2>3
  <2> QED BY <2>4 DEF s, t
<1> QED BY <1>2, <1>3, RunOfOne

\* The first lists of several.
FirstLists(lists, n) == FlattenSeq(SubSeq(lists, 1, n))

InTurn(lists, format, base, p) ==
    /\ Len(lists) \in Nat
    /\ Run(format, base, p, FirstLists(lists, 0)) = p
    /\ \A n \in 0 .. Len(lists) : n < Len(lists) =>
           Run(format, base, p, FirstLists(lists, n + 1))
               = Run(format, base, Run(format, base, p, FirstLists(lists, n)), lists[n + 1])
    /\ FirstLists(lists, Len(lists)) = FlattenSeq(lists)

\* Several lists are read one after the other: the code behaviour is a loop of
\* a renderer that writes some lines or elements for each of its items.
LEMMA RunOfLists ==
    ASSUME NEW lists, IsList(lists), \A i \in 1 .. Len(lists) : IsList(lists[i]),
           NEW format, NEW base, NEW p
    PROVE  IsList(FlattenSeq(lists)) /\ InTurn(lists, format, base, p)
<1> DEFINE S == UNION {Range(lists[i]) : i \in 1 .. Len(lists)}
<1>1. \A i \in 1 .. Len(lists) : lists[i] \in Seq(S)
  <2> SUFFICES ASSUME NEW i \in 1 .. Len(lists) PROVE lists[i] \in Seq(S)
      OBVIOUS
  <2>1. lists[i] \in Seq(Range(lists[i])) /\ Range(lists[i]) \subseteq S
      BY DEF IsList
  <2> HIDE DEF S
  <2> QED BY <2>1
<1>2. lists \in Seq(Seq(S)) /\ Len(lists) \in Nat
  <2>1. lists \in Seq(Range(lists)) /\ DOMAIN lists = 1 .. Len(lists) /\ Len(lists) \in Nat
      BY DEF IsList
  <2> HIDE DEF S
  <2> QED BY <1>1, <2>1
<1> HIDE DEF S
<1>3. \A n \in 0 .. Len(lists) : SubSeq(lists, 1, n) \in Seq(Seq(S))
    BY <1>2
<1>4. \A n \in 0 .. Len(lists) : FirstLists(lists, n) \in Seq(S)
    BY <1>3, FlattenType DEF FirstLists
<1>5. SubSeq(lists, 1, Len(lists)) = lists /\ SubSeq(lists, 1, 0) = <<>>
    BY <1>2
<1>6. IsList(FlattenSeq(lists))
  <2>1. FlattenSeq(lists) \in Seq(S)
      BY <1>2, FlattenType
  <2> QED BY <2>1, SeqIsList, Zenon
<1>7. Run(format, base, p, FirstLists(lists, 0)) = p
    BY <1>5, FlattenOfEmpty, RunOfEmpty DEF FirstLists
<1>8. ASSUME NEW n \in 0 .. Len(lists), n < Len(lists)
      PROVE  Run(format, base, p, FirstLists(lists, n + 1))
                 = Run(format, base, Run(format, base, p, FirstLists(lists, n)), lists[n + 1])
  <2>1. SubSeq(lists, 1, n + 1) = Append(SubSeq(lists, 1, n), lists[n + 1])
        /\ n + 1 \in 1 .. Len(lists)
      BY <1>2, <1>8
  <2>2. lists[n + 1] \in Seq(S) /\ SubSeq(lists, 1, n) \in Seq(Seq(S))
      BY <1>1, <1>3, <2>1
  <2>3. FirstLists(lists, n + 1) = Joined(FirstLists(lists, n), lists[n + 1])
      BY <2>1, <2>2, FlattenOfAppend DEF FirstLists
  <2>4. IsList(FirstLists(lists, n)) /\ IsList(lists[n + 1])
      BY <1>4, <2>2, SeqIsList, Zenon
  <2> QED BY <2>3, <2>4, RunOfJoined
<1> QED BY <1>2, <1>5, <1>6, <1>7, <1>8 DEF FirstLists, InTurn

\* An element: its start, what is in it, its end.
LEMMA RunOfElement ==
    ASSUME NEW name, NEW attributes, NEW content, IsList(content), NEW p
    PROVE  /\ IsList(Element(name, attributes, content))
           /\ Run("dash", "none", p, Element(name, attributes, content))
                  = ReadEvent(Run("dash", "none", ReadEvent(p, Start(name, attributes)), content),
                              End(name))
<1> DEFINE start == << Start(name, attributes) >>
           end   == << End(name) >>
           body  == Joined(start, content)
<1>1. IsList(start) /\ IsList(end)
    BY ShortLists, Zenon
<1>2. IsList(body)
    BY <1>1, JoinedIsList, Zenon DEF IsJoin
<1>3. Element(name, attributes, content) = Joined(body, end)
    BY DEF Element, Joined
<1>4. IsList(Joined(body, end))
    BY <1>1, <1>2, JoinedIsList, Zenon DEF IsJoin
<1>5. Run("dash", "none", p, Joined(body, end))
          = Run("dash", "none", Run("dash", "none", p, body), end)
    BY <1>1, <1>2, RunOfJoined
<1>6. Run("dash", "none", p, body) = Run("dash", "none", Run("dash", "none", p, start), content)
    BY <1>1, RunOfJoined
<1>7. /\ Run("dash", "none", p, start) = ReadItem("dash", "none", p, Start(name, attributes))
      /\ \A q : Run("dash", "none", q, end) = ReadItem("dash", "none", q, End(name))
    BY RunOfOne
<1>8. \A q, e : ReadItem("dash", "none", q, e) = ReadEvent(q, e)
    BY DEF ReadItem
<1> HIDE DEF start, end, body
<1> QED BY <1>3, <1>4, <1>5, <1>6, <1>7, <1>8

-----------------------------------------------------------------------------
(* Items in the order of a field *)

Below(items, field, x) == {y \in items : y[field] < x[field]}

\* Items that differ in a natural number come in its order, each once: the
\* renderers write the breaks and the parts of a segment as they were added.
LEMMA OrderOfAll ==
    ASSUME NEW items, IsFiniteSet(items), NEW field,
           \A x \in items : x[field] \in Nat,
           \A x, y \in items : x[field] = y[field] => x = y
    PROVE  LET o == InOrder(items, field)
               n == Cardinality(items)
           IN  /\ n \in Nat /\ IsList(o) /\ Len(o) = n
               /\ \A i \in 1 .. n : /\ o[i] \in items
                                    /\ Cardinality(Below(items, field, o[i])) = i - 1
               /\ \A x \in items : \E i \in 1 .. n : o[i] = x
<1> DEFINE o == InOrder(items, field)
           n == Cardinality(items)
           rank == [x \in items |-> Cardinality(Below(items, field, x))]
<1>1. n \in Nat
    BY FS_CardinalityType
<1>2. ASSUME NEW x \in items
      PROVE  /\ IsFiniteSet(Below(items, field, x))
             /\ Cardinality(Below(items, field, x)) \in 0 .. n - 1
  <2>1. Below(items, field, x) \in SUBSET (items \ {x})
      BY DEF Below
  <2>2. IsFiniteSet(items \ {x}) /\ Cardinality(items \ {x}) = n - 1
      BY FS_RemoveElement
  <2>3. /\ IsFiniteSet(Below(items, field, x))
        /\ Cardinality(Below(items, field, x)) <= n - 1
      BY <2>1, <2>2, FS_Subset
  <2> QED BY <1>1, <2>3, FS_CardinalityType
<1>3. ASSUME NEW x \in items, NEW y \in items, x[field] < y[field]
      PROVE  Cardinality(Below(items, field, x)) < Cardinality(Below(items, field, y))
  <2> DEFINE a == Below(items, field, x)
             b == Below(items, field, y)
  <2>1. IsFiniteSet(a) /\ IsFiniteSet(b) /\ Cardinality(a) \in Nat /\ Cardinality(b) \in Nat
      BY <1>2
  <2>2. a \union {x} \subseteq b /\ x \notin a
    <3>1. \A z \in items : z[field] \in Nat
        OBVIOUS
    <3> QED BY <1>3, <3>1 DEF Below
  <2> HIDE DEF a, b
  <2>3. Cardinality(a \union {x}) = Cardinality(a) + 1
      BY <2>1, <2>2, FS_AddElement
  <2>4. Cardinality(a \union {x}) <= Cardinality(b)
      BY <2>1, <2>2, FS_Subset
  <2>5. Cardinality(a) < Cardinality(b)
      BY <2>1, <2>3, <2>4
  <2> QED BY <2>5 DEF a, b
<1>4. rank \in [items -> 0 .. n - 1]
    BY <1>2
<1>5. \A x, y \in items : rank[x] = rank[y] => x = y
  <2> SUFFICES ASSUME NEW x \in items, NEW y \in items, rank[x] = rank[y], x # y PROVE FALSE
      OBVIOUS
  <2>1. x[field] \in Nat /\ y[field] \in Nat /\ x[field] # y[field]
      OBVIOUS
  <2>2. x[field] < y[field] \/ y[field] < x[field]
      BY <2>1
  <2>3. rank[x] \in Nat /\ rank[y] \in Nat
      BY <1>4
  <2>4. rank[x] < rank[y] \/ rank[y] < rank[x]
      BY <1>3, <2>2
  <2> QED BY <2>3, <2>4
<1> HIDE DEF rank
<1>6. rank \in Surjection(items, 0 .. n - 1)
  <2>1. rank \in Injection(items, 0 .. n - 1)
      BY <1>4, <1>5, Fun_IsInj
  <2>2. IsFiniteSet(0 .. n - 1) /\ Cardinality(0 .. n - 1) = n
      BY <1>1, FS_Interval, 0 \in Int, n - 1 \in Int
  <2> QED BY <2>1, <2>2, FS_Injection
<1>7. \A k \in 0 .. n - 1 : \E x \in items : rank[x] = k
    BY <1>6, Fun_SurjectionProperties
<1>8. o = [i \in 1 .. n |-> CHOOSE x \in items : Cardinality(Below(items, field, x)) = i - 1]
    BY DEF InOrder, Below
<1>9. IsList(o) /\ Len(o) = n
  <2>1. o = [i \in 1 .. n |-> o[i]]
      BY <1>8
  <2> HIDE DEF o, n
  <2> QED BY <1>1, <2>1, FunctionIsList
<1>10. ASSUME NEW i \in 1 .. n
       PROVE  o[i] \in items /\ Cardinality(Below(items, field, o[i])) = i - 1
  <2>1. i - 1 \in 0 .. n - 1
      BY <1>1
  <2>2. \E x \in items : Cardinality(Below(items, field, x)) = i - 1
    <3>1. PICK x \in items : rank[x] = i - 1
        BY <1>7, <2>1
    <3> QED BY <3>1 DEF rank
  <2>3. o[i] = CHOOSE x \in items : Cardinality(Below(items, field, x)) = i - 1
      BY <1>8
  <2> QED BY <2>2, <2>3
<1>11. ASSUME NEW x \in items PROVE \E i \in 1 .. n : o[i] = x
  <2>1. rank[x] \in 0 .. n - 1 /\ rank[x] = Cardinality(Below(items, field, x))
      BY <1>4 DEF rank
  <2>2. rank[x] + 1 \in 1 .. n /\ (rank[x] + 1) - 1 = rank[x]
      BY <1>1, <2>1
  <2>3. o[rank[x] + 1] \in items /\ Cardinality(Below(items, field, o[rank[x] + 1])) = rank[x]
      BY <1>10, <2>2
  <2>4. rank[o[rank[x] + 1]] = rank[x]
      BY <2>3 DEF rank
  <2>5. o[rank[x] + 1] = x
      BY <1>5, <2>3, <2>4
  <2> QED BY <2>2, <2>5
<1> QED BY <1>1, <1>9, <1>10, <1>11

\* Nothing, and one item.
LEMMA OrderOfNone == ASSUME NEW field PROVE InOrder({}, field) = <<>>
<1>1. Cardinality({}) = 0
    BY FS_EmptySet
<1> QED BY <1>1 DEF InOrder

LEMMA OrderOfOne ==
    ASSUME NEW x, NEW field, x[field] \in Nat
    PROVE  InOrder({x}, field) = <<x>>
<1> DEFINE items == {x}
           o == InOrder(items, field)
<1>1. IsFiniteSet(items) /\ Cardinality(items) = 1
    BY FS_Singleton
<1>2. \A y \in items : y = x
    OBVIOUS
<1> HIDE DEF items
<1>3. /\ \A y \in items : y[field] \in Nat
      /\ \A y, z \in items : y[field] = z[field] => y = z
    BY <1>2
<1>4. IsList(o) /\ Len(o) = 1 /\ \A i \in 1 .. 1 : o[i] \in items
    BY <1>1, <1>3, OrderOfAll
<1> HIDE DEF o
<1>5. o[1] = x
    BY <1>2, <1>4
<1>6. o = <<x>>
    BY <1>4, <1>5 DEF IsList
<1> QED BY <1>6 DEF o, items

\* The parts of a segment in the order of their index.
LEMMA OrderOfParts ==
    ASSUME NEW n PROVE InOrder({PartOf(n, p) : p \in 1 .. PartCount}, "index")
                           = [p \in 1 .. PartCount |-> PartOf(n, p)]
<1> DEFINE items == {PartOf(n, p) : p \in 1 .. PartCount}
           f == [p \in 1 .. PartCount |-> PartOf(n, p)]
           o == InOrder(items, "index")
<1>1. PartCount \in Nat
    BY SourceAssumption
<1>2. \A p \in 1 .. PartCount : PartOf(n, p)["index"] = p
    BY DEF PartOf
<1>3. IsFiniteSet(items) /\ Cardinality(items) = PartCount
  <2>1. f \in Surjection(1 .. PartCount, items)
      BY Fun_IsSurj
  <2>2. f \in Injection(1 .. PartCount, items)
      BY <1>2, Fun_IsInj
  <2>3. IsFiniteSet(1 .. PartCount) /\ Cardinality(1 .. PartCount) = PartCount
      BY <1>1, FS_Interval, 1 \in Int, PartCount \in Int
  <2> QED BY <2>1, <2>2, <2>3, FS_Surjection
<1>4. /\ \A x \in items : x["index"] \in Nat
      /\ \A x, y \in items : x["index"] = y["index"] => x = y
  <2>1. \A x \in items : \E p \in 1 .. PartCount : x = PartOf(n, p)
      OBVIOUS
  <2> HIDE DEF items
  <2> QED BY <1>2, <2>1
<1>5. /\ IsList(o) /\ Len(o) = PartCount
      /\ \A i \in 1 .. PartCount : o[i] \in items /\ Cardinality(Below(items, "index", o[i])) = i - 1
  <2> HIDE DEF items
  <2> QED BY <1>3, <1>4, OrderOfAll DEF o
<1>6. ASSUME NEW p \in 1 .. PartCount
      PROVE  Cardinality(Below(items, "index", PartOf(n, p))) = p - 1
  <2> DEFINE g == [q \in 1 .. p - 1 |-> PartOf(n, q)]
             below == Below(items, "index", PartOf(n, p))
  <2>1. below = {PartOf(n, q) : q \in 1 .. p - 1}
    <3>1. \A q \in 1 .. PartCount : q < p <=> q \in 1 .. p - 1
        BY <1>1
    <3>2. \A q \in 1 .. p - 1 : q \in 1 .. PartCount
        BY <1>1
    <3> QED BY <1>2, <3>1, <3>2 DEF Below
  <2> HIDE DEF below
  <2>2. g \in Surjection(1 .. p - 1, below)
      BY <2>1, Fun_IsSurj
  <2>3. g \in Injection(1 .. p - 1, below)
    <3>1. \A q \in 1 .. p - 1 : q \in 1 .. PartCount
        BY <1>1
    <3> QED BY <1>2, <2>1, <3>1, Fun_IsInj
  <2>4. IsFiniteSet(1 .. p - 1) /\ Cardinality(1 .. p - 1) = p - 1
      BY <1>1, FS_Interval, 1 \in Int, p - 1 \in Int
  <2>5. Cardinality(below) = p - 1
      BY <2>2, <2>3, <2>4, FS_Surjection
  <2> QED BY <2>5 DEF below
<1>7. ASSUME NEW i \in 1 .. PartCount PROVE o[i] = PartOf(n, i)
  <2>1. PICK p \in 1 .. PartCount : o[i] = PartOf(n, p)
      BY <1>5
  <2>2. p - 1 = i - 1
      BY <1>5, <1>6, <2>1
  <2>3. p = i
      BY <1>1, <2>2
  <2> QED BY <2>1, <2>3
<1> HIDE DEF o
<1>8. o = f
    BY <1>1, <1>5, <1>7 DEF IsList
<1> QED BY <1>8 DEF o

-----------------------------------------------------------------------------
(* Lists that name each item of a set once *)

IsListing(s, items) ==
    /\ IsList(s) /\ Range(s) = items
    /\ \A i, j \in 1 .. Len(s) : s[i] = s[j] => i = j

LEMMA ListingOfNone == IsListing(<<>>, {})
<1>1. Range(<<>>) = {} /\ Len(<<>>) = 0
    BY DEF Range
<1> QED BY <1>1, EmptyIsList DEF IsListing

LEMMA ListingGrows ==
    ASSUME NEW s, NEW items, IsListing(s, items), NEW x, x \notin items
    PROVE  IsListing(Append(s, x), items \union {x})
<1> DEFINE r == Append(s, x)
<1>1. /\ IsList(r) /\ Len(r) = Len(s) + 1 /\ Len(s) \in Nat /\ r[Len(s) + 1] = x
      /\ \A i \in 1 .. Len(s) : r[i] = s[i]
    BY AppendIsList DEF IsListing
<1>2. DOMAIN s = 1 .. Len(s) /\ DOMAIN r = 1 .. Len(r)
    BY <1>1 DEF IsListing, IsList
<1> HIDE DEF r
<1>3. \A i \in 1 .. Len(s) : s[i] \in items
    BY <1>2 DEF IsListing, Range
<1>4. Range(r) = items \union {x}
  <2>1. \A y \in Range(r) : y \in items \union {x}
    <3> SUFFICES ASSUME NEW i \in 1 .. Len(r) PROVE r[i] \in items \union {x}
        BY <1>2 DEF Range
    <3>1. i = Len(s) + 1 \/ i \in 1 .. Len(s)
        BY <1>1
    <3> QED BY <1>1, <1>3, <3>1
  <2>2. \A y \in items : y \in Range(r)
    <3> SUFFICES ASSUME NEW y \in items PROVE y \in Range(r)
        OBVIOUS
    <3>1. PICK i \in 1 .. Len(s) : s[i] = y
        BY <1>2 DEF IsListing, Range
    <3>2. i \in 1 .. Len(r) /\ r[i] = y
        BY <1>1, <3>1
    <3> QED BY <1>2, <3>2 DEF Range
  <2>3. x \in Range(r)
    <3>1. Len(s) + 1 \in 1 .. Len(r)
        BY <1>1
    <3> QED BY <1>1, <1>2, <3>1 DEF Range
  <2> QED BY <2>1, <2>2, <2>3
<1>5. \A i, j \in 1 .. Len(r) : r[i] = r[j] => i = j
  <2> SUFFICES ASSUME NEW i \in 1 .. Len(r), NEW j \in 1 .. Len(r), r[i] = r[j] PROVE i = j
      OBVIOUS
  <2>1. (i = Len(s) + 1 \/ i \in 1 .. Len(s)) /\ (j = Len(s) + 1 \/ j \in 1 .. Len(s))
      BY <1>1
  <2>2. CASE i \in 1 .. Len(s) /\ j \in 1 .. Len(s)
      BY <1>1, <2>2 DEF IsListing
  <2>3. CASE i = Len(s) + 1 /\ j \in 1 .. Len(s)
      BY <1>1, <1>3, <2>3
  <2>4. CASE j = Len(s) + 1 /\ i \in 1 .. Len(s)
      BY <1>1, <1>3, <2>4
  <2> QED BY <2>1, <2>2, <2>3, <2>4
<1> QED BY <1>1, <1>4, <1>5 DEF IsListing, r

LEMMA ListingCounts ==
    ASSUME NEW s, NEW items, IsListing(s, items)
    PROVE  Len(s) = Cardinality(items)
<1>1. Len(s) \in Nat /\ DOMAIN s = 1 .. Len(s)
    BY DEF IsListing, IsList
<1>2. s \in [1 .. Len(s) -> items]
  <2>1. s = [i \in 1 .. Len(s) |-> s[i]]
      BY <1>1 DEF IsListing, IsList
  <2>2. \A i \in 1 .. Len(s) : s[i] \in items
      BY <1>1 DEF IsListing, Range
  <2> QED BY <2>1, <2>2
<1>3. s \in Surjection(1 .. Len(s), items)
  <2>1. \A x \in items : \E i \in 1 .. Len(s) : s[i] = x
      BY <1>1 DEF IsListing, Range
  <2> QED BY <1>2, <2>1, Fun_IsSurj
<1>4. s \in Injection(1 .. Len(s), items)
    BY <1>2, Fun_IsInj DEF IsListing
<1>5. IsFiniteSet(1 .. Len(s)) /\ Cardinality(1 .. Len(s)) = Len(s)
  <2> DEFINE n == Len(s)
  <2>1. n \in Int /\ n \in Nat
      BY <1>1
  <2> HIDE DEF n
  <2>2. IsFiniteSet(1 .. n) /\ Cardinality(1 .. n) = n
      BY <2>1, FS_Interval, 1 \in Int
  <2> QED BY <2>2 DEF n
<1> QED BY <1>3, <1>4, <1>5, FS_Surjection

-----------------------------------------------------------------------------
(* The manifests that are published *)

\* Segments numbered in a row, their parts and their ad break, as a reader finds
\* them in any manifest.
Whole(m) ==
    /\ m.listed \in Seq(SegmentRecords) /\ m.startNumber \in Nat /\ m.complete \in BOOLEAN
    /\ \A i \in 1 .. Len(m.listed) : m.listed[i].number = m.startNumber + i - 1
    /\ m.parts \subseteq [segment : 0 .. SourceLength - 1, index : 1 .. PartCount]
    /\ m.adBreaks \subseteq [segment : 0 .. SourceLength - 1, time : Nat]
    /\ WholeParts(m.parts) /\ OneBreakEach(m.adBreaks)

LEMMA PublishedWhole ==
    ASSUME OutputInv, ItemsInv, NEW a \in 1 .. Len(published)
    PROVE  Whole(published[a])
<1> DEFINE m == published[a]
           segs == state.segments
<1>1. published \in Seq(Manifests) /\ state \in StateType
    BY DEF OutputInv, TypeInv
<1>2. m \in Manifests
    BY <1>1
<1>3. /\ m.listed \in Seq(SegmentRecords) /\ m.startNumber \in Nat /\ m.complete \in BOOLEAN
      /\ m.parts \subseteq state.parts /\ m.adBreaks \subseteq state.adBreaks
  <2> HIDE DEF m
  <2> QED BY <1>2 DEF Manifests
<1>4. /\ state.parts \subseteq [segment : 0 .. SourceLength - 1, index : 1 .. PartCount]
      /\ state.adBreaks \subseteq [segment : 0 .. SourceLength - 1, time : Nat]
    BY <1>1 DEF StateType
<1>5. WholeParts(m.parts) /\ OneBreakEach(m.adBreaks) /\ m.startNumber = FirstNumber(m.listed)
    BY DEF ItemsInv
<1>6. \A i \in 1 .. Len(m.listed) : m.listed[i].number = m.startNumber + i - 1
  <2> SUFFICES ASSUME NEW i \in 1 .. Len(m.listed) PROVE m.listed[i].number = m.startNumber + i - 1
      OBVIOUS
  <2>0. 1 \in 1 .. Len(m.listed) /\ Len(m.listed) \in Nat /\ m.listed # <<>>
      BY <1>3
  <2>1. segs \in Seq(Timed) /\ Len(segs) \in Nat
      BY RecordsTimed DEF OutputInv, TypeInv, StateType
  <2>2. PICK f : IsSum(f, MsOf(segs), Len(segs))
    <3> HIDE DEF segs
    <3> QED BY <2>1, SumExists, Addends
  <2>3. PICK k \in 0 .. a : m.sequence = k /\ m.listed[i].number = k + i - 1
      BY <2>2, PlaceOf
  <2>4. PICK l \in 0 .. a : m.sequence = l /\ m.listed[1].number = l + 1 - 1
      BY <2>0, <2>2, PlaceOf
  <2>5. m.startNumber = m.listed[1].number
    <3> HIDE DEF m
    <3> QED BY <1>5, <2>0 DEF FirstNumber
  <2> HIDE DEF m
  <2>6. k = l /\ k \in Nat
      BY <2>3, <2>4
  <2> QED BY <2>3, <2>4, <2>5, <2>6
<1> HIDE DEF m
<1> QED BY <1>3, <1>4, <1>5, <1>6 DEF Whole, m

\* Of the segments a manifest lists: their number, duration, and the time up to them.
LEMMA ListedSegments ==
    ASSUME NEW m, Whole(m)
    PROVE  /\ Len(m.listed) \in Nat
           /\ \A i \in 1 .. Len(m.listed) :
                 /\ m.listed[i].number \in 0 .. SourceLength - 1
                 /\ m.listed[i].duration \in Durations /\ m.listed[i].duration \in Nat
                 /\ \A j \in 1 .. Len(m.listed) : m.listed[i].number = m.listed[j].number => i = j
                 /\ TotalDuration(SubSeq(m.listed, 1, i - 1)) \in Nat
                 /\ TotalDuration(SubSeq(m.listed, 1, i))
                        = TotalDuration(SubSeq(m.listed, 1, i - 1)) + m.listed[i].duration
           /\ TotalDuration(SubSeq(m.listed, 1, 0)) = 0
<1> DEFINE segs == m.listed
<1>1. segs \in Seq(SegmentRecords) /\ segs \in Seq(Timed) /\ Len(segs) \in Nat /\ m.startNumber \in Nat
    BY RecordsTimed DEF Whole
<1>2. \A i \in 1 .. Len(segs) : segs[i].number = m.startNumber + i - 1
    BY DEF Whole
<1> HIDE DEF segs
<1>3. PICK f : IsSum(f, DurationsOf(segs), Len(segs))
    BY <1>1, SumExists, Addends
<1>4. ASSUME NEW i \in 0 .. Len(segs) PROVE TotalDuration(SubSeq(segs, 1, i)) = f[i] /\ f[i] \in Nat
  <2>1. 0 \in 0 .. Len(segs) /\ i \in 0 .. Len(segs) /\ 0 + 1 = 1
      BY <1>1
  <2>2. TotalDuration(SubSeq(segs, 0 + 1, i)) = f[i] - f[0]
      BY <1>1, <1>3, <2>1, TotalOfRun
  <2>3. f[0] = 0 /\ f[i] \in Nat
      BY <1>3, <2>1 DEF IsSum
  <2> QED BY <2>1, <2>2, <2>3
<1>5. ASSUME NEW i \in 1 .. Len(segs)
      PROVE  /\ segs[i].number \in 0 .. SourceLength - 1
             /\ segs[i].duration \in Durations /\ segs[i].duration \in Nat
             /\ \A j \in 1 .. Len(segs) : segs[i].number = segs[j].number => i = j
             /\ TotalDuration(SubSeq(segs, 1, i - 1)) \in Nat
             /\ TotalDuration(SubSeq(segs, 1, i))
                    = TotalDuration(SubSeq(segs, 1, i - 1)) + segs[i].duration
  <2>1. segs[i] \in SegmentRecords /\ Durations \subseteq Nat
      BY <1>1, SourceAssumption
  <2>2. i - 1 \in 0 .. Len(segs) /\ i \in 0 .. Len(segs)
      BY <1>1
  <2>3. f[i] = f[i - 1] + segs[i].duration
    <3>1. f[i] = f[i - 1] + DurationsOf(segs)[i]
        BY <1>3 DEF IsSum
    <3> QED BY <3>1 DEF DurationsOf
  <2>4. \A j \in 1 .. Len(segs) : segs[i].number = segs[j].number => i = j
    <3> SUFFICES ASSUME NEW j \in 1 .. Len(segs), segs[i].number = segs[j].number PROVE i = j
        OBVIOUS
    <3>1. m.startNumber + i - 1 = m.startNumber + j - 1
        BY <1>2
    <3> QED BY <1>1, <3>1
  <2>5. segs[i].number \in 0 .. SourceLength - 1 /\ segs[i].duration \in Durations
      BY <2>1 DEF SegmentRecords
  <2> QED BY <1>4, <2>1, <2>2, <2>3, <2>4, <2>5
<1>6. TotalDuration(SubSeq(segs, 1, 0)) = 0
  <2>1. 0 \in 0 .. Len(segs) /\ f[0] = 0
      BY <1>1, <1>3 DEF IsSum
  <2> QED BY <1>4, <2>1
<1> QED BY <1>1, <1>5, <1>6 DEF segs

-----------------------------------------------------------------------------
(* A playlist is read as it was rendered *)

HlsRun(p, lines) == Run("hls", OutputUrl, p, lines)

\* The state of parse_hls_manifest, and what a line may leave as it is.
IsHls(p) ==
    DOMAIN p = {"failed", "init", "urls", "durations", "live", "pending", "scheme", "adBreaks",
                "number", "elapsed", "ts", "aesKey", "parts", "partIndex"}

HlsKeeps(p, q) ==
    /\ IsHls(q)
    /\ q.failed = p.failed /\ q.init = p.init /\ q.urls = p.urls /\ q.durations = p.durations
    /\ q.live = p.live /\ q.pending = p.pending /\ q.number = p.number
    /\ q.elapsed = p.elapsed /\ q.ts = p.ts

LEMMA HlsKeepsAll ==
    /\ \A p : IsHls(p) => HlsKeeps(p, p)
    /\ \A p, q, r : HlsKeeps(p, q) /\ HlsKeeps(q, r) => HlsKeeps(p, r)
BY DEF HlsKeeps

\* The names of the output's files resolve against the URL of its manifests.
LEMMA RootResolves == ASSUME NEW e PROVE Join(OutputUrl, RootUri(e)).ok
<1> DEFINE reference == RootUri(e)
<1>1. reference.kind = "root" /\ reference.query = <<>>
    BY DEF RootUri, Reference
<1>2. ~ HoldsUrl(reference)
    BY <1>1 DEF HoldsUrl
<1> HIDE DEF reference
<1>3. Join(OutputUrl, reference) = Resolved(Url(OutputUrl.host, reference.path, reference.query))
    BY <1>1, <1>2 DEF Join
<1> QED BY <1>3 DEF Resolved, reference

LEMMA OutputNames ==
    /\ Join(OutputUrl, OutputUris.init).ok /\ Join(OutputUrl, OutputUris.media).ok
    /\ \A n \in 0 .. SourceLength - 1 : Join(OutputUrl, OutputUris.segment[n]).ok
    /\ \A p \in 1 .. PartCount : Join(OutputUrl, OutputUris.part[p]).ok
<1>1. /\ OutputUris.init = RootUri(Plain("init"))
      /\ OutputUris.media = RootUri(Numbered("segment", Number))
      /\ \A n \in 0 .. SourceLength - 1 : OutputUris.segment[n] = RootUri(Numbered("segment", n))
      /\ \A p \in 1 .. PartCount : OutputUris.part[p] = RootUri(Numbered("part", p))
    BY DEF OutputUris
<1> QED BY <1>1, RootResolves

\* Lines that say nothing of the segments.
LEMMA HlsOtherLines ==
    ASSUME NEW p, IsHls(p), ~ p.failed
    PROVE  /\ ReadLine(p, OutputUrl, Line("MEDIA-SEQUENCE")) = p
           /\ ReadLine(p, OutputUrl, Line("PLAYLIST-TYPE")) = p
           /\ ReadLine(p, OutputUrl, Line("ENDLIST")) = [p EXCEPT !.live = FALSE]
           /\ ReadLine(p, OutputUrl, MapLine(OutputUris.init))
                  = [p EXCEPT !.init = SomeUrl(Join(OutputUrl, OutputUris.init).url)]
           /\ \A method \in {"SAMPLE-AES-CTR", "SAMPLE-AES"} :
                 \E scheme : ReadLine(p, OutputUrl, KeyLine(method)) = [p EXCEPT !.scheme = scheme]
<1>1. /\ ReadLine(p, OutputUrl, Line("MEDIA-SEQUENCE")) = p
      /\ ReadLine(p, OutputUrl, Line("PLAYLIST-TYPE")) = p
      /\ ReadLine(p, OutputUrl, Line("ENDLIST")) = [p EXCEPT !.live = FALSE]
    BY DEF ReadLine, Line
<1>2. ReadLine(p, OutputUrl, MapLine(OutputUris.init))
          = [p EXCEPT !.init = SomeUrl(Join(OutputUrl, OutputUris.init).url)]
  <2> DEFINE line == MapLine(OutputUris.init)
  <2>1. line.tag = "MAP" /\ line.uri = OutputUris.init
      BY DEF MapLine
  <2> HIDE DEF line
  <2> QED BY <2>1, OutputNames DEF ReadLine, WithUrl, line
<1>3. ASSUME NEW method \in {"SAMPLE-AES-CTR", "SAMPLE-AES"}
      PROVE  \E scheme : ReadLine(p, OutputUrl, KeyLine(method)) = [p EXCEPT !.scheme = scheme]
  <2> DEFINE line == KeyLine(method)
  <2>1. line.tag = "KEY" /\ line.method = method
      BY DEF KeyLine
  <2> HIDE DEF line
  <2>2. ReadLine(p, OutputUrl, line) = ReadKey(p, OutputUrl, line)
      BY <2>1 DEF ReadLine
  <2>3. \/ ReadKey(p, OutputUrl, line) = [p EXCEPT !.scheme = "cenc"]
        \/ ReadKey(p, OutputUrl, line) = [p EXCEPT !.scheme = "cbcs"]
      BY <2>1 DEF ReadKey
  <2> QED BY <2>2, <2>3 DEF line
<1> QED BY <1>1, <1>2, <1>3

\* Keys change the scheme only.
LEMMA HlsKeysRead ==
    ASSUME NEW p, IsHls(p), ~ p.failed
    PROVE  LET q == HlsRun(p, EmitHlsDrmKeys(OutputDrm))
           IN  /\ IsList(EmitHlsDrmKeys(OutputDrm))
               /\ HlsKeeps(p, q) /\ q.adBreaks = p.adBreaks /\ q.parts = p.parts
               /\ q.partIndex = p.partIndex
<1> DEFINE lines == EmitHlsDrmKeys(OutputDrm)
           n == OutputDrm.systems
           method == HlsMethod(OutputDrm.scheme)
           Same(q) == /\ HlsKeeps(p, q) /\ q.adBreaks = p.adBreaks /\ q.parts = p.parts
                      /\ q.partIndex = p.partIndex
<1>1. n \in Nat /\ method \in {"SAMPLE-AES-CTR", "SAMPLE-AES"}
    BY OutputAssumption DEF HlsMethod
<1>2. lines = [i \in 1 .. n |-> KeyLine(method)]
    BY DEF EmitHlsDrmKeys
<1> HIDE DEF lines, n, method
<1>3. IsList(lines) /\ Len(lines) = n /\ \A i \in 1 .. n : lines[i] = KeyLine(method)
    BY <1>1, <1>2, FunctionIsList
<1>4. PICK f : IsRun(f, "hls", OutputUrl, p, lines)
    BY <1>1, <1>3, RunExists
<1>5. ASSUME NEW q, Same(q) PROVE Same(ReadLine(q, OutputUrl, KeyLine(method)))
  <2>1. IsHls(q) /\ ~ q.failed
      BY <1>5 DEF HlsKeeps
  <2>2. PICK scheme : ReadLine(q, OutputUrl, KeyLine(method)) = [q EXCEPT !.scheme = scheme]
    <3>1. \A kind \in {"SAMPLE-AES-CTR", "SAMPLE-AES"} :
              \E scheme : ReadLine(q, OutputUrl, KeyLine(kind)) = [q EXCEPT !.scheme = scheme]
        BY <2>1, HlsOtherLines
    <3> QED BY <1>1, <3>1, Zenon
  <2> DEFINE r == [q EXCEPT !.scheme = scheme]
  <2>3. HlsKeeps(q, r) /\ r.adBreaks = q.adBreaks /\ r.parts = q.parts /\ r.partIndex = q.partIndex
      BY <2>1 DEF HlsKeeps, IsHls
  <2> HIDE DEF r
  <2>4. Same(r)
      BY <1>5, <2>3, HlsKeepsAll
  <2> QED BY <2>2, <2>4 DEF r
<1> DEFINE T == {k \in 0 .. n : Same(f[k])}
<1>6. 0 \in T
  <2>1. Same(p)
      BY HlsKeepsAll
  <2> HIDE DEF Same
  <2> QED BY <1>1, <1>4, <2>1 DEF IsRun
<1>7. ASSUME NEW k \in 0 .. n, k < n, k \in T PROVE k + 1 \in T
  <2>1. k + 1 \in 1 .. n /\ (k + 1) - 1 = k /\ k + 1 \in 0 .. n
      BY <1>1, <1>7
  <2>2. f[k + 1] = ReadLine(f[k], OutputUrl, KeyLine(method))
      BY <1>3, <1>4, <2>1 DEF IsRun, ReadItem
  <2>3. Same(f[k])
      BY <1>7
  <2> HIDE DEF Same
  <2> QED BY <1>5, <2>1, <2>2, <2>3
<1>8. n \in T
  <2> HIDE DEF T
  <2>1. \A k \in 0 .. n : k \in T
      BY <1>1, <1>6, <1>7, CountUp, Zenon
  <2> QED BY <1>1, <2>1
<1>9. HlsRun(p, lines) = f[n]
    BY <1>1, <1>3, <1>4, RunIsLast DEF HlsRun
<1> QED BY <1>3, <1>8, <1>9 DEF lines

\* Where the ad break and the parts of the j-th segment are read to be.
BreakAt(m, j) ==
    [id |-> m.listed[j].number, segment |-> j - 1,
     elapsed |-> TotalDuration(SubSeq(m.listed, 1, j - 1))]
PartAt(j, p) ==
    [segment |-> j - 1, index |-> p - 1, url |-> Join(OutputUrl, OutputUris.part[p]).url]

HasBreak(m, j) == \E b \in m.adBreaks : b.segment = m.listed[j].number
HasParts(m, j) == \E p \in m.parts : p.segment = m.listed[j].number

\* Those of the first i segments.
BreaksUpTo(m, i) == {BreakAt(m, j) : j \in {k \in 1 .. i : HasBreak(m, k)}}
PartsUpTo(m, i) == {PartAt(j, p) : j \in {k \in 1 .. i : HasParts(m, k)}, p \in 1 .. PartCount}

\* A loop over one item or none.
LEMMA OneOrNone == ASSUME NEW x PROVE [k \in 1 .. 1 |-> x] = <<x>> /\ [k \in 1 .. 0 |-> x] = <<>>
OBVIOUS

\* The ad break of a segment.
OwnBreaks(m, i)  == InOrder({b \in m.adBreaks : b.segment = m.listed[i].number}, "time")
BreakLines(m, i) == [b \in 1 .. Len(OwnBreaks(m, i)) |-> RangeLine(m.listed[i].number, TRUE)]

LEMMA BreaksRead ==
    ASSUME NEW m, Whole(m), NEW i \in 1 .. Len(m.listed), NEW p, IsHls(p), ~ p.failed,
           p.number = i - 1, p.elapsed = TotalDuration(SubSeq(m.listed, 1, i - 1)),
           IsListing(p.adBreaks, BreaksUpTo(m, i - 1))
    PROVE  LET q == HlsRun(p, BreakLines(m, i))
           IN  /\ IsList(BreakLines(m, i))
               /\ HlsKeeps(p, q) /\ q.parts = p.parts /\ q.partIndex = p.partIndex
               /\ IsListing(q.adBreaks, BreaksUpTo(m, i))
<1> DEFINE n == m.listed[i].number
           own == {b \in m.adBreaks : b.segment = n}
           breaks == InOrder(own, "time")
           lines == [b \in 1 .. Len(breaks) |-> RangeLine(n, TRUE)]
<1>0. i \in Nat /\ i >= 1
    BY ListedSegments
<1>1. CASE HasBreak(m, i)
  <2>1. PICK b \in m.adBreaks : b.segment = n
      BY <1>1 DEF HasBreak
  <2>2. own = {b}
      BY <2>1 DEF Whole, OneBreakEach
  <2>3. breaks = <<b>>
    <3>1. b["time"] \in Nat
        BY DEF Whole
    <3> QED BY <2>2, <3>1, OrderOfOne
  <2> HIDE DEF breaks
  <2>4. lines = << RangeLine(n, TRUE) >>
    <3>1. Len(breaks) = 1
        BY <2>3
    <3> QED BY <3>1, OneOrNone
  <2> DEFINE line == RangeLine(n, TRUE)
             x == BreakAt(m, i)
             q == [p EXCEPT !.adBreaks = Append(p.adBreaks, x)]
  <2>5. line.tag = "DATERANGE" /\ line.splice = TRUE /\ line.id = n
      BY DEF RangeLine
  <2>6. x = [id |-> n, segment |-> p.number, elapsed |-> p.elapsed]
      BY DEF BreakAt
  <2> HIDE DEF x, n
  <2>7. ReadLine(p, OutputUrl, line) = q
    <3> HIDE DEF line
    <3>1. ReadLine(p, OutputUrl, line) = ReadDaterange(p, line)
        BY <2>5 DEF ReadLine
    <3>2. ReadDaterange(p, line) = q
        BY <2>5, <2>6 DEF ReadDaterange, IsHls
    <3> QED BY <3>1, <3>2
  <2>8. HlsKeeps(p, q) /\ q.parts = p.parts /\ q.partIndex = p.partIndex
        /\ q.adBreaks = Append(p.adBreaks, x)
      BY DEF HlsKeeps, IsHls
  <2> HIDE DEF q, line
  <2>9. HlsRun(p, lines) = q
    <3>1. HlsRun(p, << line >>) = ReadItem("hls", OutputUrl, p, line)
        BY RunOfOne DEF HlsRun
    <3> QED BY <2>4, <2>7, <3>1 DEF ReadItem, line
  <2>10. x \notin BreaksUpTo(m, i - 1) /\ BreaksUpTo(m, i) = BreaksUpTo(m, i - 1) \union {x}
    <3>1. \A j \in 1 .. i - 1 : BreakAt(m, j) # x
      <4> SUFFICES ASSUME NEW j \in 1 .. i - 1, BreakAt(m, j) = x PROVE FALSE
          OBVIOUS
      <4>1. BreakAt(m, j).segment = j - 1 /\ BreakAt(m, i).segment = i - 1
          BY DEF BreakAt
      <4>2. j - 1 = i - 1
          BY <4>1 DEF x
      <4> QED BY <1>0, <4>2
    <3>2. {k \in 1 .. i : HasBreak(m, k)} = {k \in 1 .. i - 1 : HasBreak(m, k)} \union {i}
        BY <1>0, <1>1
    <3> QED BY <3>1, <3>2 DEF BreaksUpTo, x
  <2>11. IsListing(q.adBreaks, BreaksUpTo(m, i))
      BY <2>8, <2>10, ListingGrows
  <2>12. IsList(lines)
      BY <2>4, ShortLists, Zenon
  <2> QED BY <2>8, <2>9, <2>11, <2>12 DEF breaks, n, BreakLines, OwnBreaks
<1>2. CASE ~ HasBreak(m, i)
  <2>1. own = {}
      BY <1>2 DEF HasBreak
  <2>2. breaks = <<>>
      BY <2>1, OrderOfNone
  <2>3. lines = <<>>
    <3>1. Len(breaks) = 0
        BY <2>2
    <3> HIDE DEF breaks
    <3> QED BY <3>1, OneOrNone
  <2>4. HlsRun(p, lines) = p
      BY <2>3, RunOfEmpty DEF HlsRun
  <2>5. BreaksUpTo(m, i) = BreaksUpTo(m, i - 1)
    <3>1. {k \in 1 .. i : HasBreak(m, k)} = {k \in 1 .. i - 1 : HasBreak(m, k)}
        BY <1>0, <1>2
    <3> QED BY <3>1 DEF BreaksUpTo
  <2>6. IsList(lines)
      BY <2>3, EmptyIsList
  <2> HIDE DEF lines
  <2> QED BY <2>4, <2>5, <2>6, HlsKeepsAll DEF lines, breaks, own, n, BreakLines, OwnBreaks
<1> QED BY <1>1, <1>2

\* The parts a manifest has of a segment are all of its parts or none.
LEMMA PartsOfSegment ==
    ASSUME NEW m, Whole(m), NEW i \in 1 .. Len(m.listed), NEW own,
           own = {x \in m.parts : x.segment = m.listed[i].number}
    PROVE  /\ HasParts(m, i) => own = {PartOf(m.listed[i].number, k) : k \in 1 .. PartCount}
           /\ ~ HasParts(m, i) => own = {}
<1> DEFINE n == m.listed[i].number
<1>1. CASE HasParts(m, i)
  <2>1. \A x \in m.parts : x.index \in 1 .. PartCount /\ x = PartOf(x.segment, x.index)
      BY DEF Whole, PartOf
  <2>2. PICK y \in m.parts : y.segment = n
      BY <1>1 DEF HasParts
  <2>3. \A k \in 1 .. PartCount : PartOf(n, k) \in m.parts /\ PartOf(n, k).segment = n
      BY <2>2 DEF Whole, WholeParts, PartOf
  <2>4. own = {x \in m.parts : x.segment = n}
      OBVIOUS
  <2> HIDE DEF n
  <2>5. \A x \in own : \E k \in 1 .. PartCount : x = PartOf(n, k)
      BY <2>1, <2>4
  <2>6. own = {PartOf(n, k) : k \in 1 .. PartCount}
      BY <2>3, <2>4, <2>5
  <2> QED BY <1>1, <2>6 DEF n
<1>2. CASE ~ HasParts(m, i)
    BY <1>2 DEF HasParts
<1> QED BY <1>1, <1>2

\* With a further segment come its parts, none of them known before.
LEMMA PartsGrow ==
    ASSUME NEW m, NEW i \in Nat, i >= 1
    PROVE  /\ HasParts(m, i) => PartsUpTo(m, i)
                  = PartsUpTo(m, i - 1) \union {PartAt(i, p) : p \in 1 .. PartCount}
           /\ ~ HasParts(m, i) => PartsUpTo(m, i) = PartsUpTo(m, i - 1)
           /\ \A x \in PartsUpTo(m, i - 1) : x.segment # i - 1
<1> DEFINE had == {k \in 1 .. i - 1 : HasParts(m, k)}
           has == {k \in 1 .. i : HasParts(m, k)}
<1>1. HasParts(m, i) => has = had \union {i}
    OBVIOUS
<1>2. ~ HasParts(m, i) => has = had
    OBVIOUS
<1>3. /\ PartsUpTo(m, i - 1) = {PartAt(j, p) : j \in had, p \in 1 .. PartCount}
      /\ PartsUpTo(m, i) = {PartAt(j, p) : j \in has, p \in 1 .. PartCount}
    BY DEF PartsUpTo
<1>4. had \subseteq 1 .. i - 1
    OBVIOUS
<1> HIDE DEF had, has
<1>5. ASSUME NEW x \in PartsUpTo(m, i - 1) PROVE x.segment # i - 1
  <2>1. PICK j \in had, p \in 1 .. PartCount : x = PartAt(j, p)
      BY <1>3
  <2>2. x.segment = j - 1 /\ j \in 1 .. i - 1
      BY <1>4, <2>1 DEF PartAt
  <2> QED BY <2>2
<1> QED BY <1>1, <1>2, <1>3, <1>5

\* The lines of the parts of one segment.
EachPartLine == [k \in 1 .. PartCount |-> PartLine(OutputUris.part[k])]
PartsAt(i)   == {PartAt(i, k) : k \in 1 .. PartCount}

LEMMA PartLinesRead ==
    ASSUME NEW i \in Nat, i >= 1, NEW p, IsHls(p), ~ p.failed, p.number = i - 1, p.partIndex = 0,
           NEW before, IsListing(p.parts, before), \A x \in before : x.segment # i - 1,
           NEW lines, lines = EachPartLine
    PROVE  /\ IsList(lines)
           /\ HlsKeeps(p, HlsRun(p, lines)) /\ HlsRun(p, lines).adBreaks = p.adBreaks
           /\ IsListing(HlsRun(p, lines).parts, before \union PartsAt(i))
<1>0. PartCount \in Nat /\ lines = [k \in 1 .. PartCount |-> PartLine(OutputUris.part[k])]
    BY SourceAssumption DEF EachPartLine
<1>1. /\ IsList(lines) /\ Len(lines) = PartCount
      /\ \A k \in 1 .. PartCount : lines[k] = PartLine(OutputUris.part[k])
    BY <1>0, FunctionIsList
<1>2. PICK f : IsRun(f, "hls", OutputUrl, p, lines)
    BY <1>0, <1>1, RunExists
<1> DEFINE own(k) == {PartAt(i, j) : j \in 1 .. k}
           So(k) == /\ HlsKeeps(p, f[k]) /\ f[k].adBreaks = p.adBreaks /\ f[k].partIndex = k
                    /\ IsListing(f[k].parts, before \union own(k))
           T == {k \in 0 .. PartCount : So(k)}
<1>3. 0 \in T
  <2>1. before \union own(0) = before
      OBVIOUS
  <2>2. f[0] = p
      BY <1>2 DEF IsRun
  <2> HIDE DEF own
  <2>3. HlsKeeps(p, p)
      BY HlsKeepsAll
  <2>4. So(0)
      BY <2>1, <2>2, <2>3
  <2> HIDE DEF So
  <2> QED BY <1>0, <2>4
<1>4. ASSUME NEW k \in 0 .. PartCount, k < PartCount, k \in T PROVE k + 1 \in T
  <2>1. k \in Nat /\ k + 1 \in 1 .. PartCount /\ (k + 1) - 1 = k /\ k + 1 \in 0 .. PartCount
      BY <1>0, <1>4
  <2> DEFINE q == f[k]
             line == PartLine(OutputUris.part[k + 1])
             x == PartAt(i, k + 1)
             r == [q EXCEPT !.parts = Append(q.parts, x), !.partIndex = k + 1]
  <2>2. So(k)
      BY <1>4
  <2>3. IsHls(q) /\ ~ q.failed /\ q.number = i - 1 /\ q.partIndex = k
      BY <2>2 DEF HlsKeeps
  <2>4. line.tag = "PART" /\ line.valid = TRUE /\ line.uri = OutputUris.part[k + 1]
      BY DEF PartLine
  <2>5. x = [segment |-> q.number, index |-> k, url |-> Join(OutputUrl, OutputUris.part[k + 1]).url]
      BY <2>1, <2>3 DEF PartAt
  <2>6. f[k + 1] = ReadLine(q, OutputUrl, line)
      BY <1>1, <1>2, <2>1 DEF IsRun, ReadItem
  <2>7. Join(OutputUrl, OutputUris.part[k + 1]).ok
      BY <2>1, OutputNames
  <2>8. x \notin before \union own(k)
    <3>1. x.segment = i - 1 /\ x.index = k
        BY <2>1 DEF PartAt
    <3>2. \A y \in own(k) : y.index # k
      <4> SUFFICES ASSUME NEW j \in 1 .. k PROVE PartAt(i, j).index # k
          OBVIOUS
      <4>1. PartAt(i, j).index = j - 1
          BY DEF PartAt
      <4> QED BY <2>1, <4>1
    <3> HIDE DEF x, own
    <3> QED BY <3>1, <3>2
  <2>9. before \union own(k + 1) = (before \union own(k)) \union {x}
    <3>1. 1 .. k + 1 = (1 .. k) \union {k + 1}
        BY <2>1
    <3> QED BY <3>1
  <2> HIDE DEF q, line, x, own
  <2>10. ReadLine(q, OutputUrl, line) = r
    <3>1. ReadLine(q, OutputUrl, line) = ReadPart(q, OutputUrl, line)
        BY <2>3, <2>4 DEF ReadLine
    <3>2. ReadPart(q, OutputUrl, line) = r
        BY <2>1, <2>3, <2>4, <2>5, <2>7 DEF ReadPart, IsHls
    <3> QED BY <3>1, <3>2
  <2>11. HlsKeeps(q, r) /\ r.adBreaks = q.adBreaks /\ r.partIndex = k + 1 /\ r.parts = Append(q.parts, x)
      BY <2>3 DEF HlsKeeps, IsHls
  <2> HIDE DEF r
  <2>12. IsListing(r.parts, before \union own(k + 1))
    <3> DEFINE items == before \union own(k)
    <3>1. IsListing(q.parts, items) /\ x \notin items
        BY <2>2, <2>8 DEF q
    <3> HIDE DEF items
    <3>2. IsListing(r.parts, items \union {x})
        BY <2>11, <3>1, ListingGrows
    <3> QED BY <2>9, <3>2 DEF items
  <2>13. HlsKeeps(p, r) /\ r.adBreaks = p.adBreaks
    <3>1. HlsKeeps(p, q) /\ q.adBreaks = p.adBreaks
        BY <2>2 DEF q
    <3> QED BY <2>11, <3>1, HlsKeepsAll
  <2>14. So(k + 1)
      BY <2>6, <2>10, <2>11, <2>12, <2>13
  <2> HIDE DEF So
  <2> QED BY <2>1, <2>14
<1>5. PartCount \in T
  <2> HIDE DEF T
  <2>1. \A k \in 0 .. PartCount : k \in T
      BY <1>0, <1>3, <1>4, CountUp, Zenon
  <2> QED BY <1>0, <2>1
<1>6. HlsRun(p, lines) = f[PartCount]
    BY <1>0, <1>1, <1>2, RunIsLast DEF HlsRun
<1> QED BY <1>1, <1>5, <1>6 DEF PartsAt

\* The lines of the parts of a segment: they are numbered from 0.
OwnParts(m, i) == InOrder({x \in m.parts : x.segment = m.listed[i].number}, "index")
PartLines(m, i) ==
    [k \in 1 .. Len(OwnParts(m, i)) |-> PartLine(OutputUris.part[OwnParts(m, i)[k].index])]

LEMMA PartLinesAre ==
    ASSUME NEW m, Whole(m), NEW i \in 1 .. Len(m.listed)
    PROVE  /\ HasParts(m, i) => PartLines(m, i) = EachPartLine
           /\ ~ HasParts(m, i) => PartLines(m, i) = <<>>
<1> DEFINE n == m.listed[i].number
           own == {x \in m.parts : x.segment = n}
           parts == OwnParts(m, i)
<1>0. PartCount \in Nat
    BY SourceAssumption
<1>1. parts = InOrder(own, "index")
    BY DEF OwnParts
<1>2. PartLines(m, i) = [k \in 1 .. Len(parts) |-> PartLine(OutputUris.part[parts[k].index])]
    BY DEF PartLines
<1>3. /\ HasParts(m, i) => own = {PartOf(n, k) : k \in 1 .. PartCount}
      /\ ~ HasParts(m, i) => own = {}
    BY PartsOfSegment
<1> HIDE DEF own, n, parts
<1>4. CASE HasParts(m, i)
  <2>1. parts = [k \in 1 .. PartCount |-> PartOf(n, k)]
      BY <1>1, <1>3, <1>4, OrderOfParts
  <2>2. \A k \in 1 .. PartCount : PartOf(n, k).index = k
      BY DEF PartOf
  <2>3. Len(parts) = PartCount /\ \A k \in 1 .. PartCount : parts[k].index = k
      BY <1>0, <2>1, <2>2, FunctionIsList
  <2> QED BY <1>2, <1>4, <2>3 DEF EachPartLine
<1>5. CASE ~ HasParts(m, i)
  <2>1. parts = <<>>
      BY <1>1, <1>3, <1>5, OrderOfNone
  <2>2. Len(parts) = 0
      BY <2>1
  <2>3. PartLines(m, i) = [k \in 1 .. 0 |-> PartLine(OutputUris.part[parts[k].index])]
      BY <1>2, <2>2
  <2> HIDE DEF parts
  <2>4. PartLines(m, i) = <<>>
      BY <2>3
  <2> QED BY <1>5, <2>4
<1> QED BY <1>4, <1>5

LEMMA PartsRead ==
    ASSUME NEW m, Whole(m), NEW i \in 1 .. Len(m.listed), NEW p, IsHls(p), ~ p.failed,
           p.number = i - 1, p.partIndex = 0, IsListing(p.parts, PartsUpTo(m, i - 1))
    PROVE  LET q == HlsRun(p, PartLines(m, i))
           IN  /\ IsList(PartLines(m, i))
               /\ HlsKeeps(p, q) /\ q.adBreaks = p.adBreaks
               /\ IsListing(q.parts, PartsUpTo(m, i))
<1> DEFINE lines == PartLines(m, i)
           before == PartsUpTo(m, i - 1)
<1>0. i \in Nat /\ i >= 1
    BY ListedSegments
<1>1. CASE HasParts(m, i)
  <2>1. lines = EachPartLine
      BY <1>1, PartLinesAre
  <2>2. \A x \in before : x.segment # i - 1
      BY <1>0, PartsGrow
  <2>3. PartsUpTo(m, i) = before \union PartsAt(i)
      BY <1>0, <1>1, PartsGrow DEF PartsAt
  <2>4. IsListing(p.parts, before)
      OBVIOUS
  <2> HIDE DEF before, lines
  <2>5. /\ IsList(lines)
        /\ HlsKeeps(p, HlsRun(p, lines)) /\ HlsRun(p, lines).adBreaks = p.adBreaks
        /\ IsListing(HlsRun(p, lines).parts, before \union PartsAt(i))
      BY <1>0, <2>1, <2>2, <2>4, PartLinesRead
  <2> QED BY <2>3, <2>5 DEF lines
<1>2. CASE ~ HasParts(m, i)
  <2>1. lines = <<>>
      BY <1>2, PartLinesAre
  <2>2. HlsRun(p, lines) = p /\ IsList(lines)
      BY <2>1, RunOfEmpty, EmptyIsList DEF HlsRun
  <2>3. PartsUpTo(m, i) = before
      BY <1>0, <1>2, PartsGrow
  <2>4. HlsKeeps(p, p)
      BY HlsKeepsAll
  <2> HIDE DEF lines
  <2> QED BY <2>2, <2>3, <2>4 DEF lines
<1> QED BY <1>1, <1>2

\* The URLs and durations of the first i segments.
SegmentAt(m, j) == Join(OutputUrl, OutputUris.segment[m.listed[j].number]).url
UrlsUpTo(m, i)      == [j \in 1 .. i |-> SegmentAt(m, j)]
DurationsUpTo(m, i) == [j \in 1 .. i |-> m.listed[j].duration]

LEMMA UpToGrows ==
    ASSUME NEW m, NEW i \in Nat, i >= 1
    PROVE  /\ UrlsUpTo(m, i) = Append(UrlsUpTo(m, i - 1), SegmentAt(m, i))
           /\ DurationsUpTo(m, i) = Append(DurationsUpTo(m, i - 1), m.listed[i].duration)
<1>1. ASSUME NEW f, NEW g, DOMAIN f = 1 .. i - 1, f = [j \in 1 .. i - 1 |-> g[j]],
             DOMAIN g = 1 .. i, g = [j \in 1 .. i |-> g[j]]
      PROVE  g = Append(f, g[i])
  <2>1. i - 1 \in Nat
      OBVIOUS
  <2>2. IsList(f) /\ Len(f) = i - 1 /\ IsList(g) /\ Len(g) = i
      BY <1>1, <2>1, FunctionIsList
  <2> DEFINE r == Append(f, g[i])
  <2>3. /\ IsList(r) /\ Len(r) = i /\ r[i] = g[i]
        /\ \A j \in 1 .. i - 1 : r[j] = f[j]
      BY <2>1, <2>2, AppendIsList
  <2>4. DOMAIN r = 1 .. i /\ r = [j \in 1 .. i |-> r[j]]
      BY <2>3 DEF IsList
  <2> HIDE DEF r
  <2>5. ASSUME NEW j \in 1 .. i PROVE r[j] = g[j]
    <3>1. j = i \/ j \in 1 .. i - 1
        OBVIOUS
    <3> QED BY <1>1, <2>3, <3>1
  <2>6. r = g
      BY <1>1, <2>4, <2>5
  <2> QED BY <2>6 DEF r
<1>2. UrlsUpTo(m, i) = Append(UrlsUpTo(m, i - 1), SegmentAt(m, i))
  <2> DEFINE f == UrlsUpTo(m, i - 1)
             g == UrlsUpTo(m, i)
  <2>1. /\ DOMAIN f = 1 .. i - 1 /\ f = [j \in 1 .. i - 1 |-> g[j]]
        /\ DOMAIN g = 1 .. i /\ g = [j \in 1 .. i |-> g[j]] /\ g[i] = SegmentAt(m, i)
      BY DEF UrlsUpTo
  <2> HIDE DEF f, g
  <2>2. g = Append(f, g[i])
      BY <1>1, <2>1
  <2> QED BY <2>1, <2>2 DEF f, g
<1>3. DurationsUpTo(m, i) = Append(DurationsUpTo(m, i - 1), m.listed[i].duration)
  <2> DEFINE f == DurationsUpTo(m, i - 1)
             g == DurationsUpTo(m, i)
  <2>1. /\ DOMAIN f = 1 .. i - 1 /\ f = [j \in 1 .. i - 1 |-> g[j]]
        /\ DOMAIN g = 1 .. i /\ g = [j \in 1 .. i |-> g[j]] /\ g[i] = m.listed[i].duration
      BY DEF DurationsUpTo
  <2> HIDE DEF f, g
  <2>2. g = Append(f, g[i])
      BY <1>1, <2>1
  <2> QED BY <2>1, <2>2 DEF f, g
<1> QED BY <1>2, <1>3

\* What parse_hls_manifest has read when it has read the first i segments.
After(m, i, p) ==
    /\ IsHls(p) /\ p.failed = FALSE /\ p.live = TRUE /\ p.ts = FALSE /\ p.pending = Missing
    /\ p.init = SomeUrl(Join(OutputUrl, OutputUris.init).url)
    /\ p.number = i /\ p.partIndex = 0 /\ p.elapsed = TotalDuration(SubSeq(m.listed, 1, i))
    /\ p.urls = UrlsUpTo(m, i) /\ p.durations = DurationsUpTo(m, i)
    /\ IsListing(p.adBreaks, BreaksUpTo(m, i)) /\ IsListing(p.parts, PartsUpTo(m, i))

\* The two lines of the segment itself.
OwnLines(m, i) ==
    << InfLine(m.listed[i].duration), UriLine(OutputUris.segment[m.listed[i].number], FALSE) >>

OwnAdded(m, i, p, q) ==
    /\ IsHls(q) /\ q.failed = FALSE /\ q.ts = FALSE /\ q.live = p.live
    /\ q.init = p.init /\ q.pending = Missing
    /\ q.number = i /\ q.partIndex = 0
    /\ q.elapsed = TotalDuration(SubSeq(m.listed, 1, i))
    /\ q.urls = UrlsUpTo(m, i) /\ q.durations = DurationsUpTo(m, i)
    /\ q.adBreaks = p.adBreaks /\ q.parts = p.parts

LEMMA OwnLinesRead ==
    ASSUME NEW m, Whole(m), NEW i \in 1 .. Len(m.listed), NEW p, IsHls(p), p.failed = FALSE,
           p.ts = FALSE, p.number = i - 1, p.elapsed = TotalDuration(SubSeq(m.listed, 1, i - 1)),
           p.urls = UrlsUpTo(m, i - 1), p.durations = DurationsUpTo(m, i - 1)
    PROVE  IsList(OwnLines(m, i)) /\ OwnAdded(m, i, p, HlsRun(p, OwnLines(m, i)))
<1> DEFINE d == m.listed[i].duration
           n == m.listed[i].number
           inf == InfLine(d)
           uri == UriLine(OutputUris.segment[n], FALSE)
           awaited == [present |-> TRUE, duration |-> d]
           u == SegmentAt(m, i)
           q == [p EXCEPT !.pending = awaited]
           r == [q EXCEPT !.urls = Append(q.urls, u), !.durations = Append(q.durations, d),
                          !.elapsed = q.elapsed + d, !.number = q.number + 1, !.partIndex = 0,
                          !.pending = Missing, !.ts = FALSE]
<1>0. i \in Nat /\ i >= 1 /\ (i - 1) + 1 = i /\ n \in 0 .. SourceLength - 1
    BY ListedSegments
<1>1. /\ inf.tag = "EXTINF" /\ inf.valid = TRUE /\ inf.duration = d
      /\ uri.tag = "URI" /\ uri.uri = OutputUris.segment[n] /\ uri.ts = FALSE
    BY DEF InfLine, UriLine
<1>2. awaited.present = TRUE /\ awaited.duration = d
    OBVIOUS
<1>3. Join(OutputUrl, OutputUris.segment[n]).ok /\ Join(OutputUrl, OutputUris.segment[n]).url = u
    BY <1>0, OutputNames DEF SegmentAt
<1>4. TotalDuration(SubSeq(m.listed, 1, i)) = TotalDuration(SubSeq(m.listed, 1, i - 1)) + d
    BY ListedSegments
<1>5. /\ UrlsUpTo(m, i) = Append(UrlsUpTo(m, i - 1), u)
      /\ DurationsUpTo(m, i) = Append(DurationsUpTo(m, i - 1), d)
    BY <1>0, UpToGrows
<1>6. OwnLines(m, i) = <<inf, uri>>
    BY DEF OwnLines
<1> HIDE DEF d, n, u, awaited, inf, uri
<1>7. ReadLine(p, OutputUrl, inf) = q
    BY <1>1 DEF ReadLine, IsHls, awaited
<1>8. /\ IsHls(q) /\ q.failed = FALSE /\ q.ts = FALSE /\ q.pending = awaited
      /\ q.live = p.live /\ q.init = p.init /\ q.number = p.number /\ q.elapsed = p.elapsed
      /\ q.urls = p.urls /\ q.durations = p.durations /\ q.adBreaks = p.adBreaks /\ q.parts = p.parts
    BY DEF IsHls
<1> HIDE DEF q
<1>9. ReadLine(q, OutputUrl, uri) = r
  <2>1. ReadLine(q, OutputUrl, uri) = ReadUri(q, OutputUrl, uri)
      BY <1>1, <1>8 DEF ReadLine
  <2>2. ReadUri(q, OutputUrl, uri) = r
      BY <1>1, <1>2, <1>3, <1>8 DEF ReadUri, WithUrl, IsHls
  <2> QED BY <2>1, <2>2
<1>10. /\ IsHls(r) /\ r.failed = FALSE /\ r.ts = FALSE /\ r.live = q.live
       /\ r.init = q.init /\ r.pending = Missing /\ r.number = q.number + 1 /\ r.partIndex = 0
       /\ r.elapsed = q.elapsed + d
       /\ r.urls = Append(q.urls, u) /\ r.durations = Append(q.durations, d)
       /\ r.adBreaks = q.adBreaks /\ r.parts = q.parts
    BY <1>8 DEF IsHls
<1> HIDE DEF r
<1>11. HlsRun(p, OwnLines(m, i)) = r
  <2>1. HlsRun(p, <<inf, uri>>)
            = ReadItem("hls", OutputUrl, ReadItem("hls", OutputUrl, p, inf), uri)
      BY RunOfTwo DEF HlsRun
  <2> QED BY <1>6, <1>7, <1>9, <2>1 DEF ReadItem
<1>12. IsList(OwnLines(m, i))
    BY <1>6, ShortLists, Zenon
<1> QED BY <1>0, <1>4, <1>5, <1>8, <1>10, <1>11, <1>12 DEF OwnAdded

\* Lines none of which is that of a master playlist.
Plainly(lines) == IsList(lines) /\ \A k \in 1 .. Len(lines) : lines[k].tag # "STREAM-INF"

LEMMA PlainlyJoined ==
    ASSUME NEW a, Plainly(a), NEW b, Plainly(b) PROVE Plainly(Joined(a, b))
<1> DEFINE c == Joined(a, b)
<1>1. IsJoin(c, a, b)
    BY JoinedIsList, Zenon DEF Plainly
<1> HIDE DEF c
<1>2. \A k \in 1 .. Len(c) : k \in 1 .. Len(a) \/ (k - Len(a) \in 1 .. Len(b) /\ k = Len(a) + (k - Len(a)))
    BY <1>1 DEF IsJoin
<1>3. Plainly(c)
    BY <1>1, <1>2 DEF IsJoin, Plainly
<1> QED BY <1>3 DEF c

LEMMA PlainlyFlat ==
    ASSUME NEW lists, IsList(lists), \A i \in 1 .. Len(lists) : Plainly(lists[i])
    PROVE  Plainly(FlattenSeq(lists))
<1> DEFINE S == {x \in UNION {Range(lists[i]) : i \in 1 .. Len(lists)} : x.tag # "STREAM-INF"}
<1>1. \A i \in 1 .. Len(lists) : lists[i] \in Seq(S)
  <2> SUFFICES ASSUME NEW i \in 1 .. Len(lists) PROVE lists[i] \in Seq(S)
      OBVIOUS
  <2>1. lists[i] \in Seq(Range(lists[i])) /\ Len(lists[i]) \in Nat
      BY DEF Plainly, IsList
  <2>2. \A k \in 1 .. Len(lists[i]) : lists[i][k] \in S
      BY <2>1 DEF Plainly
  <2> HIDE DEF S
  <2> QED BY <2>1, <2>2
<1>2. \A x \in S : x.tag # "STREAM-INF"
    OBVIOUS
<1> HIDE DEF S
<1>3. lists \in Seq(Seq(S))
    BY <1>1 DEF IsList
<1> DEFINE f == FlattenSeq(lists)
<1>4. f \in Seq(S)
    BY <1>3, FlattenType
<1> HIDE DEF f
<1>5. IsList(f) /\ \A k \in 1 .. Len(f) : f[k] \in S
    BY <1>4, SeqIsList
<1> QED BY <1>2, <1>5 DEF Plainly, f

LEMMA SegmentPlain ==
    ASSUME NEW m, NEW i, IsList(BreakLines(m, i)), IsList(PartLines(m, i))
    PROVE  Plainly(BreakLines(m, i)) /\ Plainly(PartLines(m, i)) /\ Plainly(OwnLines(m, i))
<1>1. Plainly(BreakLines(m, i))
  <2> DEFINE lines == BreakLines(m, i)
  <2>1. DOMAIN lines = 1 .. Len(OwnBreaks(m, i)) /\ \A k \in DOMAIN lines : lines[k].tag = "DATERANGE"
      BY DEF BreakLines, RangeLine
  <2>2. DOMAIN lines = 1 .. Len(lines)
      BY DEF IsList
  <2> HIDE DEF lines
  <2> QED BY <2>1, <2>2 DEF Plainly, lines
<1>2. Plainly(PartLines(m, i))
  <2> DEFINE lines == PartLines(m, i)
  <2>1. DOMAIN lines = 1 .. Len(OwnParts(m, i)) /\ \A k \in DOMAIN lines : lines[k].tag = "PART"
      BY DEF PartLines, PartLine
  <2>2. DOMAIN lines = 1 .. Len(lines)
      BY DEF IsList
  <2> HIDE DEF lines
  <2> QED BY <2>1, <2>2 DEF Plainly, lines
<1>3. Plainly(OwnLines(m, i))
  <2> DEFINE d == InfLine(m.listed[i].duration)
             e == UriLine(OutputUris.segment[m.listed[i].number], FALSE)
  <2>1. d.tag = "EXTINF" /\ e.tag = "URI"
      BY DEF InfLine, UriLine
  <2> HIDE DEF d, e
  <2>2. \A k \in 1 .. Len(<<d, e>>) : <<d, e>>[k].tag # "STREAM-INF"
    <3>1. \A k \in 1 .. Len(<<d, e>>) : k = 1 \/ k = 2
        OBVIOUS
    <3>2. <<d, e>>[1] = d /\ <<d, e>>[2] = e
        OBVIOUS
    <3> QED BY <2>1, <3>1, <3>2
  <2>3. IsList(<<d, e>>)
      BY ShortLists, Zenon
  <2> QED BY <2>2, <2>3 DEF OwnLines, d, e, Plainly
<1> QED BY <1>1, <1>2, <1>3

\* The lines of a segment add the segment, its ad break and its parts.
LEMMA SegmentRead ==
    ASSUME NEW m, Whole(m), NEW i \in 1 .. Len(m.listed), NEW p, After(m, i - 1, p)
    PROVE  /\ Plainly(SegmentLines(m, m.listed[i], OutputUris))
           /\ After(m, i, HlsRun(p, SegmentLines(m, m.listed[i], OutputUris)))
<1> DEFINE marks == Joined(BreakLines(m, i), PartLines(m, i))
           lines == Joined(marks, OwnLines(m, i))
           q == HlsRun(p, BreakLines(m, i))
           r == HlsRun(q, PartLines(m, i))
           o == HlsRun(r, OwnLines(m, i))
<1>1. SegmentLines(m, m.listed[i], OutputUris) = lines
    BY DEF SegmentLines, BreakLines, OwnBreaks, PartLines, OwnParts, OwnLines, Joined
<1>2. /\ IsList(BreakLines(m, i))
      /\ HlsKeeps(p, q) /\ q.parts = p.parts /\ q.partIndex = p.partIndex
      /\ IsListing(q.adBreaks, BreaksUpTo(m, i))
    BY BreaksRead DEF After
<1> HIDE DEF q
<1>3. /\ IsList(PartLines(m, i))
      /\ HlsKeeps(q, r) /\ r.adBreaks = q.adBreaks /\ IsListing(r.parts, PartsUpTo(m, i))
  <2>1. /\ IsHls(q) /\ ~ q.failed /\ q.number = i - 1 /\ q.partIndex = 0
        /\ IsListing(q.parts, PartsUpTo(m, i - 1))
      BY <1>2 DEF After, HlsKeeps
  <2> QED BY <2>1, PartsRead
<1> HIDE DEF r
<1>4. HlsKeeps(p, r)
    BY <1>2, <1>3, HlsKeepsAll
<1>5. /\ IsList(OwnLines(m, i))
      /\ IsHls(o) /\ o.failed = FALSE /\ o.ts = FALSE /\ o.live = r.live
      /\ o.init = r.init /\ o.pending = Missing
      /\ o.number = i /\ o.partIndex = 0
      /\ o.elapsed = TotalDuration(SubSeq(m.listed, 1, i))
      /\ o.urls = UrlsUpTo(m, i) /\ o.durations = DurationsUpTo(m, i)
      /\ o.adBreaks = r.adBreaks /\ o.parts = r.parts
  <2>1. /\ IsHls(r) /\ r.failed = FALSE /\ r.ts = FALSE /\ r.number = i - 1
        /\ r.elapsed = TotalDuration(SubSeq(m.listed, 1, i - 1))
        /\ r.urls = UrlsUpTo(m, i - 1) /\ r.durations = DurationsUpTo(m, i - 1)
      BY <1>4 DEF After, HlsKeeps
  <2>2. IsList(OwnLines(m, i)) /\ OwnAdded(m, i, r, HlsRun(r, OwnLines(m, i)))
      BY <2>1, OwnLinesRead
  <2> QED BY <2>2 DEF OwnAdded
<1> HIDE DEF o
<1>6. IsList(marks) /\ Plainly(lines)
  <2>1. Plainly(BreakLines(m, i)) /\ Plainly(PartLines(m, i)) /\ Plainly(OwnLines(m, i))
      BY <1>2, <1>3, SegmentPlain
  <2>2. Plainly(marks)
      BY <2>1, PlainlyJoined
  <2> HIDE DEF marks
  <2>3. Plainly(lines)
      BY <2>1, <2>2, PlainlyJoined
  <2> QED BY <2>2, <2>3 DEF Plainly
<1>7. HlsRun(p, lines) = o
  <2>1. HlsRun(p, marks) = r
      BY <1>2, <1>3, RunOfJoined DEF HlsRun, q, r
  <2> HIDE DEF marks
  <2>2. HlsRun(p, lines) = HlsRun(HlsRun(p, marks), OwnLines(m, i))
      BY <1>5, <1>6, RunOfJoined DEF HlsRun
  <2> QED BY <2>1, <2>2 DEF o
<1>8. After(m, i, o)
  <2>1. o.live = TRUE /\ o.init = SomeUrl(Join(OutputUrl, OutputUris.init).url)
      BY <1>4, <1>5 DEF After, HlsKeeps
  <2>2. IsListing(o.adBreaks, BreaksUpTo(m, i)) /\ IsListing(o.parts, PartsUpTo(m, i))
      BY <1>2, <1>3, <1>5
  <2> QED BY <1>5, <2>1, <2>2 DEF After
<1> HIDE DEF lines
<1> QED BY <1>1, <1>6, <1>7, <1>8

\* What parse_hls_manifest has read of the whole playlist.
ReadWhole(m, q) ==
    \E p : After(m, Len(m.listed), p) /\ q = IF m.complete THEN [p EXCEPT !.live = FALSE] ELSE p

\* The lines before those of the segments.
HlsOpening ==
    Joined(Joined(<< Line("MEDIA-SEQUENCE"), Line("PLAYLIST-TYPE") >>, EmitHlsDrmKeys(OutputDrm)),
           << MapLine(OutputUris.init) >>)

LEMMA HlsOpeningRead ==
    ASSUME NEW m, Whole(m)
    PROVE  Plainly(HlsOpening) /\ After(m, 0, HlsRun(HlsStart, HlsOpening))
<1> DEFINE s == Line("MEDIA-SEQUENCE")
           t == Line("PLAYLIST-TYPE")
           top == <<s, t>>
           keys == EmitHlsDrmKeys(OutputDrm)
           line == MapLine(OutputUris.init)
           map == <<line>>
           u == SomeUrl(Join(OutputUrl, OutputUris.init).url)
           q == HlsRun(HlsStart, keys)
           r == [q EXCEPT !.init = u]
<1>1. IsHls(HlsStart) /\ HlsStart.failed = FALSE
    BY DEF IsHls, HlsStart
<1>2. s.tag = "MEDIA-SEQUENCE" /\ t.tag = "PLAYLIST-TYPE" /\ line.tag = "MAP"
    BY DEF Line, MapLine
<1>3. Plainly(top) /\ Plainly(map)
  <2> HIDE DEF s, t, line
  <2>1. IsList(top) /\ IsList(map)
      BY ShortLists, Zenon
  <2>2. \A k \in 1 .. Len(top) : k = 1 \/ k = 2
      OBVIOUS
  <2>3. top[1] = s /\ top[2] = t /\ map[1] = line
      OBVIOUS
  <2>4. \A k \in 1 .. Len(map) : k = 1
      OBVIOUS
  <2> HIDE DEF top, map
  <2> QED BY <1>2, <2>1, <2>2, <2>3, <2>4 DEF Plainly
<1>4. Plainly(keys)
  <2>1. DOMAIN keys = 1 .. OutputDrm.systems /\ \A k \in DOMAIN keys : keys[k].tag = "KEY"
      BY DEF EmitHlsDrmKeys, KeyLine
  <2>2. IsList(keys)
      BY <1>1, HlsKeysRead
  <2> HIDE DEF keys
  <2>3. DOMAIN keys = 1 .. Len(keys)
      BY <2>2 DEF IsList
  <2> QED BY <2>1, <2>2, <2>3 DEF Plainly
<1>5. HlsRun(HlsStart, top) = HlsStart
  <2>1. HlsRun(HlsStart, top) = ReadItem("hls", OutputUrl, ReadItem("hls", OutputUrl, HlsStart, s), t)
      BY RunOfTwo DEF HlsRun
  <2>2. ReadLine(HlsStart, OutputUrl, s) = HlsStart /\ ReadLine(HlsStart, OutputUrl, t) = HlsStart
      BY <1>1, HlsOtherLines
  <2> HIDE DEF s, t
  <2> QED BY <2>1, <2>2 DEF ReadItem
<1>6. HlsKeeps(HlsStart, q) /\ q.adBreaks = <<>> /\ q.parts = <<>> /\ q.partIndex = 0
  <2>1. HlsStart.adBreaks = <<>> /\ HlsStart.parts = <<>> /\ HlsStart.partIndex = 0
      BY DEF HlsStart
  <2>2. /\ HlsKeeps(HlsStart, q) /\ q.adBreaks = HlsStart.adBreaks /\ q.parts = HlsStart.parts
        /\ q.partIndex = HlsStart.partIndex
      BY <1>1, HlsKeysRead
  <2> HIDE DEF q
  <2> QED BY <2>1, <2>2
<1>7. ReadLine(q, OutputUrl, line) = r
  <2>1. IsHls(q) /\ ~ q.failed
      BY <1>1, <1>6 DEF HlsKeeps
  <2> HIDE DEF q
  <2> QED BY <2>1, HlsOtherLines
<1> HIDE DEF s, t, top, line, keys
<1>8. HlsRun(HlsStart, HlsOpening) = r
  <2> DEFINE head == Joined(top, keys)
  <2>1. HlsRun(HlsStart, head) = q
      BY <1>3, <1>4, <1>5, RunOfJoined DEF HlsRun, Plainly
  <2>2. Plainly(head)
      BY <1>3, <1>4, PlainlyJoined
  <2> HIDE DEF head, q
  <2>3. HlsRun(q, map) = ReadItem("hls", OutputUrl, q, line)
      BY RunOfOne DEF HlsRun
  <2> HIDE DEF map
  <2>4. HlsRun(HlsStart, Joined(head, map)) = HlsRun(HlsRun(HlsStart, head), map)
      BY <1>3, <2>2, RunOfJoined DEF HlsRun, Plainly
  <2>5. HlsOpening = Joined(head, map)
      BY DEF HlsOpening, head, map, top, keys, line, s, t
  <2> QED BY <1>7, <2>1, <2>3, <2>4, <2>5 DEF ReadItem
<1>9. Plainly(HlsOpening)
  <2> HIDE DEF map
  <2>1. Plainly(Joined(top, keys))
      BY <1>3, <1>4, PlainlyJoined
  <2>2. Plainly(Joined(Joined(top, keys), map))
      BY <1>3, <2>1, PlainlyJoined
  <2> QED BY <2>2 DEF HlsOpening, map, top, keys, line, s, t
<1>10. After(m, 0, r)
  <2>1. /\ IsHls(q) /\ q.failed = FALSE /\ q.live = TRUE /\ q.ts = FALSE /\ q.pending = Missing
        /\ q.number = 0 /\ q.elapsed = 0 /\ q.urls = <<>> /\ q.durations = <<>>
      BY <1>6 DEF HlsKeeps, HlsStart
  <2> HIDE DEF q, u
  <2>2. /\ IsHls(r) /\ r.failed = FALSE /\ r.live = TRUE /\ r.ts = FALSE /\ r.pending = Missing
        /\ r.init = u /\ r.number = 0 /\ r.elapsed = 0 /\ r.urls = <<>> /\ r.durations = <<>>
        /\ r.adBreaks = <<>> /\ r.parts = <<>> /\ r.partIndex = 0
      BY <1>6, <2>1 DEF IsHls
  <2> HIDE DEF r
  <2>3. UrlsUpTo(m, 0) = <<>> /\ DurationsUpTo(m, 0) = <<>>
      BY DEF UrlsUpTo, DurationsUpTo
  <2>4. BreaksUpTo(m, 0) = {} /\ PartsUpTo(m, 0) = {}
      BY DEF BreaksUpTo, PartsUpTo
  <2>5. TotalDuration(SubSeq(m.listed, 1, 0)) = 0
      BY ListedSegments
  <2> QED BY <2>2, <2>3, <2>4, <2>5, ListingOfNone DEF After, u
<1> QED BY <1>8, <1>9, <1>10

\* The lines of all segments.
SegmentsLines(m) == [i \in 1 .. Len(m.listed) |-> SegmentLines(m, m.listed[i], OutputUris)]

LEMMA SegmentsRead ==
    ASSUME NEW m, Whole(m), NEW p, After(m, 0, p)
    PROVE  /\ Plainly(FlattenSeq(SegmentsLines(m)))
           /\ After(m, Len(m.listed), HlsRun(p, FlattenSeq(SegmentsLines(m))))
<1> DEFINE lists == SegmentsLines(m)
           n == Len(m.listed)
<1>1. n \in Nat
    BY ListedSegments
<1>2. IsList(lists) /\ Len(lists) = n /\ \A i \in 1 .. n : lists[i] = SegmentLines(m, m.listed[i], OutputUris)
  <2>1. lists = [i \in 1 .. n |-> lists[i]]
        /\ \A i \in 1 .. n : lists[i] = SegmentLines(m, m.listed[i], OutputUris)
      BY DEF SegmentsLines
  <2> HIDE DEF lists, n
  <2> QED BY <1>1, <2>1, FunctionIsList
<1> HIDE DEF lists
<1> DEFINE So(i) == \E q : After(m, i, q)
           T == {i \in 0 .. n : So(i)}
<1>3. 0 \in T
    BY <1>1
<1>4. ASSUME NEW i \in 0 .. n, i < n, i \in T PROVE i + 1 \in T
  <2>1. i + 1 \in 1 .. n /\ (i + 1) - 1 = i /\ i + 1 \in 0 .. n
      BY <1>1, <1>4
  <2>2. PICK q : After(m, i, q)
      BY <1>4
  <2>3. After(m, i + 1, HlsRun(q, SegmentLines(m, m.listed[i + 1], OutputUris)))
      BY <2>1, <2>2, SegmentRead
  <2> QED BY <2>1, <2>3
<1>5. \A i \in 0 .. n : i \in T
  <2> HIDE DEF T, n
  <2> QED BY <1>1, <1>3, <1>4, CountUp, Zenon
<1>6. \A i \in 1 .. n : Plainly(lists[i])
  <2> SUFFICES ASSUME NEW i \in 1 .. n PROVE Plainly(lists[i])
      OBVIOUS
  <2>1. i - 1 \in 0 .. n
      BY <1>1
  <2>2. PICK q : After(m, i - 1, q)
      BY <1>5, <2>1
  <2> QED BY <1>2, <2>2, SegmentRead
<1>7. Plainly(FlattenSeq(lists))
    BY <1>2, <1>6, PlainlyFlat
<1>8. /\ HlsRun(p, FirstLists(lists, 0)) = p
      /\ \A i \in 0 .. n : i < n =>
             HlsRun(p, FirstLists(lists, i + 1)) = HlsRun(HlsRun(p, FirstLists(lists, i)), lists[i + 1])
      /\ FirstLists(lists, n) = FlattenSeq(lists)
  <2>1. \A i \in 1 .. Len(lists) : IsList(lists[i])
      BY <1>2, <1>6 DEF Plainly
  <2>2. InTurn(lists, "hls", OutputUrl, p)
      BY <1>2, <2>1, RunOfLists, Zenon
  <2> QED BY <1>2, <2>2 DEF HlsRun, InTurn
<1> DEFINE R == {i \in 0 .. n : After(m, i, HlsRun(p, FirstLists(lists, i)))}
<1>9. 0 \in R
    BY <1>1, <1>8
<1>10. ASSUME NEW i \in 0 .. n, i < n, i \in R PROVE i + 1 \in R
  <2>1. i + 1 \in 1 .. n /\ (i + 1) - 1 = i /\ i + 1 \in 0 .. n
      BY <1>1, <1>10
  <2> DEFINE q == HlsRun(p, FirstLists(lists, i))
  <2>2. After(m, i, q)
      BY <1>10
  <2>3. HlsRun(p, FirstLists(lists, i + 1)) = HlsRun(q, lists[i + 1])
      BY <1>8, <1>10
  <2> HIDE DEF q
  <2>4. After(m, i + 1, HlsRun(q, SegmentLines(m, m.listed[i + 1], OutputUris)))
      BY <2>1, <2>2, SegmentRead
  <2> QED BY <1>2, <2>1, <2>3, <2>4
<1>11. n \in R
  <2> HIDE DEF R, n
  <2>1. \A i \in 0 .. n : i \in R
      BY <1>1, <1>9, <1>10, CountUp, Zenon
  <2> QED BY <1>1, <2>1
<1> QED BY <1>7, <1>8, <1>11 DEF lists

\* A playlist is read as the segments, breaks and parts it was rendered from.
LEMMA HlsRead ==
    ASSUME NEW m, Whole(m)
    PROVE  Plainly(HlsDocument(m)) /\ ReadWhole(m, HlsRun(HlsStart, HlsDocument(m)))
<1> DEFINE body == FlattenSeq(SegmentsLines(m))
           end  == IF m.complete THEN << Line("ENDLIST") >> ELSE <<>>
           most == Joined(HlsOpening, body)
           p    == HlsRun(HlsStart, HlsOpening)
           q    == HlsRun(p, body)
           r    == IF m.complete THEN [q EXCEPT !.live = FALSE] ELSE q
<1>1. HlsDocument(m) = Joined(most, end)
    BY DEF HlsDocument, RenderHls, HlsOpening, SegmentsLines, Joined
<1>2. Plainly(HlsOpening) /\ After(m, 0, p)
    BY HlsOpeningRead
<1> HIDE DEF p
<1>3. Plainly(body) /\ After(m, Len(m.listed), q)
    BY <1>2, SegmentsRead
<1> HIDE DEF body
<1>4. Plainly(most) /\ HlsRun(HlsStart, most) = q
  <2>1. HlsRun(HlsStart, most) = HlsRun(HlsRun(HlsStart, HlsOpening), body)
      BY <1>2, <1>3, RunOfJoined DEF HlsRun, Plainly
  <2> QED BY <1>2, <1>3, <2>1, PlainlyJoined DEF p
<1> HIDE DEF q, most
<1>5. IsHls(q) /\ q.failed = FALSE /\ q.live = TRUE
    BY <1>3 DEF After
<1>6. Plainly(end) /\ HlsRun(q, end) = r
  <2>1. CASE m.complete
    <3> DEFINE line == Line("ENDLIST")
    <3>1. line.tag = "ENDLIST"
        BY DEF Line
    <3>2. ReadLine(q, OutputUrl, line) = [q EXCEPT !.live = FALSE]
        BY <1>5, HlsOtherLines
    <3> HIDE DEF line
    <3>3. end = <<line>>
        BY <2>1 DEF line
    <3>4. HlsRun(q, <<line>>) = r
      <4>1. HlsRun(q, <<line>>) = ReadItem("hls", OutputUrl, q, line)
          BY RunOfOne DEF HlsRun
      <4>2. r = [q EXCEPT !.live = FALSE]
          BY <2>1
      <4> QED BY <3>2, <4>1, <4>2 DEF ReadItem
    <3>5. IsList(<<line>>)
        BY ShortLists, Zenon
    <3>6. Plainly(<<line>>)
      <4>1. \A k \in 1 .. Len(<<line>>) : k = 1
          OBVIOUS
      <4> QED BY <3>1, <3>5, <4>1 DEF Plainly
    <3> QED BY <3>3, <3>4, <3>6
  <2>2. CASE ~ m.complete
    <3>1. end = <<>>
        BY <2>2
    <3>2. r = q
        BY <2>2
    <3>3. HlsRun(q, <<>>) = q
        BY RunOfEmpty DEF HlsRun
    <3>4. Plainly(<<>>)
        BY EmptyIsList DEF Plainly
    <3> QED BY <3>1, <3>2, <3>3, <3>4
  <2> QED BY <2>1, <2>2
<1> HIDE DEF end
<1>7. HlsRun(HlsStart, Joined(most, end)) = r
    BY <1>4, <1>6, RunOfJoined DEF HlsRun, Plainly
<1>8. Plainly(Joined(most, end))
    BY <1>4, <1>6, PlainlyJoined
<1> QED BY <1>1, <1>3, <1>7, <1>8 DEF ReadWhole

\* A line is none of a master playlist if it is one of these.
LEMMA NotMaster == ASSUME NEW lines, Plainly(lines) PROVE ~ IsMaster(lines)
BY DEF Plainly, IsMaster

\* What is read of an ad break of a playlist.
BreakShown(x) == [segment |-> x.segment, id |-> x.id, time |-> Time(x.elapsed, TicksPerMs)]

\* What parse_hls_manifest returns at the end of its lines.
HlsResult(lines, p, per) ==
    IF IsMaster(lines) \/ p.failed \/ (~ p.ts /\ ~ p.init.present) THEN ErrSource
    ELSE [ok |-> TRUE, init |-> p.init, urls |-> p.urls, live |-> p.live,
          durations |-> [i \in 1 .. Len(p.durations) |-> Time(p.durations[i], per)],
          adBreaks |-> [b \in 1 .. Len(p.adBreaks) |->
                          [segment |-> p.adBreaks[b].segment, id |-> p.adBreaks[b].id,
                           time |-> Time(p.adBreaks[b].elapsed, per)]],
          parts |-> p.parts, scheme |-> p.scheme, ts |-> p.ts,
          aesKey |-> p.aesKey, ranges |-> <<>>, variants |-> <<>>]

LEMMA HlsParsing ==
    ASSUME NEW lines, NEW base, NEW per
    PROVE  ParseHlsManifest(lines, base, per) = HlsResult(lines, HlsEnd(base, HlsStart, lines), per)
BY DEF ParseHlsManifest, HlsResult, HlsEnd

\* A source with what a playlist says of its segments, ad breaks and parts.
HlsWindow(m, source) ==
    /\ source.ok = TRUE /\ source.live = ~ m.complete
    /\ source.urls = UrlsUpTo(m, Len(m.listed))
    /\ source.durations = [i \in 1 .. Len(m.listed) |-> Time(m.listed[i].duration, TicksPerMs)]
    /\ \E breaks : /\ IsListing(breaks, BreaksUpTo(m, Len(m.listed)))
                   /\ source.adBreaks = [b \in 1 .. Len(breaks) |-> BreakShown(breaks[b])]
    /\ IsListing(source.parts, PartsUpTo(m, Len(m.listed)))

\* parse_hls_manifest on a playlist of the output.
LEMMA HlsParsed ==
    ASSUME NEW m, Whole(m),
           NEW source, source = ParseHlsManifest(HlsDocument(m), OutputUrl, TicksPerMs)
    PROVE  HlsWindow(m, source)
<1> DEFINE lines == HlsDocument(m)
           n == Len(m.listed)
           q == HlsRun(HlsStart, lines)
<1>0. n \in Nat /\ m.complete \in BOOLEAN
    BY ListedSegments DEF Whole
<1>1. Plainly(lines) /\ ReadWhole(m, q)
    BY HlsRead
<1> HIDE DEF lines
<1>2. HlsEnd(OutputUrl, HlsStart, lines) = q
  <2>1. Len(lines) \in Nat
      BY <1>1 DEF Plainly, IsList
  <2> QED BY <2>1, HlsReading DEF HlsRun
<1> HIDE DEF q, n
<1>3. /\ q.failed = FALSE /\ q.live = ~ m.complete
      /\ q.init = SomeUrl(Join(OutputUrl, OutputUris.init).url)
      /\ q.urls = UrlsUpTo(m, n) /\ q.durations = DurationsUpTo(m, n)
      /\ IsListing(q.adBreaks, BreaksUpTo(m, n)) /\ IsListing(q.parts, PartsUpTo(m, n))
  <2>1. PICK p : After(m, n, p) /\ q = IF m.complete THEN [p EXCEPT !.live = FALSE] ELSE p
      BY <1>1 DEF ReadWhole, n
  <2>2. CASE m.complete
      BY <2>1, <2>2 DEF After, IsHls
  <2>3. CASE ~ m.complete
      BY <1>0, <2>1, <2>3 DEF After
  <2> QED BY <2>2, <2>3
<1>4. q.init.present
    BY <1>3 DEF SomeUrl
<1>5. ~ IsMaster(lines)
    BY <1>1, NotMaster
<1>6. source = HlsResult(lines, q, TicksPerMs)
    BY <1>2, HlsParsing DEF lines
<1>7. /\ source.ok = TRUE /\ source.live = q.live /\ source.urls = q.urls /\ source.parts = q.parts
      /\ source.durations = [i \in 1 .. Len(q.durations) |-> Time(q.durations[i], TicksPerMs)]
      /\ source.adBreaks = [b \in 1 .. Len(q.adBreaks) |-> BreakShown(q.adBreaks[b])]
    BY <1>3, <1>4, <1>5, <1>6 DEF HlsResult, BreakShown
<1>8. source.durations = [i \in 1 .. n |-> Time(m.listed[i].duration, TicksPerMs)]
  <2>1. Len(q.durations) = n
    <3>1. q.durations = [i \in 1 .. n |-> q.durations[i]]
        BY <1>3 DEF DurationsUpTo
    <3> QED BY <1>0, <3>1, FunctionIsList
  <2>2. \A i \in 1 .. n : q.durations[i] = m.listed[i].duration
      BY <1>3 DEF DurationsUpTo
  <2> QED BY <1>7, <2>1, <2>2
<1> QED BY <1>3, <1>7, <1>8 DEF n, HlsWindow

-----------------------------------------------------------------------------
(* A playlist gives back the window *)

\* The position of a segment in a manifest.
LEMMA PositionOf ==
    ASSUME NEW m, Whole(m), NEW i \in 1 .. Len(m.listed)
    PROVE  (CHOOSE j \in 1 .. Len(m.listed) : m.listed[j].number = m.listed[i].number) = i
<1>1. \A j \in 1 .. Len(m.listed) : m.listed[i].number = m.listed[j].number => i = j
    BY ListedSegments
<1> QED BY <1>1

\* The ad breaks of a manifest, as a reader has to place them.
LEMMA BreaksPlaced ==
    ASSUME NEW m, Whole(m)
    PROVE  LET n == Len(m.listed)
               position(k) == CHOOSE i \in 1 .. n : m.listed[i].number = k
               starts(i)   == Time(TotalDuration(SubSeq(m.listed, 1, i - 1)), TicksPerMs)
           IN  {BreakShown(x) : x \in BreaksUpTo(m, n)}
                   = {[segment |-> position(b.segment) - 1, id |-> b.segment,
                       time |-> starts(position(b.segment))]
                          : b \in {x \in m.adBreaks : x.segment \in Numbers(m.listed)}}
<1> DEFINE n == Len(m.listed)
           position(k) == CHOOSE i \in 1 .. n : m.listed[i].number = k
           starts(i)   == Time(TotalDuration(SubSeq(m.listed, 1, i - 1)), TicksPerMs)
           Placed(k) == [segment |-> position(k) - 1, id |-> k, time |-> starts(position(k))]
           shown == {x \in m.adBreaks : x.segment \in Numbers(m.listed)}
           left  == {BreakShown(x) : x \in BreaksUpTo(m, n)}
           right == {Placed(b.segment) : b \in shown}
<1>1. \A i \in 1 .. n : position(m.listed[i].number) = i
    BY PositionOf
<1>2. \A i \in 1 .. n : BreakShown(BreakAt(m, i)) = Placed(m.listed[i].number)
  <2> SUFFICES ASSUME NEW i \in 1 .. n PROVE BreakShown(BreakAt(m, i)) = Placed(m.listed[i].number)
      OBVIOUS
  <2> DEFINE k == m.listed[i].number
             x == BreakAt(m, i)
  <2>1. position(k) = i
      BY <1>1
  <2>2. x.segment = i - 1 /\ x.id = k /\ x.elapsed = TotalDuration(SubSeq(m.listed, 1, i - 1))
      BY DEF BreakAt
  <2> HIDE DEF position, k, x
  <2>3. BreakShown(x) = Placed(k)
      BY <2>1, <2>2 DEF BreakShown
  <2> QED BY <2>3 DEF k, x
<1>3. \A b \in shown : \E i \in 1 .. n : m.listed[i].number = b.segment
    BY DEF Numbers
<1>4. \A i \in 1 .. n : HasBreak(m, i) => \E b \in shown : b.segment = m.listed[i].number
    BY DEF HasBreak, Numbers
<1>5. \A x \in BreaksUpTo(m, n) : \E i \in 1 .. n : HasBreak(m, i) /\ x = BreakAt(m, i)
    BY DEF BreaksUpTo
<1>6. \A i \in 1 .. n : HasBreak(m, i) => BreakAt(m, i) \in BreaksUpTo(m, n)
    BY DEF BreaksUpTo
<1> HIDE DEF n, Placed
<1>7. left \subseteq right
  <2> SUFFICES ASSUME NEW x \in BreaksUpTo(m, n) PROVE BreakShown(x) \in right
      OBVIOUS
  <2>1. PICK i \in 1 .. n : HasBreak(m, i) /\ x = BreakAt(m, i)
      BY <1>5
  <2>2. PICK b \in shown : b.segment = m.listed[i].number
      BY <1>4, <2>1
  <2>3. Placed(b.segment) \in right
      OBVIOUS
  <2> HIDE DEF right
  <2> QED BY <1>2, <2>1, <2>2, <2>3
<1>8. right \subseteq left
  <2> SUFFICES ASSUME NEW b \in shown PROVE Placed(b.segment) \in left
      OBVIOUS
  <2>1. PICK i \in 1 .. n : m.listed[i].number = b.segment
      BY <1>3
  <2>2. HasBreak(m, i)
      BY <2>1 DEF HasBreak
  <2>3. BreakShown(BreakAt(m, i)) \in left
      BY <1>6, <2>2
  <2> HIDE DEF left
  <2> QED BY <1>2, <2>1, <2>3
<1>9. left = right
    BY <1>7, <1>8
<1> QED BY <1>9 DEF Placed, n

\* The same of its parts.
LEMMA PartsPlaced ==
    ASSUME NEW m, Whole(m)
    PROVE  LET n == Len(m.listed)
               position(k) == CHOOSE i \in 1 .. n : m.listed[i].number = k
           IN  PartsUpTo(m, n)
                   = {[segment |-> position(p.segment) - 1, index |-> p.index - 1,
                       url |-> Join(OutputUrl, OutputUris.part[p.index]).url]
                          : p \in {x \in m.parts : x.segment \in Numbers(m.listed)}}
<1> DEFINE n == Len(m.listed)
           position(k) == CHOOSE i \in 1 .. n : m.listed[i].number = k
           Placed(p) == PartAt(position(p.segment), p.index)
           shown == {x \in m.parts : x.segment \in Numbers(m.listed)}
           left  == PartsUpTo(m, n)
           right == {Placed(p) : p \in shown}
<1>1. \A i \in 1 .. n : position(m.listed[i].number) = i
    BY PositionOf
<1>2. \A b \in shown : \E i \in 1 .. n : m.listed[i].number = b.segment
    BY DEF Numbers
<1>3. \A b \in shown : b.index \in 1 .. PartCount /\ b \in m.parts
    BY DEF Whole
<1>4. ASSUME NEW i \in 1 .. n, HasParts(m, i), NEW p \in 1 .. PartCount
      PROVE  \E b \in shown : b.segment = m.listed[i].number /\ b.index = p
  <2> DEFINE y == PartOf(m.listed[i].number, p)
  <2>1. y \in m.parts
      BY <1>4 DEF HasParts, Whole, WholeParts
  <2>2. y.segment = m.listed[i].number /\ y.index = p
      BY DEF PartOf
  <2> HIDE DEF y
  <2>3. y \in shown
      BY <2>1, <2>2 DEF Numbers
  <2> QED BY <2>2, <2>3
<1>5. \A x \in left : \E i \in 1 .. n, p \in 1 .. PartCount : HasParts(m, i) /\ x = PartAt(i, p)
    BY DEF PartsUpTo
<1>6. \A i \in 1 .. n, p \in 1 .. PartCount : HasParts(m, i) => PartAt(i, p) \in left
    BY DEF PartsUpTo
<1> HIDE DEF n, position, left
<1>7. left \subseteq right
  <2> SUFFICES ASSUME NEW x \in left PROVE x \in right
      OBVIOUS
  <2>1. PICK i \in 1 .. n, p \in 1 .. PartCount : HasParts(m, i) /\ x = PartAt(i, p)
      BY <1>5
  <2>2. PICK b \in shown : b.segment = m.listed[i].number /\ b.index = p
      BY <1>4, <2>1
  <2>3. Placed(b) = x
      BY <1>1, <2>1, <2>2
  <2> HIDE DEF Placed
  <2> QED BY <2>3
<1>8. right \subseteq left
  <2> SUFFICES ASSUME NEW b \in shown PROVE Placed(b) \in left
      OBVIOUS
  <2>1. PICK i \in 1 .. n : m.listed[i].number = b.segment
      BY <1>2
  <2>2. HasParts(m, i)
      BY <1>3, <2>1 DEF HasParts
  <2>3. position(b.segment) = i
      BY <1>1, <2>1
  <2> QED BY <1>3, <1>6, <2>2, <2>3
<1>9. left = right
    BY <1>7, <1>8
<1> QED BY <1>9 DEF n, position, left, PartAt

-----------------------------------------------------------------------------
(* A DASH manifest is read as it was rendered: elements that change nothing *)

DashRun(p, events) == Run("dash", "none", p, events)

\* The state of parse_dash_manifest, and what an element may leave as it is.
IsDash(p) ==
    DOMAIN p = {"live", "total", "scheme", "init", "media", "scale", "startNumber", "timeline",
                "uniform", "base", "variants", "locked", "capturing", "adBreaks", "inEvents",
                "eventScale", "inSet", "isVideo", "inRep", "awaitingUrl", "rep",
                "inSegmentBase", "indexed", "indexedVideo"}

DashKeeps(p, q) ==
    /\ IsDash(q)
    /\ q.live = p.live /\ q.init = p.init /\ q.media = p.media /\ q.scale = p.scale
    /\ q.startNumber = p.startNumber /\ q.timeline = p.timeline /\ q.uniform = p.uniform
    /\ q.base = p.base /\ q.adBreaks = p.adBreaks /\ q.locked = p.locked

LEMMA DashKeepsAll ==
    /\ \A p : IsDash(p) => DashKeeps(p, p)
    /\ \A p, q, r : DashKeeps(p, q) /\ DashKeeps(q, r) => DashKeeps(p, r)
BY DEF DashKeeps

\* Starts and ends of elements with some names.
Only(events, names) ==
    /\ IsList(events)
    /\ \A k \in 1 .. Len(events) :
          events[k].event \in {"start", "end"} /\ events[k].name \in names

LEMMA OnlyNothing == ASSUME NEW names PROVE Only(<<>>, names)
BY EmptyIsList DEF Only

LEMMA OnlyJoined ==
    ASSUME NEW names, NEW a, Only(a, names), NEW b, Only(b, names)
    PROVE  Only(Joined(a, b), names)
<1> DEFINE c == Joined(a, b)
<1>1. IsJoin(c, a, b)
    BY JoinedIsList, Zenon DEF Only
<1> HIDE DEF c
<1>2. \A k \in 1 .. Len(c) : k \in 1 .. Len(a) \/ (k - Len(a) \in 1 .. Len(b) /\ k = Len(a) + (k - Len(a)))
    BY <1>1 DEF IsJoin
<1>3. Only(c, names)
    BY <1>1, <1>2 DEF IsJoin, Only
<1> QED BY <1>3 DEF c

LEMMA OnlyFlat ==
    ASSUME NEW names, NEW lists, IsList(lists), \A i \in 1 .. Len(lists) : Only(lists[i], names)
    PROVE  Only(FlattenSeq(lists), names)
<1> DEFINE S == {x \in UNION {Range(lists[i]) : i \in 1 .. Len(lists)} :
                    x.event \in {"start", "end"} /\ x.name \in names}
<1>1. \A i \in 1 .. Len(lists) : lists[i] \in Seq(S)
  <2> SUFFICES ASSUME NEW i \in 1 .. Len(lists) PROVE lists[i] \in Seq(S)
      OBVIOUS
  <2>1. lists[i] \in Seq(Range(lists[i])) /\ Len(lists[i]) \in Nat
      BY DEF Only, IsList
  <2>2. \A k \in 1 .. Len(lists[i]) : lists[i][k] \in S
      BY <2>1 DEF Only
  <2> HIDE DEF S
  <2> QED BY <2>1, <2>2
<1>2. \A x \in S : x.event \in {"start", "end"} /\ x.name \in names
    OBVIOUS
<1> HIDE DEF S
<1>3. lists \in Seq(Seq(S))
    BY <1>1 DEF IsList
<1> DEFINE f == FlattenSeq(lists)
<1>4. f \in Seq(S)
    BY <1>3, FlattenType
<1> HIDE DEF f
<1>5. IsList(f) /\ \A k \in 1 .. Len(f) : f[k] \in S
    BY <1>4, SeqIsList
<1> QED BY <1>2, <1>5 DEF Only, f

LEMMA OnlyOne ==
    ASSUME NEW names, NEW e, e.event \in {"start", "end"}, e.name \in names
    PROVE  Only(<<e>>, names)
<1>1. IsList(<<e>>)
    BY ShortLists, Zenon
<1>2. \A k \in 1 .. Len(<<e>>) : k = 1
    OBVIOUS
<1> QED BY <1>1, <1>2 DEF Only

LEMMA OnlyElement ==
    ASSUME NEW names, NEW name \in names, NEW attributes, NEW content, Only(content, names)
    PROVE  Only(Element(name, attributes, content), names)
<1> DEFINE d == Start(name, attributes)
           e == End(name)
<1>1. d.event = "start" /\ d.name = name /\ e.event = "end" /\ e.name = name
    BY DEF Start, End
<1>2. Element(name, attributes, content) = Joined(Joined(<<d>>, content), <<e>>)
    BY DEF Element, Joined
<1> HIDE DEF d, e
<1>3. Only(<<d>>, names) /\ Only(<<e>>, names)
    BY <1>1, OnlyOne
<1>4. Only(Joined(<<d>>, content), names)
    BY <1>3, OnlyJoined
<1> QED BY <1>2, <1>3, <1>4, OnlyJoined

\* What a set is put together of, and what of it says nothing of the segments.
SetNames   == {"AdaptationSet", "ContentProtection", "SegmentTemplate", "SegmentTimeline", "S",
               "Representation"}
QuietNames == {"ContentProtection", "Representation"}

\* Protection and Representations change neither the template nor the segments.
LEMMA QuietStep ==
    ASSUME NEW p, IsDash(p), NEW e, e.event \in {"start", "end"}, e.name \in QuietNames,
           NEW q, q = ReadEvent(p, e)
    PROVE  DashKeeps(p, q) /\ q.capturing = p.capturing /\ (p.isVideo => q.isVideo)
<1>1. CASE e.event = "start" /\ e.name = "ContentProtection"
  <2>1. q = StartContentProtection(p, e)
      BY <1>1 DEF ReadEvent, StartElement
  <2>2. q = p \/ q = [p EXCEPT !.scheme = e.attributes.value]
      BY <2>1 DEF StartContentProtection
  <2> QED BY <2>2 DEF DashKeeps, IsDash
<1>2. CASE e.event = "start" /\ e.name = "Representation"
  <2> DEFINE video == p.isVideo \/ Attr(e, "mimeType", "none") \in VideoMimeTypes
             list == IF video /\ Attr(e, "bandwidth", 0) > 0
                     THEN Append(p.variants, e.attributes.bandwidth) ELSE p.variants
  <2>1. q = StartRepresentation(p, e)
      BY <1>2 DEF ReadEvent, StartElement
  <2>2. \/ q = p
        \/ q = [p EXCEPT !.inRep = TRUE, !.rep = NoRep, !.isVideo = video, !.variants = list]
      BY <2>1 DEF StartRepresentation
  <2>3. p.isVideo => video
      OBVIOUS
  <2> HIDE DEF video, list
  <2>4. CASE q = p
      BY <2>4 DEF DashKeeps
  <2>5. CASE q = [p EXCEPT !.inRep = TRUE, !.rep = NoRep, !.isVideo = video, !.variants = list]
      BY <2>3, <2>5 DEF DashKeeps, IsDash
  <2> QED BY <2>2, <2>4, <2>5
<1>3. CASE e.event = "end" /\ e.name = "Representation"
  <2> DEFINE complete == p.rep.url.present /\ p.rep.init.present /\ p.rep.index.present
             better   == ~ p.indexed.url.present \/ (p.isVideo /\ ~ p.indexedVideo)
             take     == p.inRep /\ complete /\ better
             a == IF take THEN p.rep ELSE p.indexed
             b == IF take THEN p.isVideo ELSE p.indexedVideo
  <2>1. q = EndRepresentation(p)
      BY <1>3 DEF ReadEvent, EndElement
  <2>2. q = [p EXCEPT !.indexed = a, !.indexedVideo = b, !.inRep = FALSE, !.rep = NoRep]
      BY <2>1 DEF EndRepresentation
  <2> HIDE DEF a, b
  <2> QED BY <2>2 DEF DashKeeps, IsDash
<1>4. CASE e.event = "end" /\ e.name = "ContentProtection"
  <2>1. q = p
      BY <1>4 DEF ReadEvent, EndElement
  <2> QED BY <2>1 DEF DashKeeps
<1> QED BY <1>1, <1>2, <1>3, <1>4 DEF QuietNames

LEMMA QuietRead ==
    ASSUME NEW p, IsDash(p), NEW events, Only(events, QuietNames)
    PROVE  LET q == DashRun(p, events)
           IN  DashKeeps(p, q) /\ q.capturing = p.capturing /\ (p.isVideo => q.isVideo)
<1> DEFINE n == Len(events)
           So(q) == DashKeeps(p, q) /\ q.capturing = p.capturing /\ (p.isVideo => q.isVideo)
<1>1. n \in Nat
    BY DEF Only, IsList
<1>2. PICK f : IsRun(f, "dash", "none", p, events)
    BY <1>1, RunExists
<1> DEFINE T == {k \in 0 .. n : So(f[k])}
<1>3. 0 \in T
  <2>1. So(p) /\ f[0] = p
      BY <1>2, DashKeepsAll DEF IsRun
  <2> HIDE DEF So
  <2> QED BY <1>1, <2>1
<1>4. ASSUME NEW k \in 0 .. n, k < n, k \in T PROVE k + 1 \in T
  <2>1. k + 1 \in 1 .. n /\ (k + 1) - 1 = k /\ k + 1 \in 0 .. n
      BY <1>1, <1>4
  <2> DEFINE q == f[k]
             e == events[k + 1]
             r == ReadEvent(q, e)
  <2>2. f[k + 1] = r
      BY <1>2, <2>1 DEF IsRun, ReadItem
  <2>3. So(q) /\ e.event \in {"start", "end"} /\ e.name \in QuietNames
      BY <1>4, <2>1 DEF Only
  <2> HIDE DEF q, e
  <2>4. IsDash(q) /\ r = ReadEvent(q, e)
      BY <2>3 DEF DashKeeps
  <2> HIDE DEF r
  <2>5. DashKeeps(q, r) /\ r.capturing = q.capturing /\ (q.isVideo => r.isVideo)
      BY <2>3, <2>4, QuietStep
  <2>6. So(r)
      BY <2>3, <2>5, DashKeepsAll
  <2> HIDE DEF So
  <2> QED BY <2>1, <2>2, <2>6
<1>5. n \in T
  <2> HIDE DEF T, n
  <2>1. \A k \in 0 .. n : k \in T
      BY <1>1, <1>3, <1>4, CountUp, Zenon
  <2> QED BY <1>1, <2>1
<1>6. DashRun(p, events) = f[n]
    BY <1>1, <1>2, RunIsLast DEF DashRun
<1> QED BY <1>5, <1>6

\* Once the template of the first video set is locked in, no set that follows
\* changes the segments: its template is not captured, nor its timeline.
Settled(p) == p.locked = TRUE /\ p.capturing = FALSE

LEMMA LockedStep ==
    ASSUME NEW p, IsDash(p), Settled(p),
           NEW e, e.event \in {"start", "end"}, e.name \in SetNames,
           NEW q, q = ReadEvent(p, e)
    PROVE  DashKeeps(p, q) /\ Settled(q)
<1>1. CASE e.name \in QuietNames
  <2>1. DashKeeps(p, q) /\ q.capturing = p.capturing
      BY <1>1, QuietStep
  <2> QED BY <2>1 DEF DashKeeps, Settled
<1>2. CASE e.event = "start" /\ e.name = "AdaptationSet"
  <2> DEFINE video == \/ Attr(e, "contentType", "none") = "video"
                      \/ Attr(e, "mimeType", "none") \in VideoMimeTypes
  <2>1. q = StartAdaptationSet(p, e)
      BY <1>2 DEF ReadEvent, StartElement
  <2>2. q = [p EXCEPT !.inSet = TRUE, !.isVideo = video]
      BY <2>1 DEF StartAdaptationSet
  <2> HIDE DEF video
  <2> QED BY <2>2 DEF DashKeeps, IsDash, Settled
<1>3. CASE e.event = "end" /\ e.name = "AdaptationSet"
  <2>1. q = [p EXCEPT !.inSet = FALSE, !.isVideo = FALSE, !.capturing = FALSE]
      BY <1>3 DEF ReadEvent, EndElement
  <2> QED BY <2>1 DEF DashKeeps, IsDash, Settled
<1>4. CASE e.event = "start" /\ e.name = "SegmentTemplate"
  <2>1. q = [p EXCEPT !.capturing = FALSE]
      BY <1>4 DEF ReadEvent, StartElement, StartSegmentTemplate, Settled
  <2> QED BY <2>1 DEF DashKeeps, IsDash, Settled
<1>5. CASE e.event = "start" /\ e.name = "S"
  <2>1. q = p
      BY <1>5 DEF ReadEvent, StartElement, StartS, Settled
  <2> QED BY <2>1 DEF DashKeeps, Settled
<1>6. CASE \/ e.name = "SegmentTimeline"
           \/ e.event = "end" /\ e.name \in {"S", "SegmentTemplate"}
  <2>1. q = p
      BY <1>6 DEF ReadEvent, StartElement, EndElement
  <2> QED BY <2>1 DEF DashKeeps, Settled
<1> QED BY <1>1, <1>2, <1>3, <1>4, <1>5, <1>6 DEF SetNames, QuietNames

LEMMA LockedRead ==
    ASSUME NEW p, IsDash(p), Settled(p), NEW events, Only(events, SetNames),
           NEW q, q = DashRun(p, events)
    PROVE  DashKeeps(p, q) /\ Settled(q)
<1> DEFINE n == Len(events)
           So(s) == DashKeeps(p, s) /\ Settled(s)
<1>1. n \in Nat
    BY DEF Only, IsList
<1>2. PICK f : IsRun(f, "dash", "none", p, events)
    BY <1>1, RunExists
<1> DEFINE T == {k \in 0 .. n : So(f[k])}
<1>3. 0 \in T
  <2>1. So(p) /\ f[0] = p
      BY <1>2, DashKeepsAll DEF IsRun
  <2> HIDE DEF So
  <2> QED BY <1>1, <2>1
<1>4. ASSUME NEW k \in 0 .. n, k < n, k \in T PROVE k + 1 \in T
  <2>1. k + 1 \in 1 .. n /\ (k + 1) - 1 = k /\ k + 1 \in 0 .. n
      BY <1>1, <1>4
  <2> DEFINE s == f[k]
             e == events[k + 1]
             r == ReadEvent(s, e)
  <2>2. f[k + 1] = r
      BY <1>2, <2>1 DEF IsRun, ReadItem
  <2>3. So(s) /\ e.event \in {"start", "end"} /\ e.name \in SetNames
      BY <1>4, <2>1 DEF Only
  <2> HIDE DEF s, e
  <2>4. IsDash(s) /\ r = ReadEvent(s, e)
      BY <2>3 DEF DashKeeps
  <2> HIDE DEF r
  <2>5. DashKeeps(s, r) /\ Settled(r)
      BY <2>3, <2>4, LockedStep
  <2>6. So(r)
      BY <2>3, <2>5, DashKeepsAll
  <2> HIDE DEF So
  <2> QED BY <2>1, <2>2, <2>6
<1>5. n \in T
  <2> HIDE DEF T, n
  <2>1. \A k \in 0 .. n : k \in T
      BY <1>1, <1>3, <1>4, CountUp, Zenon
  <2> QED BY <1>1, <2>1
<1>6. q = f[n]
    BY <1>1, <1>2, RunIsLast DEF DashRun
<1> QED BY <1>5, <1>6

-----------------------------------------------------------------------------
(* The template of a set *)

\* A position counts up a list of its own items.
LEMMA RowGrows ==
    ASSUME NEW i \in Nat, i >= 1, NEW f, NEW g, f = [j \in 1 .. i - 1 |-> g[j]],
           g = [j \in 1 .. i |-> g[j]]
    PROVE  g = Append(f, g[i])
<1>1. i - 1 \in Nat
    OBVIOUS
<1>2. f = [j \in 1 .. i - 1 |-> f[j]] /\ \A j \in 1 .. i - 1 : f[j] = g[j]
    OBVIOUS
<1>3. IsList(f) /\ Len(f) = i - 1 /\ IsList(g) /\ Len(g) = i
    BY <1>1, <1>2, FunctionIsList
<1> DEFINE r == Append(f, g[i])
<1>4. IsList(r) /\ Len(r) = i /\ r[i] = g[i] /\ \A j \in 1 .. i - 1 : r[j] = f[j]
    BY <1>1, <1>3, AppendIsList
<1>5. DOMAIN r = 1 .. i /\ r = [j \in 1 .. i |-> r[j]]
    BY <1>4 DEF IsList
<1> HIDE DEF r
<1>6. ASSUME NEW j \in 1 .. i PROVE r[j] = g[j]
  <2>1. j = i \/ j \in 1 .. i - 1
      OBVIOUS
  <2> QED BY <1>2, <1>4, <2>1
<1>7. r = g
    BY <1>5, <1>6
<1> QED BY <1>7 DEF r

\* The S elements of a window, and the timeline read of the first i of them.
EntryAt(m, i) ==
    Empty("S", IF i = 1 /\ m.startNumber > 0
               THEN [t |-> m.startTime, d |-> m.listed[i].duration \div TicksPerMs]
               ELSE [d |-> m.listed[i].duration \div TicksPerMs])
Entries(m) == [i \in 1 .. Len(m.listed) |-> EntryAt(m, i)]
TimelineItem(m, i) == [d |-> ToMs(m.listed[i].duration), r |-> 0]
TimelineUpTo(m, i) == [j \in 1 .. i |-> TimelineItem(m, j)]

\* One S of a window.
LEMMA EntryRead ==
    ASSUME MsDurations, NEW m, Whole(m), NEW i \in 1 .. Len(m.listed),
           NEW p, IsDash(p), p.capturing = TRUE, NEW q, q = ReadEvent(p, EntryAt(m, i))
    PROVE  q = [p EXCEPT !.timeline = Append(@, TimelineItem(m, i))]
<1> DEFINE e == EntryAt(m, i)
           d == m.listed[i].duration \div TicksPerMs
<1>1. m.listed[i].duration \in Nat /\ m.listed[i].duration >= TicksPerMs
    BY ListedSegments DEF MsDurations
<1>2. d > 0
  <2> DEFINE a == m.listed[i].duration
  <2>1. a \in Nat /\ a >= TicksPerMs /\ TicksPerMs \in Nat /\ TicksPerMs > 0
      BY <1>1, SourceAssumption
  <2> HIDE DEF a
  <2>2. a \div TicksPerMs >= 1
      BY <2>1
  <2>3. a \div TicksPerMs \in Int
      BY <2>1
  <2> QED BY <2>2, <2>3 DEF a
<1>3. /\ e.event = "start" /\ e.name = "S"
      /\ "d" \in DOMAIN e.attributes /\ e.attributes.d = d /\ "r" \notin DOMAIN e.attributes
    BY DEF EntryAt, Empty
<1> HIDE DEF e
<1>4. q = StartS(p, e)
    BY <1>3 DEF ReadEvent, StartElement, e
<1>5. Attr(e, "d", 0) = d /\ Attr(e, "r", 0) = 0
    BY <1>3 DEF Attr, HasAttr
<1>6. q = [p EXCEPT !.timeline = Append(@, [d |-> e.attributes.d, r |-> 0])]
    BY <1>2, <1>4, <1>5 DEF StartS
<1> QED BY <1>3, <1>6 DEF TimelineItem, ToMs

\* What the template of a set leaves as it is, and what its timeline does.
TemplateKeeps(p, q) ==
    q.live = p.live /\ q.base = p.base /\ q.adBreaks = p.adBreaks /\ q.isVideo = p.isVideo
TimelineKeeps(p, q) ==
    /\ IsDash(q) /\ q.init = p.init /\ q.media = p.media /\ q.scale = p.scale
    /\ q.startNumber = p.startNumber /\ q.uniform = p.uniform /\ q.locked = p.locked
    /\ q.capturing = p.capturing
    /\ TemplateKeeps(p, q)

\* The S elements of a window, one after the other.
LEMMA TimelineRead ==
    ASSUME MsDurations, NEW m, Whole(m), NEW p, IsDash(p), p.capturing = TRUE, p.timeline = <<>>,
           NEW q, q = DashRun(p, Entries(m))
    PROVE  /\ IsList(Entries(m))
           /\ TimelineKeeps(p, q) /\ q.timeline = TimelineUpTo(m, Len(m.listed))
<1> DEFINE n == Len(m.listed)
           s == Entries(m)
           So(k, r) == TimelineKeeps(p, r) /\ r.timeline = TimelineUpTo(m, k)
<1>1. n \in Nat
    BY ListedSegments
<1>2. IsList(s) /\ Len(s) = n /\ \A k \in 1 .. n : s[k] = EntryAt(m, k)
  <2>1. s = [k \in 1 .. n |-> s[k]] /\ \A k \in 1 .. n : s[k] = EntryAt(m, k)
      BY DEF Entries
  <2> HIDE DEF s
  <2> QED BY <1>1, <2>1, FunctionIsList
<1> HIDE DEF s
<1>3. PICK f : IsRun(f, "dash", "none", p, s)
    BY <1>1, <1>2, RunExists
<1> DEFINE T == {k \in 0 .. n : So(k, f[k])}
<1>4. 0 \in T
  <2>1. TimelineUpTo(m, 0) = <<>>
      BY DEF TimelineUpTo
  <2>2. So(0, p)
      BY <2>1 DEF TimelineKeeps, TemplateKeeps
  <2> HIDE DEF So
  <2> QED BY <1>1, <1>3, <2>2 DEF IsRun
<1>5. ASSUME NEW k \in 0 .. n, k < n, k \in T PROVE k + 1 \in T
  <2>1. k + 1 \in 1 .. n /\ (k + 1) - 1 = k /\ k + 1 \in 0 .. n /\ k + 1 \in Nat
      BY <1>1, <1>5
  <2> DEFINE r == f[k]
             t == f[k + 1]
  <2>2. t = ReadEvent(r, EntryAt(m, k + 1)) /\ So(k, r)
      BY <1>2, <1>3, <1>5, <2>1 DEF IsRun, ReadItem
  <2> HIDE DEF r, t
  <2>3. IsDash(r) /\ r.capturing = TRUE /\ r.timeline = TimelineUpTo(m, k)
      BY <2>2 DEF TimelineKeeps
  <2>5. t = [r EXCEPT !.timeline = Append(@, TimelineItem(m, k + 1))]
      BY <2>1, <2>2, <2>3, EntryRead DEF n
  <2>6. TimelineUpTo(m, k + 1) = Append(TimelineUpTo(m, k), TimelineItem(m, k + 1))
    <3> DEFINE a == TimelineUpTo(m, k)
               b == TimelineUpTo(m, k + 1)
    <3>1. a = [j \in 1 .. (k + 1) - 1 |-> b[j]] /\ b = [j \in 1 .. k + 1 |-> b[j]]
          /\ b[k + 1] = TimelineItem(m, k + 1)
        BY <2>1 DEF TimelineUpTo
    <3> HIDE DEF a, b
    <3>2. b = Append(a, b[k + 1])
      <4>1. k + 1 >= 1
          BY <2>1
      <4> QED BY <2>1, <3>1, <4>1, RowGrows, Zenon
    <3> QED BY <3>1, <3>2 DEF a, b
  <2>7. t = [r EXCEPT !.timeline = TimelineUpTo(m, k + 1)]
      BY <2>3, <2>5, <2>6
  <2>8. So(k + 1, t)
      BY <2>2, <2>7 DEF TimelineKeeps, TemplateKeeps, IsDash
  <2> HIDE DEF So
  <2> QED BY <2>1, <2>8 DEF t
<1>6. n \in T
  <2> HIDE DEF T, n
  <2>1. \A k \in 0 .. n : k \in T
      BY <1>1, <1>4, <1>5, CountUp, Zenon
  <2> QED BY <1>1, <2>1
<1>7. q = f[n]
    BY <1>1, <1>2, <1>3, RunIsLast DEF DashRun, s
<1> QED BY <1>2, <1>6, <1>7 DEF s

\* A state in which the segments of the window are those of the template.
HasTemplate(m, init, media, p) ==
    /\ IsDash(p) /\ p.init = SomeUrl(init) /\ p.media = SomeUrl(media) /\ p.scale = 1
    /\ p.startNumber = m.startNumber /\ p.uniform = 0
    /\ p.timeline = TimelineUpTo(m, Len(m.listed))

\* No template has been read.
Untouched(p) == IsDash(p) /\ ~ p.locked /\ p.timeline = <<>> /\ p.uniform = 0

TemplateAttributes(m, init, media) ==
    [timescale |-> 1, initialization |-> init, media |-> media, startNumber |-> m.startNumber]
TimelineOf(m) == Element("SegmentTimeline", NoAttributes, Entries(m))

\* The first template of build_segment_template: its segments are those of the
\* window, and it is locked in if its set is a video set.
LEMMA TemplateRead ==
    ASSUME MsDurations, NEW m, Whole(m), NEW init, NEW media, NEW p, Untouched(p),
           NEW events, events = SegmentTemplate(m, TicksPerMs, init, media),
           NEW q, q = DashRun(p, events)
    PROVE  /\ IsList(events)
           /\ HasTemplate(m, init, media, q) /\ TemplateKeeps(p, q) /\ q.locked = p.isVideo
<1> DEFINE d == Start("SegmentTemplate", TemplateAttributes(m, init, media))
           p1 == ReadEvent(p, d)
           s  == Start("SegmentTimeline", NoAttributes)
           p2 == ReadEvent(p1, s)
           p3 == DashRun(p2, Entries(m))
           p4 == ReadEvent(p3, End("SegmentTimeline"))
<1>1. events = Element("SegmentTemplate", TemplateAttributes(m, init, media), TimelineOf(m))
    BY DEF SegmentTemplate, TimelineOf, Entries, EntryAt, TemplateAttributes
<1>2. /\ IsDash(p1) /\ p1.capturing = TRUE /\ p1.locked = p.isVideo /\ p1.timeline = <<>>
      /\ p1.init = SomeUrl(init) /\ p1.media = SomeUrl(media)
      /\ p1.scale = 1 /\ p1.startNumber = m.startNumber /\ p1.uniform = 0 /\ TemplateKeeps(p, p1)
  <2>1. /\ d.event = "start" /\ d.name = "SegmentTemplate"
        /\ DOMAIN d.attributes = {"timescale", "initialization", "media", "startNumber"}
        /\ d.attributes.timescale = 1 /\ d.attributes.initialization = init
        /\ d.attributes.media = media /\ d.attributes.startNumber = m.startNumber
      BY DEF Start, TemplateAttributes
  <2> HIDE DEF d
  <2>2. p1 = StartSegmentTemplate(p, d)
      BY <2>1 DEF ReadEvent, StartElement
  <2>3. p1 = [p EXCEPT !.capturing = TRUE, !.locked = p.isVideo, !.timeline = <<>>, !.uniform = 0,
                       !.init = SomeUrl(init), !.media = SomeUrl(media), !.scale = 1,
                       !.startNumber = m.startNumber]
      BY <2>1, <2>2 DEF StartSegmentTemplate, Attr, HasAttr, Untouched
  <2> QED BY <2>3 DEF Untouched, IsDash, TemplateKeeps
<1> HIDE DEF p1
<1>3. p2 = p1
    BY DEF ReadEvent, StartElement, Start
<1>4. IsList(Entries(m)) /\ TimelineKeeps(p1, p3) /\ p3.timeline = TimelineUpTo(m, Len(m.listed))
    BY <1>2, <1>3, TimelineRead
<1> HIDE DEF p2, p3
<1>5. p4 = p3 /\ ReadEvent(p4, End("SegmentTemplate")) = p4
    BY DEF ReadEvent, EndElement, End
<1>6. /\ IsList(TimelineOf(m)) /\ DashRun(p1, TimelineOf(m)) = p4
    BY <1>4, RunOfElement DEF TimelineOf, DashRun, p2, p3
<1>7. IsList(events) /\ q = ReadEvent(p4, End("SegmentTemplate"))
    BY <1>1, <1>6, RunOfElement DEF DashRun, p1
<1>8. q = p3
    BY <1>5, <1>7
<1>9. HasTemplate(m, init, media, q) /\ TemplateKeeps(p1, q) /\ q.locked = p1.locked
  <2> HIDE DEF p4
  <2> QED BY <1>2, <1>4, <1>8 DEF HasTemplate, TimelineKeeps, TemplateKeeps
<1> QED BY <1>2, <1>7, <1>9 DEF TemplateKeeps

-----------------------------------------------------------------------------
(* The sets of an MPD *)

OwnTemplates(type, variants) == type = "video" /\ \E v \in 1 .. Len(variants) : variants[v].prefixed
TemplateFor(m, variant)      == SegmentTemplate(m, TicksPerMs, variant.init, variant.media)
SharedTemplate(m, type, variants) ==
    IF OwnTemplates(type, variants) THEN <<>>
    ELSE SegmentTemplate(m, TicksPerMs, OutputUris.init, OutputUris.media)
Contents(m, type, variants) ==
    [v \in 1 .. Len(variants) |-> IF OwnTemplates(type, variants) THEN TemplateFor(m, variants[v]) ELSE <<>>]
RepresentationLists(variants, contents) ==
    [v \in 1 .. Len(variants) |->
        Element("Representation", [bandwidth |-> variants[v].bandwidth], contents[v])]
SetContent(m, type, variants, protection) ==
    Joined(Joined(protection, SharedTemplate(m, type, variants)),
           FlattenSeq(RepresentationLists(variants, Contents(m, type, variants))))
SetAttributes(type) == [contentType |-> type, mimeType |-> MimeType(type)]
SetOf(m, type, variants, protection) ==
    AdaptationSet(m, TicksPerMs, type, variants, protection, OutputUris)

LEMMA SetIsElement ==
    ASSUME NEW m, NEW type, NEW variants, NEW protection
    PROVE  SetOf(m, type, variants, protection)
               = Element("AdaptationSet", SetAttributes(type), SetContent(m, type, variants, protection))
BY DEF SetOf, AdaptationSet, SetAttributes, SetContent, SharedTemplate, RepresentationLists,
       Representations, Contents, TemplateFor, OwnTemplates, Joined

\* The elements of a template, of a Representation and of a set are those of
\* SetNames.
LEMMA TemplateNames ==
    ASSUME NEW m, Whole(m), NEW init, NEW media
    PROVE  /\ Only(SegmentTemplate(m, TicksPerMs, init, media), SetNames)
           /\ SegmentTemplate(m, TicksPerMs, init, media)
                = Element("SegmentTemplate", TemplateAttributes(m, init, media), TimelineOf(m))
           /\ Only(TimelineOf(m), SetNames)
<1>1. SegmentTemplate(m, TicksPerMs, init, media)
          = Element("SegmentTemplate", TemplateAttributes(m, init, media), TimelineOf(m))
    BY DEF SegmentTemplate, TimelineOf, Entries, EntryAt, TemplateAttributes
<1>2. Only(Entries(m), SetNames)
  <2> DEFINE n == Len(m.listed)
             s == Entries(m)
  <2>1. n \in Nat
      BY ListedSegments
  <2>2. s = [k \in 1 .. n |-> s[k]] /\ \A k \in 1 .. n : s[k] = EntryAt(m, k)
      BY DEF Entries
  <2> HIDE DEF s, n
  <2>3. IsList(s) /\ Len(s) = n
      BY <2>1, <2>2, FunctionIsList
  <2>4. \A k \in 1 .. n : EntryAt(m, k).event = "start" /\ EntryAt(m, k).name = "S"
      BY DEF EntryAt, Empty
  <2>5. \A k \in 1 .. n : s[k].event = "start" /\ s[k].name = "S"
      BY <2>2, <2>4
  <2>6. Only(s, SetNames)
      BY <2>3, <2>5 DEF Only, SetNames
  <2> QED BY <2>6 DEF s
<1>3. "SegmentTimeline" \in SetNames /\ "SegmentTemplate" \in SetNames
    BY DEF SetNames
<1>4. Only(TimelineOf(m), SetNames)
    BY <1>2, <1>3, OnlyElement, Zenon DEF TimelineOf
<1>5. Only(Element("SegmentTemplate", TemplateAttributes(m, init, media), TimelineOf(m)), SetNames)
    BY <1>3, <1>4, OnlyElement, Zenon
<1> QED BY <1>1, <1>4, <1>5

LEMMA RepresentationsNames ==
    ASSUME NEW names, "Representation" \in names, NEW variants, IsList(variants), NEW contents,
           \A v \in 1 .. Len(variants) : Only(contents[v], names)
    PROVE  /\ IsList(RepresentationLists(variants, contents))
           /\ Len(RepresentationLists(variants, contents)) = Len(variants) /\ Len(variants) \in Nat
           /\ \A v \in 1 .. Len(variants) :
                 Only(RepresentationLists(variants, contents)[v], names)
           /\ Only(FlattenSeq(RepresentationLists(variants, contents)), names)
<1> DEFINE n == Len(variants)
           s == RepresentationLists(variants, contents)
           piece(v) == Element("Representation", [bandwidth |-> variants[v].bandwidth], contents[v])
<1>1. n \in Nat
    BY DEF IsList
<1>2. s = [v \in 1 .. n |-> s[v]] /\ \A v \in 1 .. n : s[v] = piece(v)
    BY DEF RepresentationLists
<1>3. \A v \in 1 .. n : Only(piece(v), names)
  <2> SUFFICES ASSUME NEW v \in 1 .. n PROVE Only(piece(v), names)
      OBVIOUS
  <2> DEFINE a == [bandwidth |-> variants[v].bandwidth]
             c == contents[v]
  <2>1. Only(c, names)
      OBVIOUS
  <2> HIDE DEF a, c
  <2>2. Only(Element("Representation", a, c), names)
      BY <2>1, OnlyElement, Zenon
  <2> QED BY <2>2 DEF a, c
<1> HIDE DEF s, n, piece
<1>4. IsList(s) /\ Len(s) = n
    BY <1>1, <1>2, FunctionIsList
<1>5. \A v \in 1 .. Len(s) : Only(s[v], names)
    BY <1>2, <1>3, <1>4
<1>6. Only(FlattenSeq(s), names)
    BY <1>4, <1>5, OnlyFlat
<1> QED BY <1>1, <1>4, <1>5, <1>6 DEF s, n

LEMMA MoreNames ==
    ASSUME NEW names, NEW more, names \subseteq more, NEW events, Only(events, names)
    PROVE  Only(events, more)
BY DEF Only

LEMMA SetNamesOnly ==
    ASSUME NEW m, Whole(m), NEW type, NEW variants, IsList(variants),
           NEW protection, Only(protection, QuietNames)
    PROVE  Only(SetOf(m, type, variants, protection), SetNames)
<1>1. QuietNames \subseteq SetNames /\ "Representation" \in SetNames /\ "AdaptationSet" \in SetNames
    BY DEF QuietNames, SetNames
<1>2. Only(protection, SetNames)
    BY <1>1, MoreNames
<1> DEFINE shared == SharedTemplate(m, type, variants)
           contents == Contents(m, type, variants)
           reps == FlattenSeq(RepresentationLists(variants, contents))
<1>3. Only(shared, SetNames)
    BY TemplateNames, OnlyNothing DEF SharedTemplate
<1>4. \A v \in 1 .. Len(variants) : Only(contents[v], SetNames)
  <2> SUFFICES ASSUME NEW v \in 1 .. Len(variants) PROVE Only(contents[v], SetNames)
      OBVIOUS
  <2>1. Only(TemplateFor(m, variants[v]), SetNames) /\ Only(<<>>, SetNames)
      BY TemplateNames, OnlyNothing DEF TemplateFor
  <2>2. contents[v] = TemplateFor(m, variants[v]) \/ contents[v] = <<>>
      BY DEF Contents
  <2> HIDE DEF contents
  <2> QED BY <2>1, <2>2
<1> HIDE DEF shared, contents
<1>5. Only(reps, SetNames)
    BY <1>1, <1>4, RepresentationsNames
<1> HIDE DEF reps
<1>6. Only(Joined(Joined(protection, shared), reps), SetNames)
    BY <1>2, <1>3, <1>5, OnlyJoined, Zenon
<1>7. Only(SetContent(m, type, variants, protection), SetNames)
    BY <1>6 DEF SetContent, shared, contents, reps
<1> HIDE DEF SetContent
<1>8. Only(Element("AdaptationSet", SetAttributes(type), SetContent(m, type, variants, protection)), SetNames)
    BY <1>1, <1>7, OnlyElement, Zenon
<1> QED BY <1>8, SetIsElement

\* A template that comes after the first video template leaves the segments as
\* they are, and so does its Representation.
LEMMA LaterTemplate ==
    ASSUME NEW m, Whole(m), NEW init, NEW media, NEW p, IsDash(p), p.locked = TRUE,
           NEW events, events = SegmentTemplate(m, TicksPerMs, init, media),
           NEW q, q = DashRun(p, events)
    PROVE  DashKeeps(p, q)
<1> DEFINE d == Start("SegmentTemplate", TemplateAttributes(m, init, media))
           p1 == ReadEvent(p, d)
           p2 == DashRun(p1, TimelineOf(m))
<1>1. /\ Only(TimelineOf(m), SetNames)
      /\ events = Element("SegmentTemplate", TemplateAttributes(m, init, media), TimelineOf(m))
    BY TemplateNames
<1>2. DashKeeps(p, p1) /\ Settled(p1)
  <2>1. d.event = "start" /\ d.name = "SegmentTemplate"
      BY DEF Start
  <2> HIDE DEF d
  <2>2. p1 = [p EXCEPT !.capturing = FALSE]
      BY <2>1 DEF ReadEvent, StartElement, StartSegmentTemplate
  <2> QED BY <2>2 DEF DashKeeps, IsDash, Settled
<1> HIDE DEF p1
<1>3. DashKeeps(p1, p2)
    BY <1>1, <1>2, LockedRead DEF DashKeeps
<1>4. q = ReadEvent(p2, End("SegmentTemplate"))
    BY <1>1, RunOfElement DEF DashRun, Only, p1
<1> HIDE DEF p2
<1>5. q = p2
    BY <1>4 DEF ReadEvent, EndElement, End
<1> QED BY <1>2, <1>3, <1>5, DashKeepsAll

\* A Representation: its start and its end are quiet.
LEMMA RepresentationRead ==
    ASSUME NEW attributes, NEW content, IsList(content), NEW p, IsDash(p),
           NEW events, events = Element("Representation", attributes, content),
           NEW q, q = DashRun(p, events)
    PROVE  \E a : \E b : /\ DashKeeps(p, a) /\ (p.isVideo => a.isVideo)
                         /\ b = DashRun(a, content)
                         /\ (IsDash(b) => DashKeeps(b, q) /\ q.capturing = b.capturing)
<1> DEFINE d == Start("Representation", attributes)
           e == End("Representation")
           a == ReadEvent(p, d)
           b == DashRun(a, content)
<1>1. /\ d.event = "start" /\ d.name \in QuietNames /\ e.event = "end" /\ e.name \in QuietNames
    BY DEF Start, End, QuietNames
<1>2. q = ReadEvent(b, e)
    BY RunOfElement DEF DashRun
<1> HIDE DEF d, e
<1>3. DashKeeps(p, a) /\ (p.isVideo => a.isVideo)
    BY <1>1, QuietStep
<1> HIDE DEF b
<1>4. IsDash(b) => DashKeeps(b, q) /\ q.capturing = b.capturing
    BY <1>1, <1>2, QuietStep
<1>5. b = DashRun(a, content)
    BY DEF b
<1> HIDE DEF a
<1> QED BY <1>3, <1>4, <1>5

LEMMA LaterRepresentation ==
    ASSUME NEW m, Whole(m), NEW init, NEW media, NEW p, IsDash(p), p.locked = TRUE,
           NEW attributes, NEW content, content = SegmentTemplate(m, TicksPerMs, init, media),
           NEW q, q = DashRun(p, Element("Representation", attributes, content))
    PROVE  DashKeeps(p, q)
<1>1. IsList(content)
    BY TemplateNames DEF Only
<1>2. PICK a, b : /\ DashKeeps(p, a) /\ b = DashRun(a, content)
                  /\ (IsDash(b) => DashKeeps(b, q) /\ q.capturing = b.capturing)
    BY <1>1, RepresentationRead
<1>3. IsDash(a) /\ a.locked = TRUE
    BY <1>2 DEF DashKeeps
<1>4. DashKeeps(a, b)
    BY <1>2, <1>3, LaterTemplate
<1>5. DashKeeps(b, q)
    BY <1>2, <1>4 DEF DashKeeps
<1> QED BY <1>2, <1>4, <1>5, DashKeepsAll

\* A state with the segments of the window and the rest of an earlier one.
SegmentsOf(m, init, media, p, q) ==
    HasTemplate(m, init, media, q) /\ q.live = p.live /\ q.base = p.base /\ q.adBreaks = p.adBreaks

OfVideo(p) == p.isVideo = TRUE
IsLocked(p) == p.locked = TRUE

\* The first Representation of the first video set, if it has a template of its
\* own.
LEMMA FirstRepresentation ==
    ASSUME MsDurations, NEW m, Whole(m), NEW init, NEW media,
           NEW p, Untouched(p), OfVideo(p),
           NEW attributes, NEW content, content = SegmentTemplate(m, TicksPerMs, init, media),
           NEW q, q = DashRun(p, Element("Representation", attributes, content))
    PROVE  SegmentsOf(m, init, media, p, q) /\ IsLocked(q)
<1>1. IsList(content)
    BY TemplateNames DEF Only
<1>2. PICK a, b : /\ DashKeeps(p, a) /\ a.isVideo /\ b = DashRun(a, content)
                  /\ (IsDash(b) => DashKeeps(b, q) /\ q.capturing = b.capturing)
    BY <1>1, RepresentationRead DEF Untouched, OfVideo
<1>3. Untouched(a)
    BY <1>2 DEF DashKeeps, Untouched
<1>4. HasTemplate(m, init, media, b) /\ TemplateKeeps(a, b) /\ b.locked = a.isVideo
    BY <1>2, <1>3, TemplateRead
<1>5. DashKeeps(b, q)
    BY <1>2, <1>4 DEF HasTemplate
<1> QED BY <1>2, <1>4, <1>5 DEF SegmentsOf, IsLocked, HasTemplate, TemplateKeeps, DashKeeps

SetInit(type, variants)  == IF OwnTemplates(type, variants) THEN variants[1].init ELSE OutputUris.init
SetMedia(type, variants) == IF OwnTemplates(type, variants) THEN variants[1].media ELSE OutputUris.media

\* The Representations of the first video set, each with a template of its own:
\* the first one's stays.
LEMMA OwnTemplatesRead ==
    ASSUME MsDurations, NEW m, Whole(m), NEW variants, IsList(variants), variants # <<>>,
           OwnTemplates("video", variants), NEW p, Untouched(p), OfVideo(p),
           NEW q, q = DashRun(p, FlattenSeq(RepresentationLists(variants, Contents(m, "video", variants))))
    PROVE  SegmentsOf(m, variants[1].init, variants[1].media, p, q) /\ q.locked = TRUE
<1> DEFINE n == Len(variants)
           contents == Contents(m, "video", variants)
           lists == RepresentationLists(variants, contents)
           attributes(v) == [bandwidth |-> variants[v].bandwidth]
           at(k) == DashRun(p, FirstLists(lists, k))
           So(k) == SegmentsOf(m, variants[1].init, variants[1].media, p, at(k)) /\ at(k).locked = TRUE
           T == {k \in 0 .. n : k = 0 \/ So(k)}
<1>1. n \in Nat /\ n >= 1
    BY DEF IsList
<1>2. \A v \in 1 .. n : contents[v] = TemplateFor(m, variants[v])
    BY DEF Contents
<1>3. \A v \in 1 .. n : lists[v] = Element("Representation", attributes(v), contents[v])
    BY DEF RepresentationLists
<1>4. \A v \in 1 .. n : Only(contents[v], SetNames)
  <2> SUFFICES ASSUME NEW v \in 1 .. n PROVE Only(contents[v], SetNames)
      OBVIOUS
  <2>1. Only(TemplateFor(m, variants[v]), SetNames)
      BY TemplateNames DEF TemplateFor
  <2> HIDE DEF contents
  <2> QED BY <1>2, <2>1
<1> HIDE DEF contents
<1>5. IsList(lists) /\ Len(lists) = n /\ \A v \in 1 .. n : Only(lists[v], SetNames)
    BY <1>4, RepresentationsNames DEF SetNames
<1> HIDE DEF lists
<1>6. InTurn(lists, "dash", "none", p)
  <2>1. \A v \in 1 .. Len(lists) : IsList(lists[v])
      BY <1>5 DEF Only
  <2> QED BY <1>5, <2>1, RunOfLists, Zenon
<1>7. at(0) = p /\ q = at(n)
    BY <1>5, <1>6 DEF InTurn, DashRun, lists, contents
<1>8. \A k \in 0 .. n : k < n => at(k + 1) = DashRun(at(k), lists[k + 1])
    BY <1>5, <1>6 DEF InTurn, DashRun
<1> HIDE DEF at, attributes
<1>9. ASSUME NEW k \in 0 .. n, k < n, k \in T PROVE k + 1 \in T
  <2>1. k + 1 \in 1 .. n /\ k + 1 \in 0 .. n
      BY <1>1, <1>9
  <2> DEFINE v == k + 1
             r == at(k)
             t == at(v)
  <2>2. t = DashRun(r, Element("Representation", attributes(v), contents[v]))
      BY <1>3, <1>8, <1>9, <2>1
  <2>3. contents[v] = SegmentTemplate(m, TicksPerMs, variants[v].init, variants[v].media)
      BY <1>2, <2>1 DEF TemplateFor
  <2>4. CASE k = 0
    <3>1. r = p /\ v = 1
        BY <1>7, <2>4
    <3> HIDE DEF r, t, v
    <3>2. SegmentsOf(m, variants[v].init, variants[v].media, p, t) /\ IsLocked(t)
      <4> DEFINE c == contents[v]
                 a == attributes(v)
                 i == variants[v].init
                 e == variants[v].media
      <4>1. c = SegmentTemplate(m, TicksPerMs, i, e) /\ t = DashRun(p, Element("Representation", a, c))
          BY <2>2, <2>3, <3>1
      <4> HIDE DEF c, a, i, e
      <4>2. SegmentsOf(m, i, e, p, t) /\ IsLocked(t)
          BY <4>1, FirstRepresentation, Zenon
      <4> QED BY <4>2 DEF i, e
    <3>3. So(v)
        BY <3>1, <3>2 DEF IsLocked, t
    <3> QED BY <2>1, <3>3 DEF v
  <2>5. CASE k # 0
    <3>1. SegmentsOf(m, variants[1].init, variants[1].media, p, r) /\ r.locked = TRUE
        BY <1>9, <2>5
    <3> HIDE DEF r, t, v
    <3>2. DashKeeps(r, t)
        BY <2>2, <2>3, <3>1, LaterRepresentation DEF SegmentsOf, HasTemplate
    <3>3. SegmentsOf(m, variants[1].init, variants[1].media, p, t) /\ t.locked = TRUE
        BY <3>1, <3>2 DEF SegmentsOf, HasTemplate, DashKeeps
    <3>4. So(v)
        BY <3>3 DEF t
    <3> HIDE DEF So
    <3> QED BY <2>1, <3>4 DEF v
  <2> QED BY <2>4, <2>5
<1>10. n \in T
  <2>1. 0 \in T
      BY <1>1
  <2> HIDE DEF T, n
  <2>2. \A k \in 0 .. n : k \in T
      BY <1>1, <1>9, <2>1, CountUp, Zenon
  <2> QED BY <1>1, <2>2
<1>11. So(n)
  <2> HIDE DEF So, n
  <2> QED BY <1>1, <1>10
<1> QED BY <1>7, <1>11

\* The first set: its segments are those of the window, and those of a video set
\* are locked in.
LEMMA FirstSetRead ==
    ASSUME MsDurations, NEW m, Whole(m), NEW type \in {"video", "audio", "text"},
           NEW variants, IsList(variants), variants # <<>>,
           NEW protection, Only(protection, QuietNames), NEW p, Untouched(p),
           NEW q, q = DashRun(p, SetOf(m, type, variants, protection))
    PROVE  /\ SegmentsOf(m, SetInit(type, variants), SetMedia(type, variants), p, q)
           /\ type = "video" => Settled(q)
<1> DEFINE d == Start("AdaptationSet", SetAttributes(type))
           shared == SharedTemplate(m, type, variants)
           reps == FlattenSeq(RepresentationLists(variants, Contents(m, type, variants)))
           p1 == ReadEvent(p, d)
           p2 == DashRun(p1, protection)
           p3 == DashRun(p2, shared)
           p4 == DashRun(p3, reps)
           init == SetInit(type, variants)
           media == SetMedia(type, variants)
<1>1. /\ Untouched(p1) /\ p1.live = p.live /\ p1.base = p.base /\ p1.adBreaks = p.adBreaks
      /\ type = "video" => p1.isVideo = TRUE
  <2> DEFINE video == \/ Attr(d, "contentType", "none") = "video"
                      \/ Attr(d, "mimeType", "none") \in VideoMimeTypes
  <2>1. d.event = "start" /\ d.name = "AdaptationSet"
      BY DEF Start
  <2>2. type = "video" => video = TRUE
      BY DEF Start, SetAttributes, Attr, HasAttr
  <2> HIDE DEF d
  <2>3. p1 = [p EXCEPT !.inSet = TRUE, !.isVideo = video]
      BY <2>1 DEF ReadEvent, StartElement, StartAdaptationSet
  <2> HIDE DEF video
  <2> QED BY <2>2, <2>3 DEF Untouched, IsDash
<1> HIDE DEF p1
<1>2. DashKeeps(p1, p2) /\ (p1.isVideo => p2.isVideo)
    BY <1>1, QuietRead DEF Untouched
<1> HIDE DEF p2
<1>3. /\ Untouched(p2) /\ p2.live = p.live /\ p2.base = p.base /\ p2.adBreaks = p.adBreaks
      /\ type = "video" => p2.isVideo
    BY <1>1, <1>2 DEF DashKeeps, Untouched
<1>4. Only(protection, SetNames)
    BY MoreNames DEF QuietNames, SetNames
<1>5. /\ IsList(shared) /\ IsList(reps)
  <2> DEFINE contents == Contents(m, type, variants)
  <2>1. Only(shared, SetNames)
      BY TemplateNames, OnlyNothing DEF SharedTemplate
  <2>2. \A v \in 1 .. Len(variants) : Only(contents[v], SetNames)
    <3> SUFFICES ASSUME NEW v \in 1 .. Len(variants) PROVE Only(contents[v], SetNames)
        OBVIOUS
    <3>1. Only(TemplateFor(m, variants[v]), SetNames) /\ Only(<<>>, SetNames)
        BY TemplateNames, OnlyNothing DEF TemplateFor
    <3>2. contents[v] = TemplateFor(m, variants[v]) \/ contents[v] = <<>>
        BY DEF Contents
    <3> HIDE DEF contents
    <3> QED BY <3>1, <3>2
  <2> HIDE DEF contents, shared
  <2>3. Only(FlattenSeq(RepresentationLists(variants, contents)), SetNames)
      BY <2>2, RepresentationsNames DEF SetNames
  <2> QED BY <2>1, <2>3 DEF Only, contents
<1>6. SegmentsOf(m, init, media, p, p4) /\ (type = "video" => p4.locked = TRUE)
  <2>1. CASE OwnTemplates(type, variants)
    <3>1. type = "video" /\ shared = <<>> /\ init = variants[1].init /\ media = variants[1].media
        BY <2>1 DEF OwnTemplates, SharedTemplate, SetInit, SetMedia
    <3>2. p3 = p2
        BY <3>1, RunOfEmpty DEF DashRun
    <3>3. OfVideo(p2)
        BY <1>3, <3>1 DEF OfVideo
    <3> HIDE DEF shared, p3, init, media
    <3>4. SegmentsOf(m, init, media, p2, p4) /\ p4.locked = TRUE
        BY <1>3, <2>1, <3>1, <3>2, <3>3, OwnTemplatesRead
    <3> HIDE DEF p4
    <3> QED BY <1>3, <3>4 DEF SegmentsOf
  <2>2. CASE ~ OwnTemplates(type, variants)
    <3>1. /\ shared = SegmentTemplate(m, TicksPerMs, OutputUris.init, OutputUris.media)
          /\ init = OutputUris.init /\ media = OutputUris.media
        BY <2>2 DEF SharedTemplate, SetInit, SetMedia
    <3> HIDE DEF init, media, shared
    <3>2. HasTemplate(m, init, media, p3) /\ TemplateKeeps(p2, p3) /\ p3.locked = p2.isVideo
        BY <1>3, <3>1, TemplateRead
    <3> HIDE DEF p3
    <3>3. Only(reps, QuietNames)
      <4> DEFINE contents == Contents(m, type, variants)
      <4>1. \A v \in 1 .. Len(variants) : contents[v] = <<>>
          BY <2>2 DEF Contents
      <4>2. \A v \in 1 .. Len(variants) : Only(contents[v], QuietNames)
          BY <4>1, OnlyNothing
      <4> HIDE DEF contents
      <4>3. Only(FlattenSeq(RepresentationLists(variants, contents)), QuietNames)
          BY <4>2, RepresentationsNames DEF QuietNames
      <4> QED BY <4>3 DEF contents
    <3> HIDE DEF reps
    <3>4. DashKeeps(p3, p4)
        BY <3>2, <3>3, QuietRead DEF HasTemplate
    <3> HIDE DEF p4
    <3>5. type = "video" => p3.locked = TRUE
        BY <1>3, <3>2
    <3> QED BY <1>3, <3>2, <3>4, <3>5 DEF SegmentsOf, HasTemplate, TemplateKeeps, DashKeeps
  <2> QED BY <2>1, <2>2
<1>7. q = ReadEvent(p4, End("AdaptationSet"))
  <2> DEFINE a == Joined(protection, shared)
             content == Joined(a, reps)
  <2>1. IsList(protection)
      BY <1>4 DEF Only
  <2> HIDE DEF shared, reps
  <2>2. IsList(a)
      BY <1>5, <2>1, JoinedIsList, Zenon DEF IsJoin
  <2>3. DashRun(p1, a) = p3
      BY <1>5, <2>1, RunOfJoined DEF DashRun, p2, p3
  <2> HIDE DEF a
  <2>4. IsList(content)
      BY <1>5, <2>2, JoinedIsList, Zenon DEF IsJoin
  <2>5. DashRun(p1, content) = p4
      BY <1>5, <2>2, <2>3, RunOfJoined DEF DashRun, p4
  <2> HIDE DEF content
  <2>6. content = SetContent(m, type, variants, protection)
      BY DEF content, a, shared, reps, SetContent
  <2>7. SetOf(m, type, variants, protection) = Element("AdaptationSet", SetAttributes(type), content)
      BY <2>6, SetIsElement
  <2> QED BY <2>4, <2>5, <2>7, RunOfElement DEF DashRun, p1
<1> HIDE DEF p4, init, media
<1>8. q = [p4 EXCEPT !.inSet = FALSE, !.isVideo = FALSE, !.capturing = FALSE]
    BY <1>7 DEF ReadEvent, EndElement, End
<1> USE DEF init, media
<1> QED BY <1>6, <1>8 DEF SegmentsOf, HasTemplate, IsDash, Settled

-----------------------------------------------------------------------------
(* The ad breaks of an MPD *)

\* What is read of an Event, and what the EventStream leaves as it is.
EventShown(b)      == [segment |-> 0, id |-> b.segment, time |-> Time(b.time, TicksPerMs)]
EventAttributes(b) == [id |-> b.segment, presentationTime |-> b.time]
EventOf(b)         == Element("Event", EventAttributes(b), <<>>)
ShownUpTo(breaks, k) == [b \in 1 .. k |-> EventShown(breaks[b])]
EventsKeep(p, q) ==
    /\ IsDash(q) /\ q.live = p.live /\ q.base = p.base /\ q.locked = p.locked
    /\ q.timeline = p.timeline /\ q.uniform = p.uniform
InStream(p) == p.inEvents = TRUE /\ p.eventScale = TicksPerMs

LEMMA EventRead ==
    ASSUME NEW b, NEW p, IsDash(p), InStream(p), NEW q, q = DashRun(p, EventOf(b))
    PROVE  /\ IsList(EventOf(b))
           /\ EventsKeep(p, q) /\ InStream(q) /\ q.adBreaks = Append(p.adBreaks, EventShown(b))
<1> DEFINE d == Start("Event", EventAttributes(b))
           p1 == ReadEvent(p, d)
<1>1. /\ d.event = "start" /\ d.name = "Event"
      /\ Attr(d, "id", 0) = b.segment /\ Attr(d, "presentationTime", 0) = b.time
    BY DEF Start, EventAttributes, Attr, HasAttr
<1> HIDE DEF d
<1>2. p1 = StartEvent(p, d)
    BY <1>1 DEF ReadEvent, StartElement
<1>3. p1 = [p EXCEPT !.adBreaks = Append(@, EventShown(b))]
    BY <1>1, <1>2 DEF StartEvent, EventShown, InStream
<1> HIDE DEF p1
<1>4. DashRun(p1, <<>>) = p1
    BY RunOfEmpty DEF DashRun
<1>5. IsList(EventOf(b)) /\ q = ReadEvent(p1, End("Event"))
    BY <1>4, EmptyIsList, RunOfElement DEF DashRun, EventOf, p1, d
<1>6. q = p1
    BY <1>5 DEF ReadEvent, EndElement, End
<1> QED BY <1>3, <1>5, <1>6 DEF EventsKeep, InStream, IsDash

\* Several Events in a row.
LEMMA EventsInTurn ==
    ASSUME NEW breaks, IsList(breaks), NEW lists, lists = [b \in 1 .. Len(breaks) |-> EventOf(breaks[b])],
           NEW p, IsDash(p), InStream(p), p.adBreaks = <<>>, NEW q, q = DashRun(p, FlattenSeq(lists))
    PROVE  IsList(FlattenSeq(lists)) /\ EventsKeep(p, q) /\ q.adBreaks = ShownUpTo(breaks, Len(breaks))
<1> DEFINE n == Len(breaks)
           at(k) == DashRun(p, FirstLists(lists, k))
           So(k, r) == EventsKeep(p, r) /\ InStream(r) /\ r.adBreaks = ShownUpTo(breaks, k)
           T == {k \in 0 .. n : So(k, at(k))}
<1>1. n \in Nat
    BY DEF IsList
<1>2. IsList(lists) /\ Len(lists) = n /\ \A b \in 1 .. n : lists[b] = EventOf(breaks[b])
  <2>1. lists = [b \in 1 .. n |-> lists[b]]
      OBVIOUS
  <2> QED BY <1>1, <2>1, FunctionIsList
<1>3. \A b \in 1 .. Len(lists) : IsList(lists[b])
  <2>1. \A b : IsList(EventOf(b))
    <3> TAKE b
    <3> QED BY EmptyIsList, RunOfElement DEF EventOf
  <2> QED BY <1>2, <2>1
<1>4. IsList(FlattenSeq(lists)) /\ InTurn(lists, "dash", "none", p)
    BY <1>2, <1>3, RunOfLists, Zenon
<1>5. at(0) = p /\ q = at(n)
    BY <1>2, <1>4 DEF InTurn, DashRun
<1>6. \A k \in 0 .. n : k < n => at(k + 1) = DashRun(at(k), lists[k + 1])
    BY <1>2, <1>4 DEF InTurn, DashRun
<1> HIDE DEF at
<1>7. ASSUME NEW k \in 0 .. n, k < n, k \in T PROVE k + 1 \in T
  <2> DEFINE v == k + 1
             r == at(k)
             t == at(v)
             b == breaks[v]
  <2>1. v \in 1 .. n /\ v \in 0 .. n /\ v - 1 = k /\ v \in Nat /\ v >= 1
      BY <1>1, <1>7
  <2>2. t = DashRun(r, EventOf(b)) /\ So(k, r)
      BY <1>2, <1>6, <1>7, <2>1
  <2> HIDE DEF r, t, v, b
  <2>3. IsDash(r) /\ InStream(r)
      BY <2>2 DEF EventsKeep
  <2>4. EventsKeep(r, t) /\ InStream(t) /\ t.adBreaks = Append(r.adBreaks, EventShown(b))
      BY <2>2, <2>3, EventRead
  <2>5. ShownUpTo(breaks, v) = Append(ShownUpTo(breaks, k), EventShown(b))
    <3> DEFINE x == ShownUpTo(breaks, k)
               y == ShownUpTo(breaks, v)
    <3>1. x = [j \in 1 .. v - 1 |-> y[j]] /\ y = [j \in 1 .. v |-> y[j]] /\ y[v] = EventShown(b)
        BY <2>1 DEF ShownUpTo, b
    <3> HIDE DEF x, y
    <3>2. y = Append(x, y[v])
        BY <2>1, <3>1, RowGrows, Zenon
    <3> QED BY <3>1, <3>2 DEF x, y
  <2>6. So(v, t)
      BY <2>2, <2>4, <2>5 DEF EventsKeep
  <2> HIDE DEF So
  <2> QED BY <2>1, <2>6 DEF v, t
<1>8. n \in T
  <2>1. So(0, p)
    <3>1. ShownUpTo(breaks, 0) = <<>>
        BY DEF ShownUpTo
    <3> QED BY <3>1 DEF EventsKeep
  <2>2. 0 \in T
    <3> HIDE DEF So
    <3> QED BY <1>1, <1>5, <2>1
  <2> HIDE DEF T, n
  <2>3. \A k \in 0 .. n : k \in T
      BY <1>1, <1>7, <2>2, CountUp, Zenon
  <2> QED BY <1>1, <2>3
<1>9. So(n, q)
  <2> HIDE DEF So, n
  <2> QED BY <1>5, <1>8
<1> QED BY <1>4, <1>9

\* There are not more ad breaks than segments.
LEMMA BreaksFinite == ASSUME NEW m, Whole(m) PROVE IsFiniteSet(m.adBreaks)
<1> DEFINE B == m.adBreaks
           N == 0 .. SourceLength - 1
           f == [b \in B |-> b.segment]
<1>1. B \subseteq [segment : N, time : Nat] /\ \A x, y \in B : x.segment = y.segment => x = y
    BY DEF Whole, OneBreakEach
<1>2. IsFiniteSet(N)
  <2> DEFINE z == SourceLength - 1
  <2>1. z \in Int
      BY SourceAssumption
  <2> HIDE DEF z
  <2>2. IsFiniteSet(0 .. z)
      BY <2>1, FS_Interval
  <2> QED BY <2>2 DEF z
<1> HIDE DEF B, N
<1>3. f \in [B -> N] /\ \A x, y \in B : f[x] = f[y] => x = y
    BY <1>1
<1>4. f \in Injection(B, N)
    BY <1>3 DEF Injection, IsInjective
<1> HIDE DEF f
<1>5. IsFiniteSet(B)
    BY <1>2, <1>4, FS_Injection
<1> QED BY <1>5 DEF B

StreamAttributes == [schemeIdUri |-> "scte35", timescale |-> TicksPerMs]

LEMMA StreamStart ==
    ASSUME NEW p, IsDash(p), NEW q, q = ReadEvent(p, Start("EventStream", StreamAttributes))
    PROVE  EventsKeep(p, q) /\ InStream(q) /\ q.adBreaks = p.adBreaks
<1> DEFINE d == Start("EventStream", StreamAttributes)
           a == Attr(d, "schemeIdUri", "none")
           b == Attr(d, "timescale", 90000)
<1>1. d.event = "start" /\ d.name = "EventStream"
    BY DEF Start
<1>2. a = "scte35" /\ b = TicksPerMs
    BY DEF Start, Attr, HasAttr, StreamAttributes
<1> HIDE DEF d, a, b
<1>3. ReadEvent(p, d) = StartElement(p, d)
    BY <1>1 DEF ReadEvent
<1>4. StartElement(p, d) = StartEventStream(p, d)
    BY <1>1 DEF StartElement
<1>5. q = IF a = "scte35" THEN [p EXCEPT !.inEvents = TRUE, !.eventScale = b] ELSE p
    BY <1>3, <1>4 DEF StartEventStream, a, b, d
<1>6. q = [p EXCEPT !.inEvents = TRUE, !.eventScale = TicksPerMs]
    BY <1>2, <1>5
<1> QED BY <1>6 DEF EventsKeep, IsDash, InStream

\* The EventStream of an MPD: the ad breaks of the manifest, with their times.
LEMMA EventStreamRead ==
    ASSUME NEW m, Whole(m), NEW p, IsDash(p), p.adBreaks = <<>>,
           NEW events, events = EventStream(m, TicksPerMs), NEW q, q = DashRun(p, events)
    PROVE  /\ IsList(events) /\ EventsKeep(p, q)
           /\ Range(q.adBreaks) = {EventShown(b) : b \in m.adBreaks}
<1> DEFINE B == m.adBreaks
           breaks == InOrder(B, "segment")
           n == Cardinality(B)
<1>1. /\ n \in Nat /\ IsList(breaks) /\ Len(breaks) = n
      /\ \A i \in 1 .. n : breaks[i] \in B
      /\ \A x \in B : \E i \in 1 .. n : breaks[i] = x
  <2>1. IsFiniteSet(B) /\ B = m.adBreaks
      BY BreaksFinite
  <2>2. \A x \in B : x.segment \in Nat
      BY SourceAssumption DEF Whole
  <2>3. \A x, y \in B : x.segment = y.segment => x = y
      BY DEF Whole, OneBreakEach
  <2> HIDE DEF B
  <2>4. /\ \A x \in B : x["segment"] \in Nat
        /\ \A x, y \in B : x["segment"] = y["segment"] => x = y
      BY <2>2, <2>3
  <2> QED BY <2>1, <2>4, OrderOfAll
<1> HIDE DEF n
<1>2. Range(ShownUpTo(breaks, n)) = {EventShown(b) : b \in B}
  <2> DEFINE s == ShownUpTo(breaks, n)
  <2>1. DOMAIN s = 1 .. n /\ \A i \in 1 .. n : s[i] = EventShown(breaks[i])
      BY DEF ShownUpTo
  <2> HIDE DEF s, breaks, B, EventShown
  <2> QED BY <1>1, <2>1 DEF Range, s
<1>3. CASE breaks = <<>>
  <2>1. n = 0 /\ events = <<>>
      BY <1>1, <1>3 DEF EventStream
  <2>2. B = {}
      BY <1>1, <2>1
  <2>3. q = p
      BY <2>1, RunOfEmpty DEF DashRun
  <2>4. Range(p.adBreaks) = {}
      BY DEF Range
  <2> QED BY <2>1, <2>2, <2>3, <2>4, EmptyIsList DEF EventsKeep
<1>4. CASE breaks # <<>>
  <2> DEFINE lists == [b \in 1 .. Len(breaks) |-> EventOf(breaks[b])]
             a == [schemeIdUri |-> "scte35", timescale |-> TicksPerMs]
             p1 == ReadEvent(p, Start("EventStream", a))
             p2 == DashRun(p1, FlattenSeq(lists))
  <2>1. events = Element("EventStream", a, FlattenSeq(lists))
      BY <1>4 DEF EventStream, EventOf, EventAttributes
  <2>2. EventsKeep(p, p1) /\ InStream(p1) /\ p1.adBreaks = <<>>
    <3>1. p1 = ReadEvent(p, Start("EventStream", StreamAttributes))
        BY DEF StreamAttributes
    <3> HIDE DEF B, breaks, lists, a, p1, p2
    <3> QED BY <3>1, StreamStart
  <2> HIDE DEF p1
  <2>3. IsDash(p1)
      BY <2>2 DEF EventsKeep
  <2>4. IsList(FlattenSeq(lists)) /\ EventsKeep(p1, p2) /\ p2.adBreaks = ShownUpTo(breaks, n)
    <3> DEFINE o == breaks
               l == lists
    <3>1. IsList(o) /\ l = [b \in 1 .. Len(o) |-> EventOf(o[b])] /\ Len(o) = n
        BY <1>1
    <3>2. p2 = DashRun(p1, FlattenSeq(l))
        OBVIOUS
    <3> HIDE DEF o, l, p2
    <3>3. IsList(FlattenSeq(l)) /\ EventsKeep(p1, p2) /\ p2.adBreaks = ShownUpTo(o, Len(o))
        BY <2>2, <2>3, <3>1, <3>2, EventsInTurn
    <3> QED BY <3>1, <3>3 DEF o, l
  <2> HIDE DEF lists, a
  <2>5. IsList(events) /\ q = ReadEvent(p2, End("EventStream"))
      BY <2>1, <2>4, RunOfElement DEF DashRun, p1
  <2> HIDE DEF p2
  <2>6. q = [p2 EXCEPT !.inEvents = FALSE]
      BY <2>5 DEF ReadEvent, EndElement, End
  <2>7. EventsKeep(p, q) /\ q.adBreaks = p2.adBreaks
      BY <2>2, <2>4, <2>6 DEF EventsKeep, IsDash
  <2> QED BY <1>2, <2>4, <2>5, <2>7
<1> QED BY <1>3, <1>4

-----------------------------------------------------------------------------
(* An MPD *)

OfType(type) == Variants(OutputVariants, type)

\* build_variants_from_tracks and render: the variants of a set are those of its
\* type.
LEMMA VariantsOfType ==
    ASSUME NEW type
    PROVE  /\ IsList(OfType(type))
           /\ OfType(type) # <<>> <=> \E v \in 1 .. Len(OutputVariants) : OutputVariants[v].type = type
           /\ \A k \in 1 .. Len(OfType(type)) :
                 \E v \in 1 .. Len(OutputVariants) : OutputVariants[v] = OfType(type)[k]
<1> DEFINE o == OutputVariants
           S == Range(o)
           I == {v \in 1 .. Len(o) : o[v].type = type}
           c == Chosen(o, I)
<1>1. o \in Seq(S)
    BY OutputAssumption DEF IsList
<1>2. OfType(type) = c
    BY DEF OfType, Variants
<1>3. \A v \in 1 .. Len(o) : v \in I <=> o[v].type = type
    OBVIOUS
<1> HIDE DEF o, S, I
<1>4. c \in Seq(S)
    BY <1>1, ChosenType
<1>5. IsList(c)
    BY <1>4, SeqIsList
<1>6. ASSUME NEW v \in 1 .. Len(o), o[v].type = type PROVE c # <<>>
  <2>1. v \in I
      BY <1>3, <1>6
  <2>2. \E k \in 1 .. Len(c) : c[k] = o[v]
      BY <1>1, <2>1, ChosenAt
  <2> HIDE DEF c
  <2>3. Len(c) \in Nat /\ Len(c) # 0
      BY <1>4, <2>2
  <2> QED BY <2>3
<1>7. ASSUME \A v \in 1 .. Len(o) : o[v].type # type PROVE c = <<>>
    BY <1>1, <1>3, <1>7, ChosenNone
<1>8. \A k \in 1 .. Len(c) : \E v \in 1 .. Len(o) : o[v] = c[k]
    BY <1>1, ChosenFrom
<1> HIDE DEF c
<1> QED BY <1>2, <1>5, <1>6, <1>7, <1>8 DEF o

\* build_content_protection_xml.
LEMMA ProtectionQuiet == Only(ContentProtection(OutputDrm), QuietNames)
<1> DEFINE lists == [i \in 1 .. OutputDrm.systems |->
                        Element("ContentProtection", [schemeIdUri |-> "system"], <<>>)]
           first == Empty("ContentProtection", [schemeIdUri |-> "mp4protection", value |-> OutputDrm.scheme])
<1>1. "ContentProtection" \in QuietNames
    BY DEF QuietNames
<1>2. Only(Element("ContentProtection", [schemeIdUri |-> "system"], <<>>), QuietNames)
  <2> DEFINE a == [schemeIdUri |-> "system"]
  <2> HIDE DEF a
  <2>1. Only(<<>>, QuietNames)
      BY OnlyNothing
  <2>2. Only(Element("ContentProtection", a, <<>>), QuietNames)
      BY <1>1, <2>1, OnlyElement, Zenon
  <2> QED BY <2>2 DEF a
<1>3. Only(FlattenSeq(lists), QuietNames)
  <2> DEFINE n == OutputDrm.systems
             e == Element("ContentProtection", [schemeIdUri |-> "system"], <<>>)
  <2>1. n \in Nat
      BY OutputAssumption
  <2>2. lists = [i \in 1 .. n |-> lists[i]] /\ \A i \in 1 .. n : lists[i] = e
      OBVIOUS
  <2>3. Only(e, QuietNames)
      BY <1>2
  <2> HIDE DEF lists, e, n
  <2>4. IsList(lists) /\ Len(lists) = n
      BY <2>1, <2>2, FunctionIsList
  <2>5. \A i \in 1 .. Len(lists) : Only(lists[i], QuietNames)
      BY <2>2, <2>3, <2>4
  <2> QED BY <2>4, <2>5, OnlyFlat
<1>4. Only(<<first>>, QuietNames)
  <2>1. first.event \in {"start", "end"} /\ first.name \in QuietNames
      BY <1>1 DEF Empty
  <2> HIDE DEF first
  <2> QED BY <2>1, OnlyOne
<1>5. ContentProtection(OutputDrm) = <<>> \/ ContentProtection(OutputDrm) = Joined(<<first>>, FlattenSeq(lists))
    BY DEF ContentProtection, Joined
<1> HIDE DEF first, lists
<1>6. Only(Joined(<<first>>, FlattenSeq(lists)), QuietNames)
    BY <1>3, <1>4, OnlyJoined, Zenon
<1> QED BY <1>5, <1>6, OnlyNothing

\* The sets of render, one after the other, each there or not.
VideoSet(m)  == IF OfType("video") # <<>>
                THEN SetOf(m, "video", OfType("video"), ContentProtection(OutputDrm)) ELSE <<>>
TrickSet(m)  == IF OfType("video") # <<>> /\ m.iframes # {}
                THEN SetOf(m, "video", OfType("video"), <<>>) ELSE <<>>
AudioSet(m)  == IF OfType("audio") # <<>>
                THEN SetOf(m, "audio", OfType("audio"), ContentProtection(OutputDrm)) ELSE <<>>
TextSet(m)   == IF OfType("text") # <<>> THEN SetOf(m, "text", OfType("text"), <<>>) ELSE <<>>
PeriodOf(m) ==
    Joined(Joined(Joined(Joined(EventStream(m, TicksPerMs), VideoSet(m)), TrickSet(m)),
                  AudioSet(m)), TextSet(m))
MpdAttributes(m) == [type |-> IF m.complete THEN "static" ELSE "dynamic"]

LEMMA MpdIsElement ==
    ASSUME NEW m
    PROVE  DashDocument(m) = Element("MPD", MpdAttributes(m), Element("Period", NoAttributes, PeriodOf(m)))
BY DEF DashDocument, RenderDash, MpdAttributes, PeriodOf, VideoSet, TrickSet, AudioSet, TextSet, OfType,
       SetOf, Joined

LEMMA SetsNames ==
    ASSUME NEW m, Whole(m)
    PROVE  /\ Only(VideoSet(m), SetNames) /\ Only(TrickSet(m), SetNames)
           /\ Only(AudioSet(m), SetNames) /\ Only(TextSet(m), SetNames)
<1>1. \A type : IsList(OfType(type))
    BY VariantsOfType
<1>2. Only(<<>>, QuietNames) /\ Only(<<>>, SetNames) /\ Only(ContentProtection(OutputDrm), QuietNames)
    BY OnlyNothing, ProtectionQuiet
<1>3. \A type : /\ Only(SetOf(m, type, OfType(type), <<>>), SetNames)
                /\ Only(SetOf(m, type, OfType(type), ContentProtection(OutputDrm)), SetNames)
    BY <1>1, <1>2, SetNamesOnly
<1> QED BY <1>2, <1>3 DEF VideoSet, TrickSet, AudioSet, TextSet

\* The set whose template is read, and the names in it.
MainType  == IF OfType("video") # <<>> THEN "video" ELSE OutputVariants[1].type
MainInit  == SetInit(MainType, OfType(MainType))
MainMedia == SetMedia(MainType, OfType(MainType))
MainSegments(m, p, q) == SegmentsOf(m, MainInit, MainMedia, p, q)

LEMMA LaterSets ==
    ASSUME NEW m, NEW p, NEW q, MainSegments(m, p, q), Settled(q),
           NEW events, Only(events, SetNames), NEW r, r = DashRun(q, events)
    PROVE  MainSegments(m, p, r) /\ Settled(r)
<1>1. IsDash(q)
    BY DEF MainSegments, SegmentsOf, HasTemplate
<1>2. DashKeeps(q, r) /\ Settled(r)
    BY <1>1, LockedRead
<1> QED BY <1>2 DEF MainSegments, SegmentsOf, HasTemplate, DashKeeps

\* The sets of an output, whichever there are: those behind the set that is read
\* change nothing.
LEMMA SetsRead ==
    ASSUME MsDurations, OneTemplate, NEW m, Whole(m), NEW p, Untouched(p),
           NEW a, a = DashRun(p, VideoSet(m)), NEW b, b = DashRun(a, TrickSet(m)),
           NEW c, c = DashRun(b, AudioSet(m)), NEW d, d = DashRun(c, TextSet(m))
    PROVE  MainSegments(m, p, d)
<1>1. /\ Only(VideoSet(m), SetNames) /\ Only(TrickSet(m), SetNames)
      /\ Only(AudioSet(m), SetNames) /\ Only(TextSet(m), SetNames)
    BY SetsNames
<1>2. \A type : IsList(OfType(type))
    BY VariantsOfType
<1>3. \A x : DashRun(x, <<>>) = x
    BY RunOfEmpty DEF DashRun
<1>4. Only(<<>>, QuietNames) /\ Only(ContentProtection(OutputDrm), QuietNames)
    BY OnlyNothing, ProtectionQuiet
<1>5. ASSUME NEW type \in {"video", "audio", "text"}, type = MainType, OfType(type) # <<>>,
             NEW protection, Only(protection, QuietNames),
             NEW r, r = DashRun(p, SetOf(m, type, OfType(type), protection))
      PROVE  MainSegments(m, p, r) /\ (type = "video" => Settled(r))
  <2> DEFINE o == OfType(type)
  <2>1. IsList(o) /\ o # <<>> /\ r = DashRun(p, SetOf(m, type, o, protection))
      BY <1>2, <1>5
  <2> HIDE DEF o
  <2>2. SegmentsOf(m, SetInit(type, o), SetMedia(type, o), p, r) /\ (type = "video" => Settled(r))
      BY <1>5, <2>1, FirstSetRead
  <2> QED BY <1>5, <2>2 DEF MainSegments, MainInit, MainMedia, o
<1>6. CASE OfType("video") # <<>>
  <2>1. MainType = "video" /\ a = DashRun(p, SetOf(m, "video", OfType("video"), ContentProtection(OutputDrm)))
      BY <1>6 DEF MainType, VideoSet
  <2>2. MainSegments(m, p, a) /\ Settled(a)
      BY <1>4, <1>5, <1>6, <2>1
  <2>3. MainSegments(m, p, b) /\ Settled(b)
      BY <1>1, <2>2, LaterSets
  <2>4. MainSegments(m, p, c) /\ Settled(c)
      BY <1>1, <2>3, LaterSets
  <2> QED BY <1>1, <2>4, LaterSets
<1>7. CASE OfType("video") = <<>>
  <2> DEFINE first == OutputVariants[1]
  <2>1. /\ first.type \in {"audio", "text"} /\ OfType(first.type) # <<>>
        /\ \A type : type # first.type => OfType(type) = <<>>
    <3>1. Len(OutputVariants) \in Nat /\ Len(OutputVariants) >= 1
        BY OutputAssumption DEF OneTemplate, IsList
    <3>2. \A v \in 1 .. Len(OutputVariants) : OutputVariants[v].type # "video"
        BY <1>7, VariantsOfType
    <3>3. \A v \in 1 .. Len(OutputVariants) : OutputVariants[v].type = first.type
        BY <3>1, <3>2 DEF OneTemplate
    <3>4. first.type \in {"audio", "text"}
        BY <3>1, <3>2, OutputAssumption
    <3> HIDE DEF first
    <3> QED BY <3>1, <3>3, <3>4, VariantsOfType
  <2> HIDE DEF first
  <2>2. a = p /\ b = p /\ MainType = first.type
      BY <1>3, <1>7 DEF VideoSet, TrickSet, MainType, first
  <2>3. CASE first.type = "audio"
    <3>1. c = DashRun(p, SetOf(m, "audio", OfType("audio"), ContentProtection(OutputDrm))) /\ d = c
        BY <1>3, <2>1, <2>2, <2>3 DEF AudioSet, TextSet
    <3> QED BY <1>4, <1>5, <2>1, <2>2, <2>3, <3>1
  <2>4. CASE first.type = "text"
    <3>1. d = DashRun(p, SetOf(m, "text", OfType("text"), <<>>))
        BY <1>3, <2>1, <2>2, <2>4 DEF AudioSet, TextSet
    <3> QED BY <1>4, <1>5, <2>1, <2>2, <2>4, <3>1
  <2> QED BY <2>1, <2>3, <2>4
<1> QED BY <1>6, <1>7

\* parse_dash_manifest reads the whole of an MPD of the output.
LEMMA MpdRead ==
    ASSUME MsDurations, OneTemplate, NEW m, Whole(m), NEW q, q = DashRun(DashStart, DashDocument(m))
    PROVE  /\ IsList(DashDocument(m))
           /\ HasTemplate(m, MainInit, MainMedia, q) /\ q.live = ~ m.complete /\ q.base = Missing
           /\ Range(q.adBreaks) = {EventShown(b) : b \in m.adBreaks}
<1> DEFINE d == Start("MPD", MpdAttributes(m))
           p1 == ReadEvent(DashStart, d)
           p2 == ReadEvent(p1, Start("Period", NoAttributes))
           e  == EventStream(m, TicksPerMs)
           p3 == DashRun(p2, e)
           p4 == DashRun(p3, VideoSet(m))
           p5 == DashRun(p4, TrickSet(m))
           p6 == DashRun(p5, AudioSet(m))
           p7 == DashRun(p6, TextSet(m))
           p8 == ReadEvent(p7, End("Period"))
<1>1. Untouched(p1) /\ p1.live = ~ m.complete /\ p1.base = Missing /\ p1.adBreaks = <<>>
  <2> DEFINE live == Attr(d, "type", "static") = "dynamic"
  <2>1. d.event = "start" /\ d.name = "MPD" /\ ~ HasAttr(d, "mediaPresentationDuration")
      BY DEF Start, HasAttr, MpdAttributes
  <2>2. live = ~ m.complete
    <3>1. Attr(d, "type", "static") = IF m.complete THEN "static" ELSE "dynamic"
        BY DEF Start, Attr, HasAttr, MpdAttributes
    <3>2. m.complete \in BOOLEAN
        BY DEF Whole
    <3> QED BY <3>1, <3>2
  <2> HIDE DEF d
  <2>3. p1 = StartMpd(DashStart, d)
      BY <2>1 DEF ReadEvent, StartElement
  <2>4. p1 = [DashStart EXCEPT !.live = live, !.total = @]
      BY <2>1, <2>3 DEF StartMpd, Attr
  <2> HIDE DEF live
  <2>5. /\ Untouched(DashStart) /\ DashStart.base = Missing /\ DashStart.adBreaks = <<>>
      BY DEF DashStart, Untouched, IsDash
  <2> QED BY <2>2, <2>4, <2>5 DEF Untouched, IsDash
<1> HIDE DEF p1
<1>2. p2 = p1
    BY DEF ReadEvent, StartElement, Start
<1> HIDE DEF p2, e
<1>3. /\ IsList(e) /\ EventsKeep(p1, p3) /\ Range(p3.adBreaks) = {EventShown(b) : b \in m.adBreaks}
    BY <1>1, <1>2, EventStreamRead DEF Untouched, e
<1> HIDE DEF p3
<1>4. Untouched(p3) /\ p3.live = ~ m.complete /\ p3.base = Missing
    BY <1>1, <1>3 DEF EventsKeep, Untouched
<1>5. MainSegments(m, p3, p7)
    BY <1>4, SetsRead
<1>6. IsList(PeriodOf(m)) /\ DashRun(p2, PeriodOf(m)) = p7
  <2> DEFINE v == VideoSet(m)
             t == TrickSet(m)
             u == AudioSet(m)
             w == TextSet(m)
             e1 == Joined(e, v)
             e2 == Joined(e1, t)
             e3 == Joined(e2, u)
             e4 == Joined(e3, w)
  <2>1. IsList(v) /\ IsList(t) /\ IsList(u) /\ IsList(w)
      BY SetsNames DEF Only
  <2>2. e4 = PeriodOf(m)
      BY DEF PeriodOf, e
  <2>3. p4 = DashRun(p3, v) /\ p5 = DashRun(p4, t) /\ p6 = DashRun(p5, u) /\ p7 = DashRun(p6, w)
      OBVIOUS
  <2> HIDE DEF v, t, u, w, p4, p5, p6, p7
  <2>4. IsList(e1) /\ DashRun(p2, e1) = p4
      BY <1>3, <2>1, <2>3, RunOfJoined, JoinedIsList DEF DashRun, p3, IsJoin
  <2> HIDE DEF e1
  <2>5. IsList(e2) /\ DashRun(p2, e2) = p5
      BY <2>1, <2>3, <2>4, RunOfJoined, JoinedIsList DEF DashRun, IsJoin
  <2> HIDE DEF e2
  <2>6. IsList(e3) /\ DashRun(p2, e3) = p6
      BY <2>1, <2>3, <2>5, RunOfJoined, JoinedIsList DEF DashRun, IsJoin
  <2> HIDE DEF e3
  <2>7. IsList(e4) /\ DashRun(p2, e4) = p7
      BY <2>1, <2>3, <2>6, RunOfJoined, JoinedIsList DEF DashRun, IsJoin
  <2> HIDE DEF e4
  <2> QED BY <2>2, <2>7
<1> HIDE DEF p4, p5, p6, p7
<1>7. /\ IsList(Element("Period", NoAttributes, PeriodOf(m)))
      /\ DashRun(p1, Element("Period", NoAttributes, PeriodOf(m))) = p8
    BY <1>6, RunOfElement DEF DashRun, p2
<1>8. IsList(DashDocument(m)) /\ q = ReadEvent(p8, End("MPD"))
    BY <1>7, MpdIsElement, RunOfElement DEF DashRun, p1, d
<1>9. q = p7
    BY <1>8 DEF ReadEvent, EndElement, End
<1> QED BY <1>3, <1>4, <1>5, <1>8, <1>9 DEF MainSegments, SegmentsOf

\* What parse_dash_manifest returns at the end of its events.
DashResult(p, url) ==
    LET base == IF p.base.present THEN Join(url, p.base.url).url ELSE url
    IN  CASE p.media.present -> FromTemplate(p, base)
          [] ~p.media.present /\ p.indexed.url.present -> FromSegmentBase(p, base)
          [] OTHER -> ErrSource

LEMMA DashParsing ==
    ASSUME NEW events, NEW url
    PROVE  ParseDashManifest(events, url) = DashResult(DashEnd(DashStart, events), url)
BY DEF ParseDashManifest, DashResult, DashEnd

\* The names of files resolve, with or without a number in them.
LEMMA FileResolves ==
    ASSUME NEW reference, IsFileName(reference), NEW n
    PROVE  /\ Join(OutputUrl, reference).ok = TRUE
           /\ IsFileName(ReplaceNumber(reference, n))
<1>1. ~ HoldsUrl(reference)
  <2>1. Len(reference.query) = 0
      BY DEF IsFileName, IsReference
  <2> QED BY <2>1 DEF HoldsUrl
<1>2. Join(OutputUrl, reference).ok = TRUE
    BY <1>1 DEF Join, Resolved
<1>3. IsFileName(ReplaceNumber(reference, n))
    BY DEF IsFileName, IsReference, ReplaceNumber
<1> QED BY <1>2, <1>3

\* The names in the template read are those of files; a segment's name is that
\* of its number.
LEMMA MainNames ==
    ASSUME OneTemplate
    PROVE  /\ IsFileName(MainInit) /\ IsFileName(MainMedia)
           /\ \A n \in 0 .. SourceLength - 1 :
                 ReplaceNumber(MainMedia, n)
                     = IF \E v \in 1 .. Len(OfType("video")) : OfType("video")[v].prefixed
                       THEN ReplaceNumber(OfType("video")[1].media, n) ELSE OutputUris.segment[n]
<1>1. \A e : IsFileName(RootUri(e))
    BY DEF IsFileName, IsReference, RootUri, Reference
<1>2. OutputUris.init = RootUri(Plain("init")) /\ OutputUris.media = RootUri(Numbered("segment", Number))
    BY DEF OutputUris
<1>3. ASSUME NEW n \in 0 .. SourceLength - 1
      PROVE  ReplaceNumber(OutputUris.media, n) = OutputUris.segment[n]
  <2>1. OutputUris.segment[n] = RootUri(Numbered("segment", n))
      BY DEF OutputUris
  <2>2. ReplaceNumber(RootUri(Numbered("segment", Number)), n) = RootUri(Numbered("segment", n))
    <3> DEFINE a == Numbered("segment", Number)
               b == Numbered("segment", n)
               r == RootUri(a)
               path == [i \in 1 .. 2 |-> IF r.path[i].number = Number
                                         THEN [r.path[i] EXCEPT !.number = n] ELSE r.path[i]]
    <3>1. r.path = <<Directory, a>> /\ Len(r.path) = 2
        BY DEF RootUri, Reference
    <3>2. ReplaceNumber(r, n) = [r EXCEPT !.path = path]
        BY <3>1 DEF ReplaceNumber
    <3>3. path[1] = Directory
        BY <3>1 DEF Directory, Plain, NoNumber, Number
    <3>4. path[2] = b
        BY <3>1 DEF Numbered
    <3>5. path = <<Directory, b>>
        BY <3>3, <3>4
    <3> HIDE DEF path
    <3> QED BY <3>2, <3>5 DEF RootUri, Reference
  <2> QED BY <1>2, <2>1, <2>2
<1>4. CASE OwnTemplates(MainType, OfType(MainType))
  <2> DEFINE o == OfType("video")
  <2>1. MainType = "video" /\ MainInit = o[1].init /\ MainMedia = o[1].media
        /\ \E v \in 1 .. Len(o) : o[v].prefixed
      BY <1>4 DEF OwnTemplates, MainInit, MainMedia, SetInit, SetMedia
  <2>2. \A k \in 1 .. Len(o) : \E v \in 1 .. Len(OutputVariants) : OutputVariants[v] = o[k]
      BY VariantsOfType
  <2>3. 1 \in 1 .. Len(o)
    <3>1. Len(o) \in Nat
        BY VariantsOfType DEF IsList
    <3> HIDE DEF o
    <3> QED BY <2>1, <3>1
  <2>4. PICK v \in 1 .. Len(OutputVariants) : OutputVariants[v] = o[1]
      BY <2>2, <2>3
  <2> HIDE DEF o
  <2>5. IsFileName(o[1].init) /\ IsFileName(o[1].media)
      BY <2>4, OutputAssumption
  <2> QED BY <2>1, <2>5 DEF o
<1>5. CASE ~ OwnTemplates(MainType, OfType(MainType))
  <2>1. MainInit = OutputUris.init /\ MainMedia = OutputUris.media
      BY <1>5 DEF MainInit, MainMedia, SetInit, SetMedia
  <2>2. ~ \E v \in 1 .. Len(OfType("video")) : OfType("video")[v].prefixed
    <3>1. CASE OfType("video") # <<>>
        BY <1>5, <3>1 DEF OwnTemplates, MainType
    <3>2. CASE OfType("video") = <<>>
        BY <3>2
    <3> QED BY <3>1, <3>2
  <2> QED BY <1>1, <1>2, <1>3, <2>1, <2>2
<1> QED BY <1>4, <1>5

\* The durations of a timeline without repeats.
LEMMA WindowDurations ==
    ASSUME NEW m, Whole(m), NEW init, NEW media, NEW p, HasTemplate(m, init, media, p)
    PROVE  TemplateDurations(p) = [i \in 1 .. Len(m.listed) |-> Time(ToMs(m.listed[i].duration), 1)]
<1> DEFINE n == Len(m.listed)
           ds == [i \in 1 .. n |-> Time(ToMs(m.listed[i].duration), 1)]
           t == TimelineUpTo(m, n)
<1>1. n \in Nat
    BY ListedSegments
<1>2. p.timeline = t /\ p.uniform = 0 /\ p.scale = 1
    BY DEF HasTemplate
<1>3. IsList(t) /\ Len(t) = n /\ \A i \in 1 .. n : t[i] = TimelineItem(m, i)
  <2>1. t = [i \in 1 .. n |-> t[i]] /\ \A i \in 1 .. n : t[i] = TimelineItem(m, i)
      BY DEF TimelineUpTo
  <2> HIDE DEF t, n
  <2> QED BY <1>1, <2>1, FunctionIsList
<1>4. CASE n = 0
  <2>1. t = <<>>
      BY <1>3, <1>4 DEF IsList
  <2>2. TemplateDurations(p) = <<>>
    <3> HIDE DEF t
    <3> QED BY <1>2, <2>1 DEF TemplateDurations
  <2>3. ds = <<>>
      BY <1>4
  <2> QED BY <2>2, <2>3
<1>5. CASE n # 0
  <2> DEFINE lists == [i \in 1 .. Len(p.timeline) |->
                          [k \in 1 .. p.timeline[i].r + 1 |-> Time(p.timeline[i].d, p.scale)]]
             singles == [i \in 1 .. Len(ds) |-> <<ds[i]>>]
  <2>1. TemplateDurations(p) = FlattenSeq(lists)
    <3>1. t # <<>>
        BY <1>3, <1>5
    <3> HIDE DEF t
    <3> QED BY <1>2, <3>1 DEF TemplateDurations, TimelineDurations
  <2>2. IsList(ds) /\ Len(ds) = n /\ \A i \in 1 .. n : ds[i] = Time(ToMs(m.listed[i].duration), 1)
    <3>1. ds = [i \in 1 .. n |-> ds[i]] /\ \A i \in 1 .. n : ds[i] = Time(ToMs(m.listed[i].duration), 1)
        OBVIOUS
    <3> HIDE DEF ds, n
    <3> QED BY <1>1, <3>1, FunctionIsList
  <2>3. \A i \in 1 .. n : [k \in 1 .. t[i].r + 1 |-> Time(t[i].d, 1)] = <<ds[i]>>
    <3> SUFFICES ASSUME NEW i \in 1 .. n
                 PROVE  [k \in 1 .. t[i].r + 1 |-> Time(t[i].d, 1)] = <<ds[i]>>
        OBVIOUS
    <3>1. t[i].r + 1 = 1 /\ Time(t[i].d, 1) = ds[i]
      <4> HIDE DEF t, ds
      <4>1. t[i] = TimelineItem(m, i) /\ ds[i] = Time(ToMs(m.listed[i].duration), 1)
          BY <1>3, <2>2
      <4>2. TimelineItem(m, i).d = ToMs(m.listed[i].duration) /\ TimelineItem(m, i).r = 0
          BY DEF TimelineItem
      <4> QED BY <4>1, <4>2
    <3> HIDE DEF t, ds
    <3>2. [k \in 1 .. 1 |-> ds[i]] = <<ds[i]>>
        BY OneOrNone
    <3> QED BY <3>1, <3>2
  <2>4. lists = singles
    <3> HIDE DEF t, ds
    <3> QED BY <1>2, <1>3, <2>2, <2>3
  <2>5. FlattenSeq(singles) = ds
    <3> HIDE DEF ds
    <3>1. ds \in Seq(Range(ds))
        BY <2>2 DEF IsList
    <3> QED BY <3>1, FlattenOfSingles
  <2> QED BY <2>1, <2>4, <2>5
<1> QED BY <1>4, <1>5

\* The name of a segment by the template that is read.
MainSegment(n) == Join(OutputUrl, ReplaceNumber(MainMedia, n)).url

\* A source with what an MPD says of its segments and ad breaks.
DashWindow(m, source) ==
    /\ source.ok = TRUE /\ source.live = ~ m.complete
    /\ source.urls = [i \in 1 .. Len(m.listed) |-> MainSegment(m.listed[i].number)]
    /\ source.durations = [i \in 1 .. Len(m.listed) |-> Time(ToMs(m.listed[i].duration), 1)]
    /\ Range(source.adBreaks) = {EventShown(b) : b \in m.adBreaks}

\* parse_dash_manifest on an MPD of the output.
LEMMA DashParsed ==
    ASSUME MsDurations, OneTemplate, NEW m, Whole(m),
           NEW source, source = ParseDashManifest(DashDocument(m), OutputUrl)
    PROVE  DashWindow(m, source)
<1> DEFINE n == Len(m.listed)
           events == DashDocument(m)
           p == DashRun(DashStart, events)
           ds == [i \in 1 .. n |-> Time(ToMs(m.listed[i].duration), 1)]
           name(i) == ReplaceNumber(p.media.url, p.startNumber + i - 1)
           joined == [i \in 1 .. n |-> Join(OutputUrl, name(i))]
<1>1. n \in Nat
    BY ListedSegments
<1>2. /\ IsList(events) /\ HasTemplate(m, MainInit, MainMedia, p)
      /\ p.live = ~ m.complete /\ p.base = Missing
      /\ Range(p.adBreaks) = {EventShown(b) : b \in m.adBreaks}
    BY MpdRead
<1> HIDE DEF p, events
<1>3. source = DashResult(p, OutputUrl)
  <2>1. Len(events) \in Nat
      BY <1>2 DEF IsList
  <2>2. DashEnd(DashStart, events) = p
      BY <2>1, DashReading DEF DashRun, p
  <2> QED BY <2>2, DashParsing DEF events
<1>4. /\ p.media = SomeUrl(MainMedia) /\ p.init = SomeUrl(MainInit) /\ p.startNumber = m.startNumber
    BY <1>2 DEF HasTemplate
<1>5. source = FromTemplate(p, OutputUrl)
    BY <1>2, <1>3, <1>4 DEF DashResult, SomeUrl, Missing
<1>6. TemplateDurations(p) = ds
    BY <1>2, WindowDurations
<1>7. Len(ds) = n
  <2>1. ds = [i \in 1 .. n |-> ds[i]]
      OBVIOUS
  <2> HIDE DEF ds, n
  <2> QED BY <1>1, <2>1, FunctionIsList
<1>8. /\ p.init.present /\ Join(OutputUrl, p.init.url).ok = TRUE
      /\ \A i \in 1 .. n : joined[i].ok = TRUE
  <2>1. IsFileName(MainInit) /\ IsFileName(MainMedia)
      BY MainNames
  <2>2. \A k : Join(OutputUrl, ReplaceNumber(MainMedia, k)).ok = TRUE
      BY <2>1, FileResolves
  <2>3. Join(OutputUrl, MainInit).ok = TRUE
      BY <2>1, FileResolves
  <2> QED BY <1>4, <2>2, <2>3 DEF SomeUrl
<1>9. Len(joined) = n
  <2>1. joined = [i \in 1 .. n |-> joined[i]]
      OBVIOUS
  <2> HIDE DEF joined, n
  <2> QED BY <1>1, <2>1, FunctionIsList
<1>10. source = DashSource(p, Join(OutputUrl, p.init.url).url, [i \in 1 .. n |-> joined[i].url], ds, NotIndexed)
  <2> DEFINE durations == TemplateDurations(p)
             j == [i \in 1 .. Len(durations) |-> Join(OutputUrl, name(i))]
  <2>1. durations = ds /\ j = joined
      BY <1>6, <1>7
  <2>2. source = IF ~ p.init.present \/ ~ Join(OutputUrl, p.init.url).ok
                    \/ \E i \in 1 .. Len(j) : ~ j[i].ok
                 THEN ErrSource
                 ELSE DashSource(p, Join(OutputUrl, p.init.url).url, [i \in 1 .. Len(j) |-> j[i].url],
                                 durations, NotIndexed)
      BY <1>5 DEF FromTemplate
  <2> HIDE DEF durations, j, joined, ds
  <2> QED BY <1>8, <1>9, <2>1, <2>2
<1>11. [i \in 1 .. n |-> joined[i].url] = [i \in 1 .. n |-> MainSegment(m.listed[i].number)]
  <2>1. \A i \in 1 .. n : m.listed[i].number = p.startNumber + i - 1
      BY <1>4 DEF Whole
  <2>2. \A i \in 1 .. n : joined[i].url = MainSegment(m.listed[i].number)
      BY <1>4, <2>1 DEF MainSegment, SomeUrl
  <2> HIDE DEF joined
  <2> QED BY <2>2
<1> HIDE DEF joined
<1> QED BY <1>2, <1>10, <1>11 DEF DashSource, DashWindow

-----------------------------------------------------------------------------
(* What a job reads is what the manifest was rendered from *)

\* What was read of one of the output's manifests is what the parser makes of
\* the manifest as it was published, whatever was published after it.
ReadInv ==
    /\ read.origin = "hls" =>
          /\ read.of \in 1 .. Len(published)
          /\ read.source = ParseHlsManifest(HlsDocument(published[read.of]), OutputUrl, TicksPerMs)
    /\ read.origin = "dash" =>
          /\ read.of \in 1 .. Len(published)
          /\ read.source = ParseDashManifest(DashDocument(published[read.of]), OutputUrl)

LEMMA ReadTurn == ASSUME TypeInv, ReadInv, [ReaderNext]_readerVars PROVE ReadInv'
<1>1. ASSUME NEW o, read' = [origin |-> "none"] PROVE ReadInv'
    BY <1>1 DEF ReadInv
<1>2. CASE OutputStep \/ DoneReading
    BY <1>1, <1>2 DEF OutputStep, DoneReading, Unread
<1>3. CASE FetchOutput
  <2> DEFINE n == Len(published)
             m == published[n]
             h == ParseHlsManifest(HlsDocument(m), OutputUrl, TicksPerMs)
             d == ParseDashManifest(DashDocument(m), OutputUrl)
  <2>1. published' = published /\ Last(published) = m /\ n \in 1 .. n
    <3>1. published # <<>> /\ published \in Seq(Manifests)
        BY <1>3 DEF FetchOutput, TypeInv
    <3> QED BY <1>3, <3>1 DEF FetchOutput, vars, Last
  <2>2. \/ read' = [origin |-> "hls", of |-> n, source |-> h]
        \/ read' = [origin |-> "dash", of |-> n, source |-> d]
      BY <1>3, <2>1 DEF FetchOutput
  <2>3. h = ParseHlsManifest(HlsDocument(published'[n]), OutputUrl, TicksPerMs)
        /\ d = ParseDashManifest(DashDocument(published'[n]), OutputUrl)
        /\ n \in 1 .. Len(published')
      BY <2>1
  <2> HIDE DEF n, m, h, d
  <2> QED BY <2>2, <2>3 DEF ReadInv
<1>4. CASE FetchOther \/ ResolveTracks \/ CombineTracks
  <2>1. read'.origin \notin {"hls", "dash"}
    <3>1. CASE FetchOther
      <4>1. \/ \E p \in Playlists : read' = [origin |-> "playlist", document |-> p,
                                             source |-> ParseHlsManifest(p.lines, p.url, p.per)]
            \/ \E d \in Mpds : read' = [origin |-> "mpd", document |-> d, source |-> ReadMpd(d)]
          BY <3>1 DEF FetchOther
      <4> QED BY <4>1
    <3>2. CASE ResolveTracks
      <4>1. \/ \E d \in Mpds : read' = [origin |-> "tracks", document |-> d,
                                        tracks |-> ResolveDashTracks(MpdEvents(d), d.url)]
            \/ \E p \in Masters : read' = [origin |-> "master", document |-> p,
                                           tracks |-> ResolveMasterPlaylist(p.lines, p.url)]
          BY <3>2 DEF ResolveTracks
      <4> QED BY <4>1
    <3>3. CASE CombineTracks
        BY <3>3 DEF CombineTracks
    <3> QED BY <1>4, <3>1, <3>2, <3>3
  <2> QED BY <2>1 DEF ReadInv
<1>5. CASE UNCHANGED readerVars
    BY <1>5 DEF readerVars, vars, ReadInv
<1> QED BY <1>2, <1>3, <1>4, <1>5 DEF ReaderNext, Read

THEOREM ReadStaysParsed == ReaderSpec => []ReadInv
<1>1. ReaderInit => ReadInv
    BY DEF ReaderInit, Unread, ReadInv
<1>2. OutputInv /\ ReadInv /\ [ReaderNext]_readerVars => ReadInv'
    BY ReadTurn DEF OutputInv
<1>3. ReaderSpec => []OutputInv
    BY OutputHoldsWhileRead, PTL
<1> QED BY <1>1, <1>2, <1>3, PTL DEF ReaderSpec

\* Of a playlist.
LEMMA PlaylistGivesWindow ==
    ASSUME OutputInv, ItemsInv, ReadInv, read.origin = "hls" PROVE ReadIsWindow
<1> DEFINE m == ReadFrom
           n == Len(m.listed)
           s == read.source
<1>1. Whole(m) /\ s = ParseHlsManifest(HlsDocument(m), OutputUrl, TicksPerMs)
    BY PublishedWhole DEF ReadInv, ReadFrom
<1>2. /\ s.ok = TRUE /\ s.live = ~ m.complete /\ s.urls = UrlsUpTo(m, n)
      /\ s.durations = [i \in 1 .. n |-> Time(m.listed[i].duration, TicksPerMs)]
  <2>1. HlsWindow(m, s)
      BY <1>1, HlsParsed
  <2> QED BY <2>1 DEF HlsWindow
<1>3. n \in Nat
    BY <1>1, ListedSegments
<1>4. \A i \in 1 .. n : s.urls[i] = SegmentUrl(m.listed[i].number)
    BY <1>2 DEF UrlsUpTo, SegmentAt, SegmentUrl
<1>5. Len(s.urls) = n
  <2>1. s.urls = [i \in 1 .. n |-> s.urls[i]]
      BY <1>2 DEF UrlsUpTo
  <2> HIDE DEF n, s
  <2> QED BY <1>3, <2>1, FunctionIsList
<1>6. Len(s.durations) = n
  <2>1. s.durations = [i \in 1 .. n |-> s.durations[i]]
      BY <1>2
  <2> HIDE DEF n, s
  <2> QED BY <1>3, <2>1, FunctionIsList
<1>7. \A i \in 1 .. n : SameTime(s.durations[i], Time(m.listed[i].duration, TicksPerMs))
    BY <1>2 DEF SameTime
<1> HIDE DEF m, s
<1> QED BY <1>2, <1>4, <1>5, <1>6, <1>7 DEF ReadIsWindow, OfOutput, m, s

\* Of an MPD.
LEMMA MpdGivesWindow ==
    ASSUME MsDurations, OneTemplate, OutputInv, ItemsInv, ReadInv, read.origin = "dash"
    PROVE  ReadIsWindow
<1> DEFINE m == ReadFrom
           n == Len(m.listed)
           s == read.source
<1>1. Whole(m) /\ s = ParseDashManifest(DashDocument(m), OutputUrl)
    BY PublishedWhole DEF ReadInv, ReadFrom
<1>2. /\ s.ok = TRUE /\ s.live = ~ m.complete
      /\ s.urls = [i \in 1 .. n |-> MainSegment(m.listed[i].number)]
      /\ s.durations = [i \in 1 .. n |-> Time(ToMs(m.listed[i].duration), 1)]
  <2>1. DashWindow(m, s)
      BY <1>1, DashParsed
  <2> QED BY <2>1 DEF DashWindow
<1>3. n \in Nat /\ \A i \in 1 .. n : m.listed[i].number \in 0 .. SourceLength - 1
    BY <1>1, ListedSegments
<1>4. \A k \in 0 .. SourceLength - 1 : MainSegment(k) = SegmentUrl(k)
    BY MainNames DEF MainSegment, SegmentUrl, OfType
<1>5. \A i \in 1 .. n : s.urls[i] = SegmentUrl(m.listed[i].number)
    BY <1>2, <1>3, <1>4
<1>6. Len(s.urls) = n
  <2>1. s.urls = [i \in 1 .. n |-> s.urls[i]]
      BY <1>2
  <2> HIDE DEF n, s
  <2> QED BY <1>3, <2>1, FunctionIsList
<1>7. Len(s.durations) = n
  <2>1. s.durations = [i \in 1 .. n |-> s.durations[i]]
      BY <1>2
  <2> HIDE DEF n, s
  <2> QED BY <1>3, <2>1, FunctionIsList
<1>8. \A i \in 1 .. n : SameTime(s.durations[i], Time(ToMs(m.listed[i].duration), 1))
    BY <1>2 DEF SameTime
<1> HIDE DEF m, s
<1> QED BY <1>2, <1>5, <1>6, <1>7, <1>8 DEF ReadIsWindow, OfOutput, m, s

\* A job that takes a playlist of the output as its source gets the window it
\* listed: the segments in their order, their durations, and whether more will
\* come (parse_hls_manifest reads back what manifest/hls.rs wrote).
PlaylistIsWindow == read.origin = "hls" => ReadIsWindow

THEOREM PlaylistsReadAsWindow == ReaderSpec => []PlaylistIsWindow
<1>1. OutputInv /\ ItemsInv /\ ReadInv => PlaylistIsWindow
    BY PlaylistGivesWindow DEF PlaylistIsWindow
<1>2. ReaderSpec => []OutputInv /\ []ItemsInv
    BY OutputHoldsWhileRead, ReadersLeaveOutput, ItemsAreWhole, PTL
<1> QED BY <1>1, <1>2, ReadStaysParsed, PTL

\* The same of both formats, where the output can be read in DASH at all.
THEOREM OutputReadAsWindow ==
    ASSUME MsDurations, OneTemplate PROVE ReaderSpec => []ReadIsWindow
<1>1. OutputInv /\ ItemsInv /\ ReadInv => ReadIsWindow
  <2>1. ~ OfOutput => ReadIsWindow
      BY DEF ReadIsWindow
  <2> QED BY <2>1, PlaylistGivesWindow, MpdGivesWindow DEF OfOutput
<1>2. ReaderSpec => []OutputInv /\ []ItemsInv
    BY OutputHoldsWhileRead, ReadersLeaveOutput, ItemsAreWhole, PTL
<1> QED BY <1>1, <1>2, ReadStaysParsed, PTL

\* A reader's list of ad breaks names each of them once.
LEMMA BreaksListed ==
    ASSUME NEW m, NEW n \in Nat, NEW breaks, IsListing(breaks, BreaksUpTo(m, n)),
           NEW shown, shown = [b \in 1 .. Len(breaks) |-> BreakShown(breaks[b])]
    PROVE  IsListing(shown, {BreakShown(x) : x \in BreaksUpTo(m, n)})
<1> DEFINE B == BreaksUpTo(m, n)
           l == Len(breaks)
<1>1. l \in Nat /\ Range(breaks) = B /\ DOMAIN breaks = 1 .. l
      /\ \A i, j \in 1 .. l : breaks[i] = breaks[j] => i = j
    BY DEF IsListing, IsList
<1>2. IsList(shown) /\ Len(shown) = l
  <2>1. shown = [b \in 1 .. l |-> shown[b]]
      OBVIOUS
  <2> QED BY <1>1, <2>1, FunctionIsList
<1>3. \A x, y \in B : x.segment = y.segment => x = y
  <2> SUFFICES ASSUME NEW x \in B, NEW y \in B, x.segment = y.segment PROVE x = y
      OBVIOUS
  <2>1. PICK i \in 1 .. n : x = BreakAt(m, i)
      BY DEF BreaksUpTo
  <2>2. PICK j \in 1 .. n : y = BreakAt(m, j)
      BY DEF BreaksUpTo
  <2>3. x.segment = i - 1 /\ y.segment = j - 1
      BY <2>1, <2>2 DEF BreakAt
  <2>4. (i - 1) + 1 = i /\ (j - 1) + 1 = j
      OBVIOUS
  <2>5. i = j
      BY <2>3, <2>4, Zenon
  <2> QED BY <2>1, <2>2, <2>5
<1> HIDE DEF B, l
<1>4. \A b \in 1 .. l : shown[b] = BreakShown(breaks[b]) /\ breaks[b] \in B
    BY <1>1 DEF l, Range
<1>5. ASSUME NEW i \in 1 .. l, NEW j \in 1 .. l, shown[i] = shown[j] PROVE i = j
  <2>1. BreakShown(breaks[i]).segment = BreakShown(breaks[j]).segment
      BY <1>4, <1>5
  <2>2. breaks[i].segment = breaks[j].segment
      BY <2>1 DEF BreakShown
  <2>3. breaks[i] = breaks[j]
      BY <1>3, <1>4, <2>2
  <2> QED BY <1>1, <2>3
<1>6. Range(shown) = {BreakShown(x) : x \in B}
  <2>1. DOMAIN shown = 1 .. l
      BY <1>2 DEF IsList
  <2>2. \A x \in B : \E b \in 1 .. l : breaks[b] = x
      BY <1>1 DEF Range
  <2> HIDE DEF BreakShown
  <2> QED BY <1>4, <2>1, <2>2 DEF Range
<1> QED BY <1>2, <1>5, <1>6 DEF IsListing, B

\* The marks of a playlist.
LEMMA PlaylistGivesMarks ==
    ASSUME OutputInv, ItemsInv, ReadInv, read.origin = "hls" PROVE MarksPlaced
<1> DEFINE m == ReadFrom
           n == Len(m.listed)
           s == read.source
           position(k) == CHOOSE i \in 1 .. n : m.listed[i].number = k
           starts(i)   == Time(TotalDuration(SubSeq(m.listed, 1, i - 1)), TicksPerMs)
           B == {[segment |-> position(b.segment) - 1, id |-> b.segment,
                  time |-> starts(position(b.segment))]
                     : b \in {x \in m.adBreaks : x.segment \in Numbers(m.listed)}}
           P == {[segment |-> position(p.segment) - 1, index |-> p.index - 1,
                  url |-> Join(OutputUrl, OutputUris.part[p.index]).url]
                     : p \in {x \in m.parts : x.segment \in Numbers(m.listed)}}
<1>1. Whole(m) /\ s = ParseHlsManifest(HlsDocument(m), OutputUrl, TicksPerMs)
    BY PublishedWhole DEF ReadInv, ReadFrom
<1>2. HlsWindow(m, s)
    BY <1>1, HlsParsed
<1>3. B = {BreakShown(x) : x \in BreaksUpTo(m, n)}
    BY <1>1, BreaksPlaced
<1>4. P = PartsUpTo(m, n)
    BY <1>1, PartsPlaced
<1>5. n \in Nat
    BY <1>1, ListedSegments
<1> HIDE DEF B, P
<1>6. IsListing(s.adBreaks, B)
  <2>1. PICK breaks : /\ IsListing(breaks, BreaksUpTo(m, n))
                      /\ s.adBreaks = [b \in 1 .. Len(breaks) |-> BreakShown(breaks[b])]
      BY <1>2 DEF HlsWindow
  <2> DEFINE shown == s.adBreaks
  <2>2. shown = [b \in 1 .. Len(breaks) |-> BreakShown(breaks[b])]
      BY <2>1
  <2> HIDE DEF shown, n
  <2>3. IsListing(shown, {BreakShown(x) : x \in BreaksUpTo(m, n)})
      BY <1>5, <2>1, <2>2, BreaksListed
  <2> QED BY <1>3, <2>3 DEF shown
<1>7. IsListing(s.parts, P)
    BY <1>2, <1>4 DEF HlsWindow
<1>8. Len(s.adBreaks) = Cardinality(B) /\ Len(s.parts) = Cardinality(P)
    BY <1>6, <1>7, ListingCounts
<1>9. Range(s.adBreaks) = B /\ Range(s.parts) = P
    BY <1>6, <1>7 DEF IsListing
<1>10. /\ Range(s.adBreaks) = B /\ Range(s.parts) = P
       /\ Len(s.adBreaks) = Cardinality(Range(s.adBreaks)) /\ Len(s.parts) = Cardinality(Range(s.parts))
    BY <1>8, <1>9
<1> QED BY <1>10 DEF MarksPlaced, B, P

\* The ad breaks of an MPD.
LEMMA MpdGivesMarks ==
    ASSUME MsDurations, OneTemplate, OutputInv, ItemsInv, ReadInv, read.origin = "dash"
    PROVE  MarksPlaced
<1> DEFINE m == ReadFrom
           s == read.source
           A == Range(s.adBreaks)
           E == {EventShown(b) : b \in m.adBreaks}
<1>1. Whole(m) /\ s = ParseDashManifest(DashDocument(m), OutputUrl)
    BY PublishedWhole DEF ReadInv, ReadFrom
<1>2. DashWindow(m, s)
    BY <1>1, DashParsed
<1>3. A = E
    BY <1>2 DEF DashWindow
<1>4. {[id |-> b.id, time |-> b.time] : b \in E}
          = {[id |-> b.segment, time |-> Time(b.time, TicksPerMs)] : b \in m.adBreaks}
  <2>1. \A b : EventShown(b).id = b.segment /\ EventShown(b).time = Time(b.time, TicksPerMs)
      BY DEF EventShown
  <2> HIDE DEF EventShown, m
  <2> QED BY <2>1
<1> HIDE DEF A, E
<1>5. {[id |-> b.id, time |-> b.time] : b \in A}
          = {[id |-> b.segment, time |-> Time(b.time, TicksPerMs)] : b \in m.adBreaks}
    BY <1>3, <1>4
<1> QED BY <1>5 DEF MarksPlaced, A

\* A job that takes a playlist of the output as its source places the ad breaks
\* and the parts at the segments they were written for, each once.
PlaylistKeepsMarks == read.origin = "hls" => MarksPlaced

THEOREM PlaylistsKeepMarks == ReaderSpec => []PlaylistKeepsMarks
<1>1. OutputInv /\ ItemsInv /\ ReadInv => PlaylistKeepsMarks
    BY PlaylistGivesMarks DEF PlaylistKeepsMarks
<1>2. ReaderSpec => []OutputInv /\ []ItemsInv
    BY OutputHoldsWhileRead, ReadersLeaveOutput, ItemsAreWhole, PTL
<1> QED BY <1>1, <1>2, ReadStaysParsed, PTL

\* The same of the ad breaks of both formats.
THEOREM OutputKeepsMarks ==
    ASSUME MsDurations, OneTemplate PROVE ReaderSpec => []MarksPlaced
<1>1. OutputInv /\ ItemsInv /\ ReadInv => MarksPlaced
  <2>1. read.origin \notin {"hls", "dash"} => MarksPlaced
      BY DEF MarksPlaced
  <2> QED BY <2>1, PlaylistGivesMarks, MpdGivesMarks
<1>2. ReaderSpec => []OutputInv /\ []ItemsInv
    BY OutputHoldsWhileRead, ReadersLeaveOutput, ItemsAreWhole, PTL
<1> QED BY <1>1, <1>2, ReadStaysParsed, PTL

-----------------------------------------------------------------------------
(* An MPD of another origin: its Representations *)

\* What of the parser's state says which segments there are, and what the
\* elements around a template are read by.
SegmentsKept(p, q) ==
    /\ q.init = p.init /\ q.media = p.media /\ q.scale = p.scale
    /\ q.startNumber = p.startNumber /\ q.timeline = p.timeline /\ q.uniform = p.uniform
    /\ q.locked = p.locked
MpdKept(p, q) == IsDash(q) /\ q.live = p.live /\ q.total = p.total /\ q.base = p.base

\* The index the parser has chosen.
IndexKept(p, q) == q.indexed = p.indexed /\ q.indexedVideo = p.indexedVideo

\* Inside of a set, outside of its Representations.
InSet(p) == IsDash(p) /\ p.inSet = TRUE /\ p.awaitingUrl = FALSE /\ p.inSegmentBase = FALSE

RepKeeps(p, q) ==
    /\ MpdKept(p, q) /\ SegmentsKept(p, q) /\ IndexKept(p, q)
    /\ q.capturing = p.capturing /\ q.inSet = p.inSet /\ q.isVideo = p.isVideo /\ q.inRep = p.inRep

LEMMA RepKeepsAll ==
    /\ \A p : IsDash(p) => RepKeeps(p, p)
    /\ \A p, q, r : RepKeeps(p, q) /\ RepKeeps(q, r) => RepKeeps(p, r)
BY DEF RepKeeps, MpdKept, SegmentsKept, IndexKept

\* In a Representation of which nothing is read, or its file, or its index too.
InRep(p)         == InSet(p) /\ p.inRep = TRUE
RepBegun(p)      == InRep(p) /\ p.rep = NoRep
HasUrl(file, p)  ==
    InRep(p) /\ p.rep = [NoRep EXCEPT !.url = IF file.present THEN SomeUrl(file.url) ELSE Missing]
HasFile(rep) == rep.indexed => rep.file.present

\* The BaseURL of a Representation is the file's, and not the MPD's.
LEMMA RepUrlRead ==
    ASSUME NEW file, NEW p, RepBegun(p), NEW q, q = DashRun(p, BaseUrl(file))
    PROVE  IsList(BaseUrl(file)) /\ RepKeeps(p, q) /\ HasUrl(file, q)
<1> USE DEF InRep, RepBegun, HasUrl
<1>1. CASE ~ file.present
  <2>1. BaseUrl(file) = <<>>
      BY <1>1 DEF BaseUrl
  <2>2. q = p /\ IsList(<<>>)
      BY <2>1, RunOfEmpty, EmptyIsList DEF DashRun
  <2>3. p.rep = [NoRep EXCEPT !.url = Missing]
      BY DEF NoRep
  <2> QED BY <1>1, <2>1, <2>2, <2>3, RepKeepsAll DEF InSet
<1>2. CASE file.present
  <2> DEFINE d == Start("BaseURL", NoAttributes)
             t == Text(file.url)
             p1 == ReadEvent(p, d)
             p2 == DashRun(p1, <<t>>)
  <2>1. BaseUrl(file) = Element("BaseURL", NoAttributes, <<t>>)
      BY <1>2 DEF BaseUrl
  <2>2. IsList(<<t>>)
      BY ShortLists, Zenon
  <2>3. IsList(BaseUrl(file)) /\ q = ReadEvent(p2, End("BaseURL"))
    <3> HIDE DEF t
    <3> QED BY <2>1, <2>2, RunOfElement DEF DashRun
  <2>4. p1 = [p EXCEPT !.awaitingUrl = TRUE]
      BY DEF ReadEvent, StartElement, Start
  <2>5. p2 = ReadEvent(p1, t)
    <3> HIDE DEF p1, t
    <3> QED BY RunOfOne DEF DashRun, ReadItem
  <2> HIDE DEF p1
  <2>6. p1.awaitingUrl = TRUE /\ p1.inRep = TRUE /\ p1.rep = NoRep /\ IsDash(p1)
      BY <2>4 DEF InSet, IsDash
  <2>7. p2 = ReadText(p1, t)
      BY <2>5 DEF ReadEvent, Text
  <2>8. p2 = [p1 EXCEPT !.awaitingUrl = FALSE, !.rep.url = SomeUrl(file.url)]
      BY <2>6, <2>7 DEF ReadText, Text
  <2> HIDE DEF p2
  <2>9. q = [p2 EXCEPT !.awaitingUrl = FALSE]
      BY <2>3 DEF ReadEvent, EndElement, End
  <2>10. p2.rep = [NoRep EXCEPT !.url = SomeUrl(file.url)]
      BY <2>6, <2>8 DEF IsDash
  <2>11. RepKeeps(p, p1) /\ p1.inSet = TRUE /\ p1.inSegmentBase = FALSE
      BY <2>4 DEF RepKeeps, MpdKept, SegmentsKept, IndexKept, InSet, IsDash
  <2>12. RepKeeps(p1, p2) /\ p2.inSet = TRUE /\ p2.inSegmentBase = FALSE
      BY <2>6, <2>8, <2>11 DEF RepKeeps, MpdKept, SegmentsKept, IndexKept, IsDash
  <2>13. RepKeeps(p2, q) /\ q.inSet = TRUE /\ q.inSegmentBase = FALSE /\ q.awaitingUrl = FALSE
         /\ q.rep = p2.rep
      BY <2>9, <2>12 DEF RepKeeps, MpdKept, SegmentsKept, IndexKept, IsDash
  <2>14. RepKeeps(p, q)
      BY <2>11, <2>12, <2>13, RepKeepsAll
  <2> QED BY <1>2, <2>3, <2>10, <2>13, <2>14 DEF InSet, RepKeeps, MpdKept
<1> QED BY <1>1, <1>2

\* A Representation that is a file with an index.
WithIndex(rep) ==
    [url |-> SomeUrl(rep.file.url), init |-> [present |-> TRUE, range |-> rep.init],
     index |-> [present |-> TRUE, range |-> rep.index], scale |-> rep.scale]
IndexAttributes(rep) == [indexRange |-> rep.index, timescale |-> rep.scale]
BaseEvents(rep) ==
    IF ~ rep.indexed THEN <<>>
    ELSE Element("SegmentBase", IndexAttributes(rep), << Empty("Initialization", [range |-> rep.init]) >>)

HasIndex(rep, p) ==
    /\ InRep(p)
    /\ rep.indexed => p.rep = WithIndex(rep)
    /\ ~ rep.indexed => p.rep.index.present = FALSE

\* What is known of a Representation, with an index or without.
Rep(u, init, index, scale) == [url |-> u, init |-> init, index |-> index, scale |-> scale]
FilledIn(r, s, t, u, none, index, scale, init) ==
    /\ r = Rep(u, none, none, 0)
    /\ s = [r EXCEPT !.index = index, !.scale = scale] /\ t = [s EXCEPT !.init = init]

LEMMA RepFilled ==
    ASSUME NEW r, NEW u, NEW none, NEW index, NEW scale, NEW init, NEW s, NEW t,
           FilledIn(r, s, t, u, none, index, scale, init)
    PROVE  t = Rep(u, init, index, scale)
<1> USE DEF FilledIn, Rep
<1> DEFINE mid == [r EXCEPT !.index = index]
<1>1. mid = [url |-> u, init |-> none, index |-> index, scale |-> 0] /\ s = [mid EXCEPT !.scale = scale]
    OBVIOUS
<1> HIDE DEF mid
<1>2. s = [url |-> u, init |-> none, index |-> index, scale |-> scale]
    BY <1>1
<1> QED BY <1>2

\* The SegmentBase of a Representation gives its index and its initialization.
LEMMA RepIndexRead ==
    ASSUME NEW rep, HasFile(rep), NEW p, HasUrl(rep.file, p),
           NEW q, q = DashRun(p, BaseEvents(rep))
    PROVE  IsList(BaseEvents(rep)) /\ RepKeeps(p, q) /\ HasIndex(rep, q)
<1> USE DEF InRep, HasUrl, HasFile
<1>1. CASE ~ rep.indexed
  <2>1. BaseEvents(rep) = <<>>
      BY <1>1 DEF BaseEvents
  <2>2. q = p /\ IsList(<<>>)
      BY <2>1, RunOfEmpty, EmptyIsList DEF DashRun
  <2> DEFINE u == IF rep.file.present THEN SomeUrl(rep.file.url) ELSE Missing
             none == Missing
             r == [url |-> u, init |-> none, index |-> none, scale |-> 0]
  <2>3. p.rep = [NoRep EXCEPT !.url = u] /\ NoRep = [url |-> none, init |-> none, index |-> none, scale |-> 0]
      BY DEF NoRep
  <2>6. none.present = FALSE
      BY DEF Missing
  <2> HIDE DEF u, none
  <2>7. p.rep = r
      BY <2>3
  <2>4. q.rep.index.present = FALSE
      BY <2>2, <2>6, <2>7
  <2>5. RepKeeps(p, q)
      BY <2>2, RepKeepsAll DEF InSet
  <2> QED BY <1>1, <2>1, <2>2, <2>4, <2>5 DEF HasIndex
<1>2. CASE rep.indexed
  <2> DEFINE d == Start("SegmentBase", IndexAttributes(rep))
             t == Empty("Initialization", [range |-> rep.init])
             p1 == ReadEvent(p, d)
             p2 == DashRun(p1, <<t>>)
             index == [present |-> TRUE, range |-> rep.index]
             init  == [present |-> TRUE, range |-> rep.init]
  <2>1. BaseEvents(rep) = Element("SegmentBase", IndexAttributes(rep), <<t>>)
      BY <1>2 DEF BaseEvents
  <2>2. IsList(<<t>>)
      BY ShortLists, Zenon
  <2>3. IsList(BaseEvents(rep)) /\ q = ReadEvent(p2, End("SegmentBase"))
    <3> HIDE DEF t
    <3> QED BY <2>1, <2>2, RunOfElement DEF DashRun
  <2>4. p1 = [p EXCEPT !.inSegmentBase = TRUE, !.rep.index = index, !.rep.scale = rep.scale]
    <3>1. /\ d.event = "start" /\ d.name = "SegmentBase" /\ d.empty = FALSE
          /\ DOMAIN d.attributes = {"indexRange", "timescale"}
          /\ d.attributes.indexRange = rep.index /\ d.attributes.timescale = rep.scale
        BY DEF Start, IndexAttributes
    <3> HIDE DEF d
    <3>2. p1 = StartSegmentBase(p, d)
        BY <3>1 DEF ReadEvent, StartElement
    <3> QED BY <3>1, <3>2 DEF StartSegmentBase, Attr, HasAttr
  <2>5. p2 = ReadEvent(p1, t)
    <3> HIDE DEF p1, t
    <3> QED BY RunOfOne DEF DashRun, ReadItem
  <2> HIDE DEF p1
  <2>6. /\ RepKeeps(p, p1) /\ p1.inSegmentBase = TRUE /\ p1.inSet = TRUE /\ p1.awaitingUrl = FALSE
        /\ IsDash(p1)
      BY <2>4 DEF RepKeeps, MpdKept, SegmentsKept, IndexKept, InSet, IsDash
  <2>7. p2 = [p1 EXCEPT !.rep.init = init]
    <3>1. /\ t.event = "start" /\ t.name = "Initialization"
          /\ DOMAIN t.attributes = {"range"} /\ t.attributes.range = rep.init
        BY DEF Empty
    <3> HIDE DEF t
    <3>2. p2 = StartInitialization(p1, t)
        BY <2>5, <3>1 DEF ReadEvent, StartElement
    <3> QED BY <2>6, <3>1, <3>2 DEF StartInitialization, HasAttr
  <2> HIDE DEF p2
  <2>8. RepKeeps(p1, p2) /\ p2.inSet = TRUE /\ p2.awaitingUrl = FALSE
      BY <2>6, <2>7 DEF RepKeeps, MpdKept, SegmentsKept, IndexKept, IsDash
  <2>9. q = [p2 EXCEPT !.inSegmentBase = FALSE]
      BY <2>3 DEF ReadEvent, EndElement, End
  <2>10. RepKeeps(p2, q) /\ InSet(q) /\ q.rep = p2.rep
      BY <2>8, <2>9 DEF RepKeeps, MpdKept, SegmentsKept, IndexKept, IsDash, InSet
  <2>11. RepKeeps(p, q)
      BY <2>6, <2>8, <2>10, RepKeepsAll
  <2>12. q.rep = WithIndex(rep)
    <3> DEFINE u == SomeUrl(rep.file.url)
    <3>1. p.rep = [url |-> u, init |-> Missing, index |-> Missing, scale |-> 0]
        BY <1>2 DEF NoRep
    <3> HIDE DEF u, index, init
    <3>2. p1.rep = [p.rep EXCEPT !.index = index, !.scale = rep.scale]
        BY <2>4 DEF InSet, IsDash
    <3>4. p2.rep = [p1.rep EXCEPT !.init = init]
        BY <2>6, <2>7 DEF IsDash
    <3>5. FilledIn(p.rep, p1.rep, p2.rep, u, Missing, index, rep.scale, init)
        BY <3>1, <3>2, <3>4, Zenon DEF FilledIn, Rep
    <3>6. p2.rep = Rep(u, init, index, rep.scale)
        BY <3>5, RepFilled, Zenon
    <3> QED BY <2>10, <3>6 DEF u, index, init, WithIndex, Rep
  <2> QED BY <1>2, <2>3, <2>10, <2>11, <2>12 DEF HasIndex, RepKeeps
<1> QED BY <1>1, <1>2

\* A Representation of a set, of video or not.
RepAttributes(rep) == WithMime([bandwidth |-> rep.bandwidth], rep)
RepEvents(rep) == Element("Representation", RepAttributes(rep), IndexOf(rep))
OfKind(rep, video) == HasFile(rep) /\ (video = FALSE => rep.mime \notin VideoMimeTypes)
InKind(p, video)   == InSet(p) /\ p.isVideo = video

\* The index chosen so far: of a video set, or not; what a Representation does to it.
FromVideo(p)    == p.indexedVideo = TRUE /\ p.indexed.url.present = TRUE
NotFromVideo(p) == p.indexedVideo = FALSE
NoIndex(p)      == p.indexed.url.present = FALSE
HasOne(p)       == p.indexed.url.present = TRUE
FirstIndex(rep, p, q) ==
    /\ HasOne(p) => IndexKept(p, q)
    /\ NoIndex(p) /\ rep.indexed => q.indexed = WithIndex(rep) /\ HasOne(q)
ChosenIndex(video, rep, p, q) ==
    /\ FromVideo(p) => IndexKept(p, q)
    /\ NotFromVideo(p) /\ video = FALSE => NotFromVideo(q)
    /\ NotFromVideo(p) /\ video = TRUE /\ rep.indexed => q.indexed = WithIndex(rep) /\ FromVideo(q)
    /\ video = FALSE => FirstIndex(rep, p, q)

\* An element has its attributes, and its MIME type if there is one.
LEMMA MimeAttributes ==
    ASSUME NEW a, NEW x, NEW e, e.attributes = WithMime(a, x), "mimeType" \notin DOMAIN a
    PROVE  /\ Attr(e, "mimeType", "none") = x.mime
           /\ \A k \in DOMAIN a : k \in DOMAIN e.attributes /\ e.attributes[k] = a[k]
<1>1. CASE x.mime = "none"
  <2>1. e.attributes = a
      BY <1>1 DEF WithMime
  <2> QED BY <1>1, <2>1 DEF Attr, HasAttr
<1>2. CASE x.mime # "none"
  <2>1. e.attributes = [b \in DOMAIN a \union {"mimeType"} |->
                           IF b = "mimeType" THEN x.mime ELSE a[b]]
      BY <1>2 DEF WithMime
  <2>2. "mimeType" \in DOMAIN e.attributes /\ e.attributes["mimeType"] = x.mime
      BY <2>1
  <2>3. \A k \in DOMAIN a : k \in DOMAIN e.attributes /\ e.attributes[k] = a[k]
      BY <2>1
  <2> QED BY <2>2, <2>3 DEF Attr, HasAttr
<1> QED BY <1>1, <1>2

\* What a Representation does to the state of the parser.
RepDone(video, p, q) ==
    /\ MpdKept(p, q) /\ SegmentsKept(p, q) /\ InKind(q, video) /\ q.capturing = p.capturing
RepStarted(video, p, q) == RepDone(video, p, q) /\ IndexKept(p, q) /\ RepBegun(q)

LEMMA RepEnds ==
    ASSUME NEW rep, NEW video \in BOOLEAN, NEW p, InKind(p, video), HasIndex(rep, p),
           NEW q, q = EndRepresentation(p)
    PROVE  RepDone(video, p, q) /\ ChosenIndex(video, rep, p, q)
<1> USE DEF InKind, HasIndex, InRep
<1> DEFINE complete == p.rep.url.present /\ p.rep.init.present /\ p.rep.index.present
           better   == ~ p.indexed.url.present \/ (p.isVideo /\ ~ p.indexedVideo)
           take     == p.inRep /\ complete /\ better
           a == IF take THEN p.rep ELSE p.indexed
           b == IF take THEN p.isVideo ELSE p.indexedVideo
<1>1. q = [p EXCEPT !.indexed = a, !.indexedVideo = b, !.inRep = FALSE, !.rep = NoRep]
    BY DEF EndRepresentation
<1>2. FromVideo(p) => a = p.indexed /\ b = p.indexedVideo
    BY Zenon DEF FromVideo
<1>3. NotFromVideo(p) /\ video = FALSE => b = FALSE
    BY Zenon DEF NotFromVideo
<1>4. rep.indexed => complete
  <2>1. SomeUrl(rep.file.url).present = TRUE
      BY DEF SomeUrl
  <2> DEFINE u == SomeUrl(rep.file.url)
  <2> HIDE DEF u
  <2>2. rep.indexed => p.rep.url = u /\ p.rep.init.present = TRUE /\ p.rep.index.present = TRUE
      BY DEF WithIndex, u
  <2> QED BY <2>1, <2>2, Zenon DEF u
<1>5. NotFromVideo(p) /\ video = TRUE /\ rep.indexed => a = p.rep /\ b = TRUE
    BY <1>4, Zenon DEF NotFromVideo
<1>10. video = FALSE /\ HasOne(p) => a = p.indexed /\ b = p.indexedVideo
    BY Zenon DEF HasOne
<1>11. video = FALSE /\ NoIndex(p) /\ rep.indexed => a = p.rep
    BY <1>4, Zenon DEF NoIndex
<1> HIDE DEF complete, better, take, a, b
<1>6. RepDone(video, p, q)
    BY <1>1 DEF RepDone, MpdKept, SegmentsKept, InSet, IsDash
<1>7. q.indexed = a /\ q.indexedVideo = b
    BY <1>1 DEF InSet, IsDash
<1>8. WithIndex(rep).url.present = TRUE
    BY DEF WithIndex, SomeUrl
<1>9. ChosenIndex(video, rep, p, q)
  <2> DEFINE w == WithIndex(rep)
  <2>1. FromVideo(p) => IndexKept(p, q)
      BY <1>2, <1>7, Zenon DEF IndexKept
  <2>2. NotFromVideo(p) /\ video = FALSE => NotFromVideo(q)
      BY <1>3, <1>7, Zenon DEF NotFromVideo
  <2>3. NotFromVideo(p) /\ video = TRUE /\ rep.indexed => q.indexed = w /\ FromVideo(q)
      BY <1>5, <1>7, <1>8, Zenon DEF FromVideo
  <2>4. video = FALSE => FirstIndex(rep, p, q)
    <3>1. video = FALSE /\ HasOne(p) => IndexKept(p, q)
        BY <1>7, <1>10, Zenon DEF IndexKept
    <3>2. video = FALSE /\ NoIndex(p) /\ rep.indexed => q.indexed = w /\ HasOne(q)
        BY <1>7, <1>8, <1>11, Zenon DEF HasOne
    <3> QED BY <3>1, <3>2, Zenon DEF FirstIndex
  <2> QED BY <2>1, <2>2, <2>3, <2>4, Zenon DEF ChosenIndex
<1> QED BY <1>6, <1>9

LEMMA RepStarts ==
    ASSUME NEW rep, NEW video \in BOOLEAN, OfKind(rep, video), NEW p, InKind(p, video),
           NEW q, q = ReadEvent(p, Start("Representation", RepAttributes(rep)))
    PROVE  RepStarted(video, p, q)
<1> USE DEF InKind
<1> DEFINE e == Start("Representation", RepAttributes(rep))
           now == p.isVideo \/ Attr(e, "mimeType", "none") \in VideoMimeTypes
           list == IF now /\ Attr(e, "bandwidth", 0) > 0
                   THEN Append(p.variants, e.attributes.bandwidth) ELSE p.variants
<1>1. e.event = "start" /\ e.name = "Representation" /\ e.attributes = RepAttributes(rep)
    BY DEF Start
<1>2. Attr(e, "mimeType", "none") = rep.mime
  <2> DEFINE a == [bandwidth |-> rep.bandwidth]
  <2>1. "mimeType" \notin DOMAIN a /\ e.attributes = WithMime(a, rep)
      BY <1>1 DEF RepAttributes
  <2> HIDE DEF e, a
  <2> QED BY <2>1, MimeAttributes
<1>3. now = video
  <2>1. video = FALSE => rep.mime \notin VideoMimeTypes
      BY DEF OfKind
  <2> HIDE DEF e
  <2> QED BY <1>2, <2>1, Zenon
<1>4. q = StartRepresentation(p, e)
  <2> HIDE DEF e
  <2>1. q = ReadEvent(p, e)
      BY DEF e
  <2> QED BY <1>1, <2>1 DEF ReadEvent, StartElement
<1>5. q = [p EXCEPT !.inRep = TRUE, !.rep = NoRep, !.isVideo = now, !.variants = list]
  <2> HIDE DEF e
  <2> QED BY <1>4 DEF StartRepresentation, InSet
<1> HIDE DEF now, list, e
<1>6. q.isVideo = video /\ q.inRep = TRUE /\ q.rep = NoRep
    BY <1>3, <1>5 DEF InSet, IsDash
<1>7. InSet(q) /\ q.capturing = p.capturing
    BY <1>5 DEF InSet, IsDash
<1>8. MpdKept(p, q)
    BY <1>5, <1>7 DEF MpdKept, InSet, IsDash
<1>9. SegmentsKept(p, q)
  <2>1. IsDash(p)
      BY DEF InSet
  <2> HIDE DEF InKind
  <2>2. q.init = p.init /\ q.media = p.media /\ q.scale = p.scale /\ q.uniform = p.uniform
      BY <1>5, <2>1 DEF IsDash
  <2>3. q.startNumber = p.startNumber /\ q.timeline = p.timeline /\ q.locked = p.locked
      BY <1>5, <2>1 DEF IsDash
  <2> QED BY <2>2, <2>3 DEF SegmentsKept
<1>10. IndexKept(p, q)
    BY <1>5 DEF IndexKept, InSet, IsDash
<1> QED BY <1>6, <1>7, <1>8, <1>9, <1>10 DEF RepStarted, RepDone, RepBegun, InRep

LEMMA RepRead ==
    ASSUME NEW rep, NEW video \in BOOLEAN, OfKind(rep, video), NEW p, InKind(p, video),
           NEW q, q = DashRun(p, RepEvents(rep))
    PROVE  IsList(RepEvents(rep)) /\ RepDone(video, p, q) /\ ChosenIndex(video, rep, p, q)
<1> DEFINE d == Start("Representation", RepAttributes(rep))
           p1 == ReadEvent(p, d)
           p2 == DashRun(p1, BaseUrl(rep.file))
           p3 == DashRun(p2, BaseEvents(rep))
           p4 == DashRun(p1, IndexOf(rep))
           p5 == ReadEvent(p4, End("Representation"))
<1> HIDE DEF p1, p2, p3, p4, p5
<1>1. RepStarted(video, p, p1)
  <2>1. p1 = ReadEvent(p, Start("Representation", RepAttributes(rep)))
      BY DEF p1
  <2> QED BY <2>1, RepStarts
<1>2. IsList(BaseUrl(rep.file)) /\ RepKeeps(p1, p2) /\ HasUrl(rep.file, p2)
  <2>1. p2 = DashRun(p1, BaseUrl(rep.file)) /\ RepBegun(p1)
      BY <1>1 DEF p2, RepStarted
  <2> QED BY <2>1, RepUrlRead
<1>3. IsList(BaseEvents(rep)) /\ RepKeeps(p2, p3) /\ HasIndex(rep, p3)
  <2>1. p3 = DashRun(p2, BaseEvents(rep)) /\ HasFile(rep)
      BY DEF p3, OfKind
  <2> QED BY <1>2, <2>1, RepIndexRead
<1>4. IndexOf(rep) = Joined(BaseUrl(rep.file), BaseEvents(rep))
    BY DEF IndexOf, Joined, BaseEvents, IndexAttributes
<1>5. IsList(IndexOf(rep))
  <2> DEFINE a == BaseUrl(rep.file)
             b == BaseEvents(rep)
  <2>1. IsList(a) /\ IsList(b) /\ IndexOf(rep) = Joined(a, b)
      BY <1>2, <1>3, <1>4
  <2> HIDE DEF a, b
  <2>2. IsJoin(Joined(a, b), a, b)
      BY <2>1, JoinedIsList, Zenon
  <2> QED BY <2>1, <2>2 DEF IsJoin
<1>6. p4 = p3
    BY <1>2, <1>3, <1>4, RunOfJoined DEF DashRun, p4, p3, p2
<1>7. IsList(RepEvents(rep)) /\ q = p5
    BY <1>5, RunOfElement DEF RepEvents, DashRun, p1, p4, p5
<1>8. q = EndRepresentation(p3)
    BY <1>6, <1>7 DEF ReadEvent, EndElement, End, p5
<1>9. RepKeeps(p1, p3)
    BY <1>2, <1>3, RepKeepsAll
<1>10. InKind(p3, video)
    BY <1>1, <1>3, <1>9 DEF InKind, RepStarted, RepDone, RepKeeps, HasIndex, InRep
<1>11. RepDone(video, p3, q) /\ ChosenIndex(video, rep, p3, q)
    BY <1>3, <1>8, <1>10, RepEnds
<1>12. RepDone(video, p, q)
    BY <1>1, <1>9, <1>11 DEF RepDone, RepStarted, RepKeeps, MpdKept, SegmentsKept
<1>13. ChosenIndex(video, rep, p, q)
  <2>1. p3.indexed = p.indexed /\ p3.indexedVideo = p.indexedVideo
      BY <1>1, <1>9 DEF RepStarted, RepKeeps, IndexKept
  <2> QED BY <1>11, <2>1 DEF ChosenIndex, FirstIndex, FromVideo, NotFromVideo, NoIndex, HasOne, IndexKept
<1> QED BY <1>7, <1>12, <1>13

RepChose(video, rep, p, q) == RepDone(video, p, q) /\ ChosenIndex(video, rep, p, q)

LEMMA RepsCompose ==
    /\ \A p, video : InKind(p, video) => RepDone(video, p, p)
    /\ \A p, q, r, video : RepDone(video, p, q) /\ RepDone(video, q, r) => RepDone(video, p, r)
    /\ \A p, q, r, video, a, b :
          RepChose(video, a, p, q) /\ RepChose(video, b, q, r) => RepChose(video, a, p, r)
<1>1. \A p, video : InKind(p, video) => RepDone(video, p, p)
    BY DEF RepDone, MpdKept, SegmentsKept, InKind, InSet
<1>2. \A p, q, r, video : RepDone(video, p, q) /\ RepDone(video, q, r) => RepDone(video, p, r)
    BY DEF RepDone, MpdKept, SegmentsKept
<1>3. ASSUME NEW p, NEW q, NEW r, NEW video, NEW a, NEW b,
             ChosenIndex(video, a, p, q), ChosenIndex(video, b, q, r)
      PROVE  ChosenIndex(video, a, p, r)
  <2>1. FromVideo(p) => IndexKept(p, r)
    <3>1. FromVideo(p) /\ IndexKept(p, q) => FromVideo(q)
        BY DEF FromVideo, IndexKept
    <3>2. IndexKept(p, q) /\ IndexKept(q, r) => IndexKept(p, r)
        BY DEF IndexKept
    <3> QED BY <1>3, <3>1, <3>2, Zenon DEF ChosenIndex
  <2>2. NotFromVideo(p) /\ video = FALSE => NotFromVideo(r)
      BY <1>3, Zenon DEF ChosenIndex
  <2>3. ASSUME NotFromVideo(p), video = TRUE, a.indexed PROVE r.indexed = WithIndex(a) /\ FromVideo(r)
    <3>1. q.indexed = WithIndex(a) /\ FromVideo(q)
        BY <1>3, <2>3, Zenon DEF ChosenIndex
    <3>2. IndexKept(q, r)
        BY <1>3, <3>1, Zenon DEF ChosenIndex
    <3> QED BY <3>1, <3>2 DEF IndexKept, FromVideo
  <2>4. video = FALSE => FirstIndex(a, p, r)
    <3>1. ASSUME FirstIndex(a, p, q), FirstIndex(b, q, r) PROVE FirstIndex(a, p, r)
        BY <3>1 DEF FirstIndex, IndexKept, HasOne, NoIndex
    <3> QED BY <1>3, <3>1, Zenon DEF ChosenIndex
  <2> QED BY <2>1, <2>2, <2>3, <2>4, Zenon DEF ChosenIndex
<1> QED BY <1>1, <1>2, <1>3, Zenon DEF RepChose

\* The Representations of a set, one after the other.
RepsEvents(reps) == [r \in 1..Len(reps) |-> RepEvents(reps[r])]

LEMMA RepsRead ==
    ASSUME NEW reps, IsList(reps), reps # <<>>, NEW video \in BOOLEAN,
           \A r \in 1..Len(reps) : OfKind(reps[r], video), NEW p, InKind(p, video),
           NEW q, q = DashRun(p, FlattenSeq(RepsEvents(reps)))
    PROVE  IsList(FlattenSeq(RepsEvents(reps))) /\ RepChose(video, reps[1], p, q)
<1> DEFINE n == Len(reps)
           s == RepsEvents(reps)
           At(k) == DashRun(p, FirstLists(s, k))
           So(k, r) == RepDone(video, p, r) /\ (k >= 1 => RepChose(video, reps[1], p, r))
           T == {k \in 0 .. n : So(k, At(k))}
<1>1. n \in Nat /\ n >= 1 /\ 1 \in 1 .. n
    BY DEF IsList
<1>2. IsList(s) /\ Len(s) = n /\ \A k \in 1 .. n : s[k] = RepEvents(reps[k])
  <2>1. s = [k \in 1 .. n |-> s[k]] /\ \A k \in 1 .. n : s[k] = RepEvents(reps[k])
      BY DEF RepsEvents
  <2> HIDE DEF s
  <2> QED BY <1>1, <2>1, FunctionIsList
<1>3. \A k \in 1 .. n : IsList(s[k])
  <2> SUFFICES ASSUME NEW k \in 1 .. n PROVE IsList(RepEvents(reps[k]))
      BY <1>2
  <2>1. OfKind(reps[k], video)
      OBVIOUS
  <2> QED BY <2>1, RepRead
<1> HIDE DEF s
<1>4. IsList(FlattenSeq(s)) /\ InTurn(s, "dash", "none", p)
    BY <1>2, <1>3, RunOfLists
<1>5. At(0) = p /\ At(n) = q /\ \A k \in 0 .. n : k < n => At(k + 1) = DashRun(At(k), s[k + 1])
    BY <1>1, <1>2, <1>4 DEF InTurn, DashRun, s
<1> HIDE DEF At
<1>6. 0 \in T
  <2>1. RepDone(video, p, p)
      BY RepsCompose
  <2> QED BY <1>1, <1>5, <2>1
<1>7. ASSUME NEW k \in 0 .. n, k < n, k \in T PROVE k + 1 \in T
  <2>1. k + 1 \in 1 .. n /\ k + 1 \in 0 .. n /\ (k = 0 \/ k >= 1)
      BY <1>1, <1>7
  <2> DEFINE a == At(k)
             b == At(k + 1)
  <2>2. b = DashRun(a, RepEvents(reps[k + 1])) /\ OfKind(reps[k + 1], video)
      BY <1>2, <1>5, <1>7, <2>1
  <2>3. So(k, a)
      BY <1>7
  <2> HIDE DEF a, b
  <2>4. InKind(a, video)
      BY <2>3 DEF RepDone
  <2>5. RepChose(video, reps[k + 1], a, b)
      BY <2>2, <2>4, RepRead DEF RepChose
  <2>6. RepDone(video, p, b)
      BY <2>3, <2>5, RepsCompose DEF RepChose
  <2>7. RepChose(video, reps[1], p, b)
    <3>1. CASE k = 0
      <4>1. a = p
          BY <1>5, <3>1 DEF a
      <4> QED BY <2>5, <3>1, <4>1
    <3>2. CASE k >= 1
      <4>1. RepChose(video, reps[1], p, a)
          BY <2>3, <3>2
      <4> QED BY <2>5, <4>1, RepsCompose
    <3> QED BY <2>1, <3>1, <3>2
  <2> QED BY <2>1, <2>6, <2>7 DEF b
<1>8. n \in T
  <2> HIDE DEF T, n
  <2>1. \A k \in 0 .. n : k \in T
      BY <1>1, <1>6, <1>7, CountUp, Zenon
  <2> QED BY <1>1, <2>1
<1> QED BY <1>1, <1>4, <1>5, <1>8 DEF s

-----------------------------------------------------------------------------
(* An MPD of another origin: the templates of its sets *)

TemplateElements == {"SegmentTemplate", "SegmentTimeline", "S"}
AroundKept(p, q) ==
    /\ MpdKept(p, q) /\ IndexKept(p, q) /\ q.isVideo = p.isVideo /\ q.inSet = p.inSet
    /\ q.awaitingUrl = p.awaitingUrl /\ q.inSegmentBase = p.inSegmentBase
StaysOpen(p)    == p.isVideo = FALSE /\ p.locked = FALSE
TemplateDone(p, q) ==
    /\ AroundKept(p, q)
    /\ StaysOpen(p) => StaysOpen(q)
    /\ Settled(p) => SegmentsKept(p, q) /\ Settled(q)

LEMMA TemplatesCompose ==
    /\ \A p : IsDash(p) => TemplateDone(p, p)
    /\ \A p, q, r : TemplateDone(p, q) /\ TemplateDone(q, r) => TemplateDone(p, r)
<1>1. \A p : IsDash(p) => TemplateDone(p, p)
    BY DEF TemplateDone, AroundKept, MpdKept, IndexKept, SegmentsKept
<1>2. \A p, q, r : AroundKept(p, q) /\ AroundKept(q, r) => AroundKept(p, r)
    BY DEF AroundKept, MpdKept, IndexKept
<1>3. \A p, q, r : SegmentsKept(p, q) /\ SegmentsKept(q, r) => SegmentsKept(p, r)
    BY DEF SegmentsKept
<1> QED BY <1>1, <1>2, <1>3, Zenon DEF TemplateDone

\* What is said of segments changes nothing else, and nothing at all once the
\* template of the first video set is locked in.
LEMMA TemplateStep ==
    ASSUME NEW p, IsDash(p), NEW e, e.event \in {"start", "end"}, e.name \in TemplateElements,
           NEW q, q = ReadEvent(p, e)
    PROVE  TemplateDone(p, q)
<1>1. ASSUME Settled(p) PROVE SegmentsKept(p, q) /\ Settled(q)
  <2>1. e.name \in SetNames
      BY DEF TemplateElements, SetNames
  <2>2. DashKeeps(p, q) /\ Settled(q)
      BY <1>1, <2>1, LockedStep
  <2> QED BY <2>2 DEF DashKeeps, SegmentsKept
<1>2. CASE e.event = "start" /\ e.name = "SegmentTemplate"
  <2> DEFINE timeline == IF p.isVideo THEN <<>> ELSE p.timeline
             uniform  == Attr(e, "duration", IF p.isVideo THEN 0 ELSE p.uniform)
             init  == IF HasAttr(e, "initialization") THEN SomeUrl(e.attributes.initialization) ELSE p.init
             media == IF HasAttr(e, "media") THEN SomeUrl(e.attributes.media) ELSE p.media
             scale == Attr(e, "timescale", p.scale)
             first == Attr(e, "startNumber", p.startNumber)
  <2>1. q = StartSegmentTemplate(p, e)
      BY <1>2 DEF ReadEvent, StartElement
  <2>2. \/ q = [p EXCEPT !.capturing = FALSE]
        \/ q = [p EXCEPT !.capturing = TRUE, !.locked = p.isVideo, !.timeline = timeline,
                         !.uniform = uniform, !.init = init, !.media = media,
                         !.scale = scale, !.startNumber = first]
      BY <2>1 DEF StartSegmentTemplate
  <2> HIDE DEF timeline, uniform, init, media, scale, first
  <2>3. AroundKept(p, q)
    <3>1. ASSUME NEW f \in DOMAIN p \ {"capturing", "locked", "timeline", "uniform", "init", "media", "scale", "startNumber"}
          PROVE  q[f] = p[f]
        BY <2>2, <3>1
    <3>2. IsDash(q)
        BY <2>2 DEF IsDash
    <3>3. MpdKept(p, q)
        BY <3>1, <3>2 DEF MpdKept, IsDash
    <3>4. IndexKept(p, q) /\ q.isVideo = p.isVideo
        BY <3>1 DEF IndexKept, IsDash
    <3>5. q.inSet = p.inSet /\ q.awaitingUrl = p.awaitingUrl /\ q.inSegmentBase = p.inSegmentBase
        BY <3>1 DEF IsDash
    <3> QED BY <3>3, <3>4, <3>5 DEF AroundKept
  <2>4. q.locked = p.locked \/ q.locked = p.isVideo
      BY <2>2 DEF IsDash
  <2>5. q.isVideo = p.isVideo
      BY <2>3 DEF AroundKept
  <2>6. StaysOpen(p) => StaysOpen(q)
      BY <2>4, <2>5 DEF StaysOpen
  <2> QED BY <1>1, <2>3, <2>6 DEF TemplateDone
<1>3. CASE e.event = "start" /\ e.name = "S"
  <2> DEFINE more == Append(p.timeline, [d |-> e.attributes.d,
                            r |-> IF Attr(e, "r", 0) < 0 THEN 0 ELSE Attr(e, "r", 0)])
  <2>1. q = StartS(p, e)
      BY <1>3 DEF ReadEvent, StartElement
  <2>2. q = p \/ q = [p EXCEPT !.timeline = more]
      BY <2>1 DEF StartS
  <2> HIDE DEF more
  <2>3. AroundKept(p, q) /\ q.locked = p.locked
      BY <2>2 DEF AroundKept, MpdKept, IndexKept, IsDash
  <2>4. StaysOpen(p) => StaysOpen(q)
      BY <2>3 DEF StaysOpen, AroundKept
  <2> QED BY <1>1, <2>3, <2>4 DEF TemplateDone
<1>4. CASE e.event = "end" \/ e.name = "SegmentTimeline"
  <2>1. q = p
      BY <1>4 DEF ReadEvent, StartElement, EndElement, TemplateElements
  <2> QED BY <2>1, TemplatesCompose
<1> QED BY <1>2, <1>3, <1>4 DEF TemplateElements

LEMMA TemplatesRead ==
    ASSUME NEW p, IsDash(p), NEW events, Only(events, TemplateElements),
           NEW q, q = DashRun(p, events)
    PROVE  TemplateDone(p, q)
<1> DEFINE n == Len(events)
<1>1. n \in Nat
    BY DEF Only, IsList
<1>2. PICK f : IsRun(f, "dash", "none", p, events)
    BY <1>1, RunExists
<1> DEFINE T == {k \in 0 .. n : TemplateDone(p, f[k])}
<1>3. 0 \in T
  <2>1. TemplateDone(p, p) /\ f[0] = p
      BY <1>2, TemplatesCompose DEF IsRun
  <2> QED BY <1>1, <2>1
<1>4. ASSUME NEW k \in 0 .. n, k < n, k \in T PROVE k + 1 \in T
  <2>1. k + 1 \in 1 .. n /\ (k + 1) - 1 = k /\ k + 1 \in 0 .. n
      BY <1>1, <1>4
  <2> DEFINE s == f[k]
             e == events[k + 1]
             r == ReadEvent(s, e)
  <2>2. f[k + 1] = r
      BY <1>2, <2>1 DEF IsRun, ReadItem
  <2>3. TemplateDone(p, s) /\ e.event \in {"start", "end"} /\ e.name \in TemplateElements
      BY <1>4, <2>1 DEF Only
  <2> HIDE DEF s, e
  <2>4. IsDash(s) /\ r = ReadEvent(s, e)
      BY <2>3 DEF TemplateDone, AroundKept, MpdKept
  <2> HIDE DEF r
  <2>5. TemplateDone(s, r)
      BY <2>3, <2>4, TemplateStep
  <2>6. TemplateDone(p, r)
      BY <2>3, <2>5, TemplatesCompose
  <2> QED BY <2>1, <2>2, <2>6
<1>5. n \in T
  <2> HIDE DEF T, n
  <2>1. \A k \in 0 .. n : k \in T
      BY <1>1, <1>3, <1>4, CountUp, Zenon
  <2> QED BY <1>1, <2>1
<1>6. q = f[n]
    BY <1>1, <1>2, RunIsLast DEF DashRun
<1> QED BY <1>5, <1>6

\* The S elements of a set, and the timeline read of the first i of them.
Items(timeline) == [i \in 1..Len(timeline) |-> Empty("S", timeline[i])]
ItemOf(s) == [d |-> s.d, r |-> Repeats(s)]
ItemsRead(timeline, i) == [j \in 1..i |-> ItemOf(timeline[j])]
IsItem(s) == "d" \in DOMAIN s /\ s.d \in Nat \ {0} /\ ("r" \in DOMAIN s => s.r \in Nat)

LEMMA ItemRead ==
    ASSUME NEW s, IsItem(s), NEW p, IsDash(p), p.capturing = TRUE,
           NEW q, q = ReadEvent(p, Empty("S", s))
    PROVE  q = [p EXCEPT !.timeline = Append(@, ItemOf(s))]
<1> DEFINE e == Empty("S", s)
<1>1. e.event = "start" /\ e.name = "S" /\ e.attributes = s
    BY DEF Empty
<1> HIDE DEF e
<1>2. q = StartS(p, e)
    BY <1>1 DEF ReadEvent, StartElement, e
<1>3. Attr(e, "d", 0) = s.d /\ s.d > 0
    BY <1>1 DEF Attr, HasAttr, IsItem
<1>4. Attr(e, "r", 0) = Repeats(s)
    BY <1>1 DEF Attr, HasAttr, Repeats
<1>5. ~ (Repeats(s) < 0)
  <2>1. Repeats(s) \in Nat
      BY DEF Repeats, IsItem
  <2> QED BY <2>1
<1>6. e.attributes.d = s.d
    BY <1>1
<1> QED BY <1>2, <1>3, <1>4, <1>5, <1>6 DEF StartS, ItemOf

LEMMA ItemsInTurn ==
    ASSUME NEW timeline, IsList(timeline), \A i \in 1..Len(timeline) : IsItem(timeline[i]),
           NEW p, IsDash(p), p.capturing = TRUE, p.timeline = <<>>,
           NEW q, q = DashRun(p, Items(timeline))
    PROVE  TimelineKeeps(p, q) /\ q.timeline = ItemsRead(timeline, Len(timeline))
<1> DEFINE n == Len(timeline)
           s == Items(timeline)
           So(k, r) == TimelineKeeps(p, r) /\ r.timeline = ItemsRead(timeline, k)
<1>1. n \in Nat
    BY DEF IsList
<1>2. IsList(s) /\ Len(s) = n /\ \A k \in 1 .. n : s[k] = Empty("S", timeline[k])
  <2>1. s = [k \in 1 .. n |-> s[k]] /\ \A k \in 1 .. n : s[k] = Empty("S", timeline[k])
      BY DEF Items
  <2> HIDE DEF s
  <2> QED BY <1>1, <2>1, FunctionIsList
<1> HIDE DEF s
<1>3. PICK f : IsRun(f, "dash", "none", p, s)
    BY <1>1, <1>2, RunExists
<1> DEFINE T == {k \in 0 .. n : So(k, f[k])}
<1>4. 0 \in T
  <2>1. ItemsRead(timeline, 0) = <<>>
      BY DEF ItemsRead
  <2>2. So(0, p)
      BY <2>1 DEF TimelineKeeps, TemplateKeeps
  <2> HIDE DEF So
  <2> QED BY <1>1, <1>3, <2>2 DEF IsRun
<1>5. ASSUME NEW k \in 0 .. n, k < n, k \in T PROVE k + 1 \in T
  <2>1. k + 1 \in 1 .. n /\ (k + 1) - 1 = k /\ k + 1 \in 0 .. n /\ k + 1 \in Nat
      BY <1>1, <1>5
  <2> DEFINE r == f[k]
             t == f[k + 1]
  <2>2. t = ReadEvent(r, Empty("S", timeline[k + 1])) /\ So(k, r)
      BY <1>2, <1>3, <1>5, <2>1 DEF IsRun, ReadItem
  <2> HIDE DEF r, t
  <2>3. IsDash(r) /\ r.capturing = TRUE /\ r.timeline = ItemsRead(timeline, k)
      BY <2>2 DEF TimelineKeeps
  <2>4. IsItem(timeline[k + 1])
      BY <2>1
  <2>5. t = [r EXCEPT !.timeline = Append(@, ItemOf(timeline[k + 1]))]
      BY <2>2, <2>3, <2>4, ItemRead
  <2>6. ItemsRead(timeline, k + 1) = Append(ItemsRead(timeline, k), ItemOf(timeline[k + 1]))
    <3> DEFINE a == ItemsRead(timeline, k)
               b == ItemsRead(timeline, k + 1)
    <3>1. a = [j \in 1 .. (k + 1) - 1 |-> b[j]] /\ b = [j \in 1 .. k + 1 |-> b[j]]
          /\ b[k + 1] = ItemOf(timeline[k + 1])
        BY <2>1 DEF ItemsRead
    <3> HIDE DEF a, b
    <3>2. b = Append(a, b[k + 1])
      <4>1. k + 1 >= 1
          BY <2>1
      <4> QED BY <2>1, <3>1, <4>1, RowGrows, Zenon
    <3> QED BY <3>1, <3>2 DEF a, b
  <2>7. t = [r EXCEPT !.timeline = ItemsRead(timeline, k + 1)]
      BY <2>3, <2>5, <2>6
  <2>8. So(k + 1, t)
      BY <2>2, <2>7 DEF TimelineKeeps, TemplateKeeps, IsDash
  <2> HIDE DEF So
  <2> QED BY <2>1, <2>8 DEF t
<1>6. n \in T
  <2> HIDE DEF T, n
  <2>1. \A k \in 0 .. n : k \in T
      BY <1>1, <1>4, <1>5, CountUp, Zenon
  <2> QED BY <1>1, <2>1
<1>7. q = f[n]
    BY <1>1, <1>2, <1>3, RunIsLast DEF DashRun, s
<1> QED BY <1>6, <1>7

\* A state in which the segments are those of the template of a set.
HasSegments(set, q) ==
    /\ q.init = SomeUrl(set.template.initialization) /\ q.media = SomeUrl(set.template.media)
    /\ q.scale = set.template.timescale /\ q.startNumber = set.template.startNumber
    /\ q.timeline = ItemsRead(set.timeline, Len(set.timeline))
    /\ set.timeline = <<>> => q.uniform = set.template.duration

TimelineElement(set) ==
    IF set.timeline = <<>> THEN <<>>
    ELSE Element("SegmentTimeline", NoAttributes, Items(set.timeline))
TemplateElement(set) == Element("SegmentTemplate", set.template, TimelineElement(set))

LEMMA TemplateForm ==
    ASSUME NEW set, IsList(set.timeline)
    PROVE  /\ Only(TemplateOf(set), TemplateElements) /\ IsList(TimelineElement(set))
           /\ IsList(Items(set.timeline))
           /\ set.template = NoAttributes => TemplateOf(set) = <<>>
           /\ set.template # NoAttributes => TemplateOf(set) = TemplateElement(set)
<1> DEFINE n == Len(set.timeline)
           s == Items(set.timeline)
<1>1. n \in Nat
    BY DEF IsList
<1>2. IsList(s) /\ Len(s) = n /\ \A k \in 1 .. n : s[k] = Empty("S", set.timeline[k])
  <2>1. s = [k \in 1 .. n |-> s[k]] /\ \A k \in 1 .. n : s[k] = Empty("S", set.timeline[k])
      BY DEF Items
  <2> HIDE DEF s
  <2> QED BY <1>1, <2>1, FunctionIsList
<1>3. Only(s, TemplateElements)
  <2>1. \A x : Empty("S", x).event = "start" /\ Empty("S", x).name = "S"
      BY DEF Empty
  <2> HIDE DEF s, n
  <2> QED BY <1>2, <2>1 DEF Only, TemplateElements
<1> HIDE DEF s, n
<1>4. Only(TimelineElement(set), TemplateElements)
  <2>1. Only(Element("SegmentTimeline", NoAttributes, s), TemplateElements)
      BY <1>3, OnlyElement DEF TemplateElements
  <2> QED BY <2>1, OnlyNothing DEF TimelineElement, s
<1>5. Only(TemplateElement(set), TemplateElements)
  <2> DEFINE c == TimelineElement(set)
  <2> HIDE DEF c
  <2>1. Only(Element("SegmentTemplate", set.template, c), TemplateElements)
      BY <1>4, OnlyElement DEF TemplateElements, c
  <2> QED BY <2>1 DEF TemplateElement, c
<1>6. /\ set.template = NoAttributes => TemplateOf(set) = <<>>
      /\ set.template # NoAttributes => TemplateOf(set) = TemplateElement(set)
    BY DEF TemplateOf, TemplateElement, TimelineElement, Items
<1> QED BY <1>2, <1>4, <1>5, <1>6, OnlyNothing DEF Only, s

\* A template with all its attributes gives its set's segments, and is locked in
\* if the set is of video.
LEMMA CompleteRead ==
    ASSUME NEW set, IsList(set.timeline), Complete(set), NEW p, IsDash(p), p.locked = FALSE,
           p.isVideo = TRUE \/ p.timeline = <<>>, NEW q, q = DashRun(p, TemplateOf(set))
    PROVE  HasSegments(set, q) /\ q.locked = p.isVideo
<1> DEFINE d  == Start("SegmentTemplate", set.template)
           p1 == ReadEvent(p, d)
           p2 == DashRun(p1, TimelineElement(set))
<1>1. set.template # NoAttributes
  <2>1. DOMAIN NoAttributes = {}
      BY DEF NoAttributes
  <2> QED BY <2>1 DEF Complete
<1>2. IsList(TimelineElement(set)) /\ TemplateOf(set) = TemplateElement(set) /\ IsList(Items(set.timeline))
    BY <1>1, TemplateForm
<1>3. q = p2
  <2>1. q = ReadEvent(p2, End("SegmentTemplate"))
      BY <1>2, RunOfElement DEF TemplateElement, DashRun
  <2> HIDE DEF p2
  <2> QED BY <2>1 DEF ReadEvent, EndElement, End
<1>4. d.event = "start" /\ d.name = "SegmentTemplate" /\ d.attributes = set.template
    BY DEF Start
<1>5. p1 = StartSegmentTemplate(p, d)
  <2> HIDE DEF d
  <2> QED BY <1>4 DEF ReadEvent, StartElement
<1> DEFINE uniform == Attr(d, "duration", IF p.isVideo THEN 0 ELSE p.uniform)
<1>6. p1 = [p EXCEPT !.capturing = TRUE, !.locked = p.isVideo, !.timeline = <<>>,
                     !.uniform = uniform, !.init = SomeUrl(set.template.initialization),
                     !.media = SomeUrl(set.template.media), !.scale = set.template.timescale,
                     !.startNumber = set.template.startNumber]
  <2>1. /\ HasAttr(d, "initialization") /\ HasAttr(d, "media")
        /\ Attr(d, "timescale", p.scale) = set.template.timescale
        /\ Attr(d, "startNumber", p.startNumber) = set.template.startNumber
      BY <1>4 DEF Complete, HasAttr, Attr
  <2>2. (IF p.isVideo THEN <<>> ELSE p.timeline) = <<>>
      OBVIOUS
  <2> HIDE DEF d, uniform
  <2> DEFINE timeline == IF p.isVideo THEN <<>> ELSE p.timeline
  <2>3. p1 = [p EXCEPT !.capturing = TRUE, !.locked = p.isVideo, !.timeline = timeline,
                     !.uniform = uniform, !.init = SomeUrl(set.template.initialization),
                     !.media = SomeUrl(set.template.media), !.scale = set.template.timescale,
                     !.startNumber = set.template.startNumber]
      BY <1>4, <1>5, <2>1 DEF StartSegmentTemplate, uniform
  <2> QED BY <2>2, <2>3
<1>7. set.timeline = <<>> => uniform = set.template.duration
    BY <1>4 DEF Complete, HasAttr, Attr
<1> HIDE DEF uniform, p1, p2, d
<1>8. /\ IsDash(p1) /\ p1.capturing = TRUE /\ p1.timeline = <<>> /\ p1.locked = p.isVideo
      /\ p1.uniform = uniform
    BY <1>6 DEF IsDash
<1>9. /\ p1.init = SomeUrl(set.template.initialization) /\ p1.media = SomeUrl(set.template.media)
      /\ p1.scale = set.template.timescale /\ p1.startNumber = set.template.startNumber
    BY <1>6 DEF IsDash
<1>10. CASE set.timeline = <<>>
  <2>1. p2 = p1
      BY <1>10, RunOfEmpty DEF TimelineElement, DashRun, p2
  <2>2. ItemsRead(set.timeline, Len(set.timeline)) = <<>>
      BY <1>10 DEF ItemsRead
  <2> QED BY <1>3, <1>7, <1>8, <1>9, <2>1, <2>2 DEF HasSegments
<1>11. CASE set.timeline # <<>>
  <2> DEFINE t  == Start("SegmentTimeline", NoAttributes)
             p3 == ReadEvent(p1, t)
             p4 == DashRun(p3, Items(set.timeline))
  <2>1. p2 = ReadEvent(p4, End("SegmentTimeline"))
      BY <1>2, <1>11, RunOfElement DEF TimelineElement, DashRun, p2
  <2>2. p3 = p1
      BY DEF ReadEvent, StartElement, Start
  <2>3. p2 = p4
    <3> HIDE DEF p4
    <3> QED BY <2>1 DEF ReadEvent, EndElement, End
  <2>4. \A i \in 1..Len(set.timeline) : IsItem(set.timeline[i])
      BY <1>11 DEF Complete, IsItem
  <2>5. p4 = DashRun(p1, Items(set.timeline))
      BY <2>2
  <2> HIDE DEF p4, p3
  <2>6. TimelineKeeps(p1, p4) /\ p4.timeline = ItemsRead(set.timeline, Len(set.timeline))
      BY <1>8, <2>4, <2>5, ItemsInTurn
  <2> QED BY <1>3, <1>8, <1>9, <1>11, <2>3, <2>6 DEF HasSegments, TimelineKeeps
<1> QED BY <1>10, <1>11

-----------------------------------------------------------------------------
(* An MPD of another origin: its sets *)

\* Between the sets.
Between(p) ==
    IsDash(p) /\ p.capturing = FALSE /\ p.awaitingUrl = FALSE /\ p.inSegmentBase = FALSE
IsSet(set) ==
    /\ IsList(set.timeline) /\ IsList(set.reps) /\ set.reps # <<>>
    /\ set.type # "video" => \A x \in {set} \union Range(set.reps) : x.mime \notin VideoMimeTypes
    /\ \A r \in 1..Len(set.reps) : HasFile(set.reps[r])
OfVideoSet(set) == set.type = "video"

SetAttributesOf(set) == WithMime([contentType |-> set.type], set)
SetContentOf(set) == Joined(TemplateOf(set), FlattenSeq(RepsEvents(set.reps)))

\* What a set does to the state of the parser.
SetDone(set, p, q) ==
    /\ MpdKept(p, q) /\ Between(q)
    /\ set.template = NoAttributes \/ p.locked = TRUE => SegmentsKept(p, q)
    /\ Complete(set) /\ p.locked = FALSE /\ (OfVideoSet(set) \/ p.timeline = <<>>) =>
          HasSegments(set, q) /\ q.locked = OfVideoSet(set)
    /\ ~OfVideoSet(set) /\ p.locked = FALSE => q.locked = FALSE
    /\ ChosenIndex(OfVideoSet(set), set.reps[1], p, q)

\* Like SetEvents, with the names above.
LEMMA SetForm ==
    ASSUME NEW set
    PROVE  SetEvents(set) = Element("AdaptationSet", SetAttributesOf(set), SetContentOf(set))
<1>1. RepsEvents(set.reps) =
        [r \in 1..Len(set.reps) |->
              Element("Representation", WithMime([bandwidth |-> set.reps[r].bandwidth], set.reps[r]),
                      IndexOf(set.reps[r]))]
    BY DEF RepsEvents, RepEvents, RepAttributes
<1> QED BY <1>1 DEF SetEvents, SetAttributesOf, SetContentOf, Joined

LEMMA SetStarts ==
    ASSUME NEW set, IsSet(set), NEW p, Between(p),
           NEW q, q = ReadEvent(p, Start("AdaptationSet", SetAttributesOf(set)))
    PROVE  /\ MpdKept(p, q) /\ SegmentsKept(p, q) /\ IndexKept(p, q) /\ InKind(q, OfVideoSet(set))
           /\ q.capturing = FALSE
<1> DEFINE e == Start("AdaptationSet", SetAttributesOf(set))
           video == \/ Attr(e, "contentType", "none") = "video"
                    \/ Attr(e, "mimeType", "none") \in VideoMimeTypes
           a == [contentType |-> set.type]
<1>1. e.event = "start" /\ e.name = "AdaptationSet" /\ e.attributes = WithMime(a, set)
    BY DEF Start, SetAttributesOf
<1>2. "mimeType" \notin DOMAIN a /\ "contentType" \in DOMAIN a /\ a["contentType"] = set.type
    OBVIOUS
<1>3. q = ReadEvent(p, e)
    OBVIOUS
<1> HIDE DEF e, a
<1>4. /\ Attr(e, "mimeType", "none") = set.mime
      /\ "contentType" \in DOMAIN e.attributes /\ e.attributes["contentType"] = set.type
    BY <1>1, <1>2, MimeAttributes
<1>5. Attr(e, "contentType", "none") = set.type
    BY <1>4 DEF Attr, HasAttr
<1>6. set.type # "video" => set.mime \notin VideoMimeTypes
    BY DEF IsSet
<1>7. video = OfVideoSet(set)
    BY <1>4, <1>5, <1>6, Zenon DEF OfVideoSet
<1>8. q = [p EXCEPT !.inSet = TRUE, !.isVideo = video]
    BY <1>1, <1>3 DEF ReadEvent, StartElement, StartAdaptationSet
<1> HIDE DEF video
<1>9. InKind(q, OfVideoSet(set)) /\ q.capturing = FALSE
    BY <1>7, <1>8 DEF InKind, InSet, Between, IsDash
<1>10. MpdKept(p, q) /\ SegmentsKept(p, q) /\ IndexKept(p, q)
    BY <1>8 DEF MpdKept, SegmentsKept, IndexKept, Between, IsDash
<1> QED BY <1>9, <1>10

\* What the template of a set does to the state of the parser.
SetTemplateDone(set, video, p, q) ==
    /\ MpdKept(p, q) /\ IndexKept(p, q) /\ InKind(q, video)
    /\ set.template = NoAttributes \/ p.locked = TRUE => SegmentsKept(p, q)
    /\ Complete(set) /\ p.locked = FALSE /\ (video = TRUE \/ p.timeline = <<>>) =>
          HasSegments(set, q) /\ q.locked = video
    /\ video = FALSE /\ p.locked = FALSE => q.locked = FALSE

LEMMA SetTemplateRead ==
    ASSUME NEW set, IsList(set.timeline), NEW video \in BOOLEAN, NEW p, InKind(p, video),
           p.capturing = FALSE, NEW q, q = DashRun(p, TemplateOf(set))
    PROVE  SetTemplateDone(set, video, p, q)
<1>1. IsDash(p) /\ p.isVideo = video
    BY DEF InKind, InSet
<1>2. TemplateDone(p, q)
  <2>1. Only(TemplateOf(set), TemplateElements)
      BY TemplateForm
  <2> QED BY <1>1, <2>1, TemplatesRead
<1>3. MpdKept(p, q) /\ IndexKept(p, q) /\ InKind(q, video)
    BY <1>2 DEF TemplateDone, AroundKept, InKind, InSet, MpdKept
<1>4. ASSUME set.template = NoAttributes PROVE SegmentsKept(p, q)
  <2>1. TemplateOf(set) = <<>>
      BY <1>4, TemplateForm
  <2>2. q = p
      BY <2>1, RunOfEmpty DEF DashRun
  <2> QED BY <2>2 DEF SegmentsKept
<1>5. ASSUME p.locked = TRUE PROVE SegmentsKept(p, q)
    BY <1>2, <1>5 DEF TemplateDone, Settled
<1>6. ASSUME Complete(set), p.locked = FALSE, video = TRUE \/ p.timeline = <<>>
      PROVE  HasSegments(set, q) /\ q.locked = video
    BY <1>1, <1>6, CompleteRead
<1>7. ASSUME video = FALSE, p.locked = FALSE PROVE q.locked = FALSE
    BY <1>1, <1>2, <1>7 DEF TemplateDone, StaysOpen
<1> QED BY <1>3, <1>4, <1>5, <1>6, <1>7 DEF SetTemplateDone

LEMMA SetRead ==
    ASSUME NEW set, IsSet(set), NEW p, Between(p), NEW q, q = DashRun(p, SetEvents(set))
    PROVE  IsList(SetEvents(set)) /\ SetDone(set, p, q)
<1> DEFINE video == OfVideoSet(set)
           reps == set.reps
           p1 == ReadEvent(p, Start("AdaptationSet", SetAttributesOf(set)))
           p2 == DashRun(p1, TemplateOf(set))
           p3 == DashRun(p2, FlattenSeq(RepsEvents(reps)))
<1>0. video \in BOOLEAN /\ IsList(set.timeline)
    BY DEF OfVideoSet, IsSet
<1>1. p1 = ReadEvent(p, Start("AdaptationSet", SetAttributesOf(set)))
    OBVIOUS
<1> HIDE DEF p1
<1>2. /\ MpdKept(p, p1) /\ SegmentsKept(p, p1) /\ IndexKept(p, p1) /\ InKind(p1, video)
      /\ p1.capturing = FALSE
    BY <1>1, SetStarts
<1>3. p2 = DashRun(p1, TemplateOf(set))
    OBVIOUS
<1> HIDE DEF p2, video
<1>21. SetTemplateDone(set, video, p1, p2)
    BY <1>0, <1>2, <1>3, SetTemplateRead
<1>4. /\ MpdKept(p1, p2) /\ IndexKept(p1, p2) /\ InKind(p2, video)
      /\ set.template = NoAttributes \/ p1.locked = TRUE => SegmentsKept(p1, p2)
      /\ Complete(set) /\ p1.locked = FALSE /\ (video = TRUE \/ p1.timeline = <<>>) =>
            HasSegments(set, p2) /\ p2.locked = video
      /\ video = FALSE /\ p1.locked = FALSE => p2.locked = FALSE
    BY <1>21 DEF SetTemplateDone
<1>5. p3 = DashRun(p2, FlattenSeq(RepsEvents(reps)))
    OBVIOUS
<1> HIDE DEF p3
<1>6. \A r \in 1..Len(reps) : OfKind(reps[r], video)
  <2> SUFFICES ASSUME NEW r \in 1..Len(reps) PROVE OfKind(reps[r], video)
      OBVIOUS
  <2>1. reps[r] \in Range(reps)
    <3>1. reps \in Seq(Range(reps))
        BY DEF IsSet, IsList
    <3> QED BY <3>1
  <2>2. HasFile(reps[r]) /\ (set.type # "video" => reps[r].mime \notin VideoMimeTypes)
      BY <2>1 DEF IsSet
  <2> QED BY <2>2 DEF OfKind, video, OfVideoSet
<1>7. IsList(FlattenSeq(RepsEvents(reps))) /\ RepChose(video, reps[1], p2, p3)
  <2>1. IsList(reps) /\ reps # <<>>
      BY DEF IsSet
  <2> HIDE DEF reps
  <2> QED BY <1>0, <1>4, <1>5, <1>6, <2>1, RepsRead
<1> HIDE DEF reps
<1>8. IsList(TemplateOf(set))
    BY <1>0, TemplateForm DEF Only
<1>9. IsList(SetContentOf(set)) /\ DashRun(p1, SetContentOf(set)) = p3
  <2> DEFINE a == TemplateOf(set)
             b == FlattenSeq(RepsEvents(reps))
  <2>1. IsList(a) /\ IsList(b) /\ SetContentOf(set) = Joined(a, b)
      BY <1>7, <1>8 DEF SetContentOf, reps
  <2>2. p3 = DashRun(DashRun(p1, a), b)
      BY <1>3, <1>5
  <2> HIDE DEF a, b
  <2>3. IsJoin(Joined(a, b), a, b)
      BY <2>1, JoinedIsList, Zenon
  <2>4. DashRun(p1, Joined(a, b)) = DashRun(DashRun(p1, a), b)
      BY <2>1, RunOfJoined DEF DashRun
  <2> QED BY <2>1, <2>2, <2>3, <2>4 DEF IsJoin
<1>10. IsList(SetEvents(set)) /\ q = ReadEvent(p3, End("AdaptationSet"))
    BY <1>1, <1>9, SetForm, RunOfElement DEF DashRun
<1>11. q = [p3 EXCEPT !.inSet = FALSE, !.isVideo = FALSE, !.capturing = FALSE]
    BY <1>10 DEF ReadEvent, EndElement, End
<1>12. RepDone(video, p2, p3) /\ InSet(p3)
    BY <1>7 DEF RepChose, RepDone, InKind
<1>13. Between(q)
    BY <1>11, <1>12 DEF Between, InSet, IsDash
<1>14. MpdKept(p3, q) /\ SegmentsKept(p3, q) /\ IndexKept(p3, q)
    BY <1>11, <1>12, <1>13 DEF MpdKept, SegmentsKept, IndexKept, InSet, IsDash, Between
<1>15. MpdKept(p, q) /\ SegmentsKept(p2, q)
    BY <1>2, <1>4, <1>12, <1>14 DEF RepDone, MpdKept, SegmentsKept
<1>16. p1.locked = p.locked /\ p1.timeline = p.timeline
    BY <1>2 DEF SegmentsKept
<1>17. ASSUME set.template = NoAttributes \/ p.locked = TRUE PROVE SegmentsKept(p, q)
  <2>1. SegmentsKept(p1, p2)
      BY <1>4, <1>16, <1>17
  <2> QED BY <1>2, <1>15, <2>1 DEF SegmentsKept
<1>18. ASSUME Complete(set), p.locked = FALSE, OfVideoSet(set) \/ p.timeline = <<>>
       PROVE  HasSegments(set, q) /\ q.locked = OfVideoSet(set)
  <2>1. HasSegments(set, p2) /\ p2.locked = video
      BY <1>0, <1>4, <1>16, <1>18 DEF video
  <2> QED BY <1>15, <2>1 DEF HasSegments, SegmentsKept, video
<1>19. ASSUME ~OfVideoSet(set), p.locked = FALSE PROVE q.locked = FALSE
  <2>1. p2.locked = FALSE
      BY <1>0, <1>4, <1>16, <1>19 DEF video
  <2> QED BY <1>15, <2>1 DEF SegmentsKept
<1>20. ChosenIndex(OfVideoSet(set), set.reps[1], p, q)
  <2> DEFINE x == reps[1]
  <2>1. ChosenIndex(video, x, p2, p3)
      BY <1>7 DEF RepChose
  <2>2. p2.indexed = p.indexed /\ p2.indexedVideo = p.indexedVideo
      BY <1>2, <1>4 DEF IndexKept
  <2>3. q.indexed = p3.indexed /\ q.indexedVideo = p3.indexedVideo
      BY <1>14 DEF IndexKept
  <2> HIDE DEF x
  <2>4. ChosenIndex(video, x, p, q)
      BY <2>1, <2>2, <2>3 DEF ChosenIndex, FirstIndex, FromVideo, NotFromVideo, NoIndex, HasOne, IndexKept
  <2> QED BY <2>4 DEF video, x, reps
<1> QED BY <1>10, <1>13, <1>15, <1>17, <1>18, <1>19, <1>20 DEF SetDone

\* The states of the parser after each of several sets.
SetsEvents(sets) == [s \in 1..Len(sets) |-> SetEvents(sets[s])]
SetStates(sets, f, p, q) ==
    /\ f[0] = p /\ f[Len(sets)] = q
    /\ \A k \in 0..Len(sets) : MpdKept(p, f[k]) /\ Between(f[k])
    /\ \A k \in 0..Len(sets) : k < Len(sets) => SetDone(sets[k + 1], f[k], f[k + 1])

LEMMA SetsInTurn ==
    ASSUME NEW sets, IsList(sets), \A s \in 1..Len(sets) : IsSet(sets[s]), NEW p, Between(p),
           NEW q, q = DashRun(p, FlattenSeq(SetsEvents(sets)))
    PROVE  IsList(FlattenSeq(SetsEvents(sets))) /\ \E f : SetStates(sets, f, p, q)
<1> DEFINE n == Len(sets)
           s == SetsEvents(sets)
           At(k) == DashRun(p, FirstLists(s, k))
           f == [k \in 0 .. n |-> At(k)]
           T == {k \in 0 .. n : MpdKept(p, f[k]) /\ Between(f[k])}
<1>1. n \in Nat
    BY DEF IsList
<1>2. IsList(s) /\ Len(s) = n /\ \A k \in 1 .. n : s[k] = SetEvents(sets[k])
  <2>1. s = [k \in 1 .. n |-> s[k]] /\ \A k \in 1 .. n : s[k] = SetEvents(sets[k])
      BY DEF SetsEvents
  <2> HIDE DEF s
  <2> QED BY <1>1, <2>1, FunctionIsList
<1>3. \A k \in 1 .. n : IsList(s[k])
  <2> SUFFICES ASSUME NEW k \in 1 .. n PROVE IsList(SetEvents(sets[k]))
      BY <1>2
  <2>1. IsSet(sets[k])
      OBVIOUS
  <2> QED BY <2>1, SetRead
<1> HIDE DEF s
<1>4. IsList(FlattenSeq(s)) /\ InTurn(s, "dash", "none", p)
    BY <1>2, <1>3, RunOfLists
<1>5. f[0] = p /\ f[n] = q /\ \A k \in 0 .. n : k < n => f[k + 1] = DashRun(f[k], SetEvents(sets[k + 1]))
  <2>1. At(0) = p /\ At(n) = q /\ \A k \in 0 .. n : k < n => At(k + 1) = DashRun(At(k), s[k + 1])
      BY <1>1, <1>2, <1>4 DEF InTurn, DashRun, s
  <2> HIDE DEF At
  <2>2. \A k \in 0 .. n : k < n => k + 1 \in 0 .. n /\ k + 1 \in 1 .. n
      BY <1>1
  <2> QED BY <1>1, <1>2, <2>1, <2>2
<1> HIDE DEF f
<1>6. 0 \in T
  <2>1. MpdKept(p, p)
      BY DEF MpdKept, Between
  <2> QED BY <1>1, <1>5, <2>1
<1>7. ASSUME NEW k \in 0 .. n, k < n, Between(f[k]) PROVE SetDone(sets[k + 1], f[k], f[k + 1])
  <2> DEFINE set == sets[k + 1]
             a == f[k]
             b == f[k + 1]
  <2>1. IsSet(set) /\ b = DashRun(a, SetEvents(set)) /\ Between(a)
      BY <1>1, <1>5, <1>7
  <2> HIDE DEF set, a, b
  <2>2. SetDone(set, a, b)
      BY <2>1, SetRead
  <2> QED BY <2>2 DEF set, a, b
<1>8. ASSUME NEW k \in 0 .. n, k < n, k \in T PROVE k + 1 \in T
  <2>1. SetDone(sets[k + 1], f[k], f[k + 1]) /\ MpdKept(p, f[k]) /\ k + 1 \in 0 .. n
      BY <1>1, <1>7, <1>8
  <2>2. MpdKept(p, f[k + 1]) /\ Between(f[k + 1])
      BY <2>1 DEF SetDone, MpdKept
  <2> QED BY <2>1, <2>2
<1>9. \A k \in 0 .. n : k \in T
  <2> HIDE DEF T, n
  <2> QED BY <1>1, <1>6, <1>8, CountUp, Zenon
<1>10. SetStates(sets, f, p, q)
    BY <1>5, <1>7, <1>9 DEF SetStates
<1> QED BY <1>4, <1>10 DEF s

\* The segments are those of the first video set, or of the only set with a template.
LEMMA TemplateSetsRead ==
    ASSUME NEW sets, Len(sets) \in Nat, NEW v \in 1..Len(sets), Complete(sets[v]),
           \A s \in 1..v - 1 : ~OfVideoSet(sets[s]),
           OfVideoSet(sets[v]) \/ (v = 1 /\ \A s \in 2..Len(sets) : sets[s].template = NoAttributes),
           NEW p, p.locked = FALSE, p.timeline = <<>>, NEW q, NEW f, SetStates(sets, f, p, q)
    PROVE  HasSegments(sets[v], q)
<1> DEFINE n == Len(sets)
           set == sets[v]
           So(k) == /\ k < v => f[k].locked = FALSE
                    /\ k >= v => HasSegments(set, f[k]) /\ (OfVideoSet(set) => f[k].locked = TRUE)
           T == {k \in 0 .. n : So(k)}
<1>1. 0 \in T
  <2>1. f[0].locked = FALSE
      BY DEF SetStates
  <2> QED BY <2>1
<1>2. ASSUME NEW k \in 0 .. n, k < n, k \in T PROVE k + 1 \in T
  <2>1. SetDone(sets[k + 1], f[k], f[k + 1]) /\ k + 1 \in 1 .. n /\ k + 1 \in 0 .. n
      BY <1>2 DEF SetStates
  <2>2. CASE k + 1 < v
    <3>1. ~OfVideoSet(sets[k + 1]) /\ f[k].locked = FALSE
        BY <1>2, <2>1, <2>2
    <3>2. f[k + 1].locked = FALSE
        BY <2>1, <3>1 DEF SetDone
    <3> QED BY <2>1, <2>2, <3>2
  <2>3. CASE k + 1 = v
    <3>1. f[k].locked = FALSE /\ set = sets[k + 1]
        BY <1>2, <2>3
    <3>2. OfVideoSet(set) \/ f[k].timeline = <<>>
      <4>1. CASE v = 1
        <5>1. k = 0
            BY <2>3, <4>1
        <5> QED BY <5>1 DEF SetStates
      <4> QED BY <4>1
    <3>3. Complete(set)
        OBVIOUS
    <3> HIDE DEF set
    <3>4. HasSegments(set, f[k + 1]) /\ f[k + 1].locked = OfVideoSet(set)
        BY <2>1, <3>1, <3>2, <3>3 DEF SetDone
    <3> QED BY <2>1, <2>3, <3>4
  <2>4. CASE k + 1 > v
    <3>1. HasSegments(set, f[k]) /\ (OfVideoSet(set) => f[k].locked = TRUE)
        BY <1>2, <2>4
    <3>2. sets[k + 1].template = NoAttributes \/ f[k].locked = TRUE
      <4>1. CASE OfVideoSet(set)
          BY <3>1, <4>1
      <4>2. CASE ~OfVideoSet(set)
        <5>1. v = 1 /\ k + 1 \in 2 .. n
            BY <2>1, <2>4, <4>2
        <5> QED BY <4>2, <5>1
      <4> QED BY <4>1, <4>2
    <3>3. SegmentsKept(f[k], f[k + 1])
        BY <2>1, <3>2 DEF SetDone
    <3> HIDE DEF set
    <3>4. HasSegments(set, f[k + 1]) /\ (OfVideoSet(set) => f[k + 1].locked = TRUE)
        BY <3>1, <3>3 DEF SegmentsKept, HasSegments
    <3> QED BY <2>1, <2>4, <3>4
  <2>5. k + 1 < v \/ k + 1 = v \/ k + 1 > v
      BY <2>1
  <2> HIDE DEF T
  <2> QED BY <2>2, <2>3, <2>4, <2>5
<1>3. n \in T
  <2> HIDE DEF T
  <2>1. \A k \in 0 .. n : k \in T
      BY <1>1, <1>2, CountUp, Zenon
  <2> QED BY <2>1
<1> QED BY <1>3 DEF SetStates

\* Without templates the index is that of the first video set.
LEMMA IndexSetsRead ==
    ASSUME NEW sets, Len(sets) \in Nat, NEW v \in 1..Len(sets), OfVideoSet(sets[v]),
           \A s \in 1..v - 1 : ~OfVideoSet(sets[s]), sets[v].reps[1].indexed,
           \A s \in 1..Len(sets) : sets[s].template = NoAttributes,
           NEW p, NotFromVideo(p), NEW q, NEW f, SetStates(sets, f, p, q)
    PROVE  SegmentsKept(p, q) /\ q.indexed = WithIndex(sets[v].reps[1])
<1> DEFINE n == Len(sets)
           rep == sets[v].reps[1]
           So(k) == /\ SegmentsKept(p, f[k])
                    /\ k < v => NotFromVideo(f[k])
                    /\ k >= v => FromVideo(f[k]) /\ f[k].indexed = WithIndex(rep)
           T == {k \in 0 .. n : So(k)}
<1>1. 0 \in T
  <2>1. f[0] = p /\ SegmentsKept(p, p)
      BY DEF SetStates, SegmentsKept
  <2> QED BY <2>1
<1>2. ASSUME NEW k \in 0 .. n, k < n, k \in T PROVE k + 1 \in T
  <2>1. SetDone(sets[k + 1], f[k], f[k + 1]) /\ k + 1 \in 1 .. n /\ k + 1 \in 0 .. n
      BY <1>2 DEF SetStates
  <2> DEFINE set == sets[k + 1]
             first == set.reps[1]
             a == f[k]
             b == f[k + 1]
  <2>2. So(k)
      BY <1>2
  <2>3. SegmentsKept(a, b) /\ ChosenIndex(OfVideoSet(set), first, a, b)
      BY <2>1 DEF SetDone
  <2>4. SegmentsKept(p, b)
      BY <2>2, <2>3 DEF SegmentsKept
  <2>5. CASE k + 1 < v
    <3>1. ~OfVideoSet(set) /\ NotFromVideo(a)
        BY <2>1, <2>2, <2>5
    <3> HIDE DEF set, first, a, b
    <3>2. NotFromVideo(b)
        BY <2>3, <3>1 DEF ChosenIndex
    <3> QED BY <2>1, <2>4, <2>5, <3>2 DEF b
  <2>6. CASE k + 1 = v
    <3>1. OfVideoSet(set) /\ NotFromVideo(a) /\ first.indexed /\ first = rep
        BY <2>1, <2>2, <2>6
    <3>2. OfVideoSet(set) = TRUE
        BY <3>1 DEF OfVideoSet
    <3> HIDE DEF set, first, a, b, rep
    <3>3. b.indexed = WithIndex(first) /\ FromVideo(b)
        BY <2>3, <3>1, <3>2 DEF ChosenIndex
    <3> QED BY <2>1, <2>4, <2>6, <3>1, <3>3 DEF b
  <2>7. CASE k + 1 > v
    <3>1. FromVideo(a) /\ a.indexed = WithIndex(rep)
        BY <2>2, <2>7
    <3> HIDE DEF set, first, a, b, rep
    <3>2. IndexKept(a, b)
        BY <2>3, <3>1 DEF ChosenIndex
    <3>3. FromVideo(b) /\ b.indexed = WithIndex(rep)
        BY <3>1, <3>2 DEF IndexKept, FromVideo
    <3> QED BY <2>1, <2>4, <2>7, <3>3 DEF b
  <2> QED BY <1>2, <2>1, <2>5, <2>6, <2>7
<1>3. n \in T
  <2> HIDE DEF T
  <2>1. \A k \in 0 .. n : k \in T
      BY <1>1, <1>2, CountUp, Zenon
  <2> QED BY <2>1
<1> QED BY <1>3 DEF SetStates

-----------------------------------------------------------------------------
(* An MPD of another origin *)

\* Nothing is read yet of the sets.
Fresh(p) ==
    /\ Between(p) /\ p.locked = FALSE /\ p.timeline = <<>> /\ p.media = Missing
    /\ NotFromVideo(p) /\ NoIndex(p)
HasBase(mpd, p) == p.base = IF mpd.base.present THEN SomeUrl(mpd.base.url) ELSE Missing
MpdStart(mpd) ==
    [type |-> IF mpd.live THEN "dynamic" ELSE "static", mediaPresentationDuration |-> mpd.total]
PeriodSets(mpd) == Element("Period", NoAttributes, FlattenSeq(SetsEvents(mpd.sets)))

IsLive(mpd)     == mpd.live \in BOOLEAN
HasAbsolute(mpd) == mpd.base.present => mpd.base.url.kind = "absolute"
MpdBegun(mpd, p) == Fresh(p) /\ p.live = mpd.live /\ p.total = mpd.total
AtStart(p)       == p.base = Missing /\ p.inRep = FALSE

LEMMA MpdStarts ==
    ASSUME NEW mpd, IsLive(mpd), NEW p, p = ReadEvent(DashStart, Start("MPD", MpdStart(mpd)))
    PROVE  MpdBegun(mpd, p) /\ AtStart(p)
<1> USE DEF IsLive, MpdBegun, AtStart
<1> DEFINE d == Start("MPD", MpdStart(mpd))
           live == Attr(d, "type", "static") = "dynamic"
<1>1. d.event = "start" /\ d.name = "MPD" /\ Attr(d, "mediaPresentationDuration", 0) = mpd.total
    BY DEF Start, Attr, HasAttr, MpdStart
<1>2. live = mpd.live
  <2>1. Attr(d, "type", "static") = IF mpd.live THEN "dynamic" ELSE "static"
      BY DEF Start, Attr, HasAttr, MpdStart
  <2> QED BY <2>1
<1>3. DashStart.total = 0
    BY DEF DashStart
<1>4. p = ReadEvent(DashStart, d)
    OBVIOUS
<1> HIDE DEF d
<1>5. p = StartMpd(DashStart, d)
    BY <1>1, <1>4 DEF ReadEvent, StartElement
<1>6. p = [DashStart EXCEPT !.live = mpd.live, !.total = mpd.total]
    BY <1>1, <1>2, <1>3, <1>5 DEF StartMpd
<1>7. /\ Fresh(DashStart) /\ DashStart.base = Missing /\ DashStart.inRep = FALSE
    BY DEF DashStart, Fresh, Between, NotFromVideo, NoIndex, NoRep, Missing, IsDash
<1>8. p.live = mpd.live /\ p.total = mpd.total /\ p.base = Missing /\ p.inRep = FALSE /\ IsDash(p)
    BY <1>6, <1>7 DEF Fresh, Between, IsDash
<1>9. /\ p.capturing = FALSE /\ p.awaitingUrl = FALSE /\ p.inSegmentBase = FALSE /\ p.locked = FALSE
      /\ p.timeline = <<>> /\ p.media = Missing /\ p.indexedVideo = FALSE /\ NoIndex(p)
    BY <1>6, <1>7 DEF Fresh, Between, IsDash, NotFromVideo, NoIndex
<1> QED BY <1>8, <1>9 DEF Fresh, Between, NotFromVideo

\* The BaseURL of an MPD.
LEMMA MpdUrlRead ==
    ASSUME NEW mpd, HasAbsolute(mpd), NEW p, MpdBegun(mpd, p), AtStart(p),
           NEW q, q = DashRun(p, BaseUrl(mpd.base))
    PROVE  IsList(BaseUrl(mpd.base)) /\ MpdBegun(mpd, q) /\ HasBase(mpd, q)
<1> USE DEF HasAbsolute, MpdBegun, AtStart
<1>1. CASE ~ mpd.base.present
  <2>1. BaseUrl(mpd.base) = <<>>
      BY <1>1 DEF BaseUrl
  <2>2. q = p /\ IsList(<<>>)
      BY <2>1, RunOfEmpty, EmptyIsList DEF DashRun
  <2> QED BY <1>1, <2>1, <2>2 DEF HasBase
<1>2. CASE mpd.base.present
  <2> DEFINE url == mpd.base.url
             d == Start("BaseURL", NoAttributes)
             t == Text(url)
             p1 == ReadEvent(p, d)
             p2 == DashRun(p1, <<t>>)
  <2>1. BaseUrl(mpd.base) = Element("BaseURL", NoAttributes, <<t>>)
      BY <1>2 DEF BaseUrl
  <2>2. IsList(<<t>>)
      BY ShortLists, Zenon
  <2>3. IsList(BaseUrl(mpd.base)) /\ q = ReadEvent(p2, End("BaseURL"))
    <3> HIDE DEF t
    <3> QED BY <2>1, <2>2, RunOfElement DEF DashRun
  <2>4. p1 = [p EXCEPT !.awaitingUrl = TRUE]
      BY DEF ReadEvent, StartElement, Start
  <2>5. p2 = ReadEvent(p1, t)
    <3> HIDE DEF p1, t
    <3> QED BY RunOfOne DEF DashRun, ReadItem
  <2>6. t.event = "text" /\ t.url = url
      BY DEF Text
  <2> HIDE DEF p1, t
  <2>7. p1.awaitingUrl = TRUE /\ p1.inRep = FALSE /\ p1.base = Missing /\ IsDash(p1)
      BY <2>4 DEF Fresh, Between, IsDash
  <2>8. p2 = [p1 EXCEPT !.awaitingUrl = FALSE, !.base = SomeUrl(url)]
    <3>1. url.kind = "absolute" /\ Missing.present = FALSE
        BY <1>2 DEF Missing
    <3> HIDE DEF url
    <3>2. p2 = ReadText(p1, t)
        BY <2>5, <2>6 DEF ReadEvent
    <3> QED BY <2>6, <2>7, <3>1, <3>2 DEF ReadText
  <2> HIDE DEF p2
  <2>9. q = [p2 EXCEPT !.awaitingUrl = FALSE]
      BY <2>3 DEF ReadEvent, EndElement, End
  <2>10. IsDash(p2) /\ p2.base = SomeUrl(url) /\ p2.live = p.live /\ p2.total = p.total
      BY <2>4, <2>7, <2>8 DEF IsDash, Fresh, Between
  <2>11. /\ p2.capturing = p.capturing /\ p2.inSegmentBase = p.inSegmentBase /\ p2.locked = p.locked
         /\ p2.timeline = p.timeline /\ p2.media = p.media /\ IndexKept(p, p2)
      BY <2>4, <2>7, <2>8 DEF IsDash, Fresh, Between, IndexKept
  <2>12. q.base = SomeUrl(url) /\ q.live = p.live /\ q.total = p.total /\ IsDash(q)
      BY <2>9, <2>10 DEF IsDash
  <2>13. /\ q.capturing = p.capturing /\ q.inSegmentBase = p.inSegmentBase /\ q.locked = p.locked
         /\ q.timeline = p.timeline /\ q.media = p.media /\ IndexKept(p, q)
         /\ q.awaitingUrl = FALSE
      BY <2>9, <2>10, <2>11 DEF IsDash, IndexKept
  <2> QED BY <1>2, <2>3, <2>12, <2>13 DEF Fresh, Between, NotFromVideo, NoIndex, IndexKept, HasBase
<1> QED BY <1>1, <1>2

\* What is known of the state at the end of an MPD.
MpdDone(mpd, q) ==
    /\ q.live = mpd.live /\ q.total = mpd.total /\ HasBase(mpd, q)
    /\ \E p, f : Fresh(p) /\ SetStates(mpd.sets, f, p, q)

LEMMA OtherMpdRead ==
    ASSUME NEW mpd, IsFormed(mpd), NEW q, q = DashRun(DashStart, MpdEvents(mpd))
    PROVE  IsList(MpdEvents(mpd)) /\ MpdDone(mpd, q)
<1> DEFINE sets == mpd.sets
           b  == BaseUrl(mpd.base)
           e  == PeriodSets(mpd)
           p1 == ReadEvent(DashStart, Start("MPD", MpdStart(mpd)))
           p2 == DashRun(p1, b)
           p3 == ReadEvent(p2, Start("Period", NoAttributes))
           p4 == DashRun(p3, FlattenSeq(SetsEvents(sets)))
           p5 == ReadEvent(p4, End("Period"))
<1>1. IsList(sets) /\ IsLive(mpd) /\ HasAbsolute(mpd) /\ \A s \in 1..Len(sets) : IsSet(sets[s])
    BY DEF IsFormed, IsSet, HasFile, IsLive, HasAbsolute
<1>2. MpdBegun(mpd, p1) /\ AtStart(p1)
  <2>1. p1 = ReadEvent(DashStart, Start("MPD", MpdStart(mpd)))
      OBVIOUS
  <2> HIDE DEF p1
  <2> QED BY <1>1, <2>1, MpdStarts
<1> HIDE DEF p1, b
<1>3. IsList(b) /\ MpdBegun(mpd, p2) /\ HasBase(mpd, p2)
  <2>1. p2 = DashRun(p1, BaseUrl(mpd.base))
      BY DEF b
  <2> HIDE DEF p2
  <2> QED BY <1>1, <1>2, <2>1, MpdUrlRead DEF b
<1> HIDE DEF p2
<1>4. p3 = p2
    BY DEF ReadEvent, StartElement, Start
<1>5. IsList(FlattenSeq(SetsEvents(sets))) /\ \E f : SetStates(sets, f, p2, p4)
  <2>1. p4 = DashRun(p2, FlattenSeq(SetsEvents(sets))) /\ Between(p2)
      BY <1>3, <1>4 DEF Fresh, MpdBegun
  <2> HIDE DEF p4, sets
  <2> QED BY <1>1, <2>1, SetsInTurn
<1>6. IsList(e) /\ DashRun(p2, e) = p5
    BY <1>5, RunOfElement DEF DashRun, PeriodSets
<1>7. p5 = p4
  <2> HIDE DEF p4
  <2> QED BY DEF ReadEvent, EndElement, End
<1> HIDE DEF e, p3, p4, p5
<1>8. MpdEvents(mpd) = Element("MPD", MpdStart(mpd), Joined(b, e))
    BY DEF MpdEvents, MpdStart, Joined, b, e, PeriodSets, SetsEvents
<1>9. IsList(Joined(b, e)) /\ DashRun(p1, Joined(b, e)) = p5
  <2>1. IsJoin(Joined(b, e), b, e)
      BY <1>3, <1>6, JoinedIsList, Zenon
  <2> QED BY <1>3, <1>6, <2>1, RunOfJoined DEF IsJoin, DashRun, p2
<1>10. IsList(MpdEvents(mpd)) /\ q = ReadEvent(p5, End("MPD"))
    BY <1>8, <1>9, RunOfElement DEF DashRun, p1
<1>11. q = p5
    BY <1>10 DEF ReadEvent, EndElement, End
<1>12. PICK f : SetStates(sets, f, p2, q)
    BY <1>5, <1>7, <1>11
<1>13. MpdKept(p2, q)
  <2>1. Len(sets) \in 0..Len(sets)
    <3>1. Len(sets) \in Nat
        BY <1>1 DEF IsList
    <3> QED BY <3>1
  <2> QED BY <1>12, <2>1 DEF SetStates
<1>14. q.live = mpd.live /\ q.total = mpd.total /\ HasBase(mpd, q)
    BY <1>3, <1>13 DEF MpdKept, HasBase, MpdBegun
<1> QED BY <1>3, <1>10, <1>12, <1>14 DEF MpdDone, MpdBegun

-----------------------------------------------------------------------------
(* The durations of an MPD's segments *)

\* A sum up to some place is a partial sum of the whole.
LEMMA SumUpToPrefix ==
    ASSUME NEW n \in Nat, NEW d, NEW f, IsSum(f, d, n), NEW e \in 0..n
    PROVE  SumUpTo(d, e) = f[e]
<1> DEFINE g == [i \in 0..e |-> f[i]]
<1>1. e \in Nat /\ \A i \in 0..e : i \in 0..n
    OBVIOUS
<1>2. \A i \in 1..e : i \in 1..n /\ i - 1 \in 0..e /\ i \in 0..e
    BY <1>1
<1>3. IsSum(g, d, e)
  <2>1. g \in [0..e -> Nat]
      BY <1>1 DEF IsSum
  <2>2. g[0] = 0
      BY <1>1 DEF IsSum
  <2>3. \A i \in 1..e : g[i] = g[i - 1] + d[i]
      BY <1>2 DEF IsSum
  <2> QED BY <2>1, <2>2, <2>3 DEF IsSum
<1>4. SumUpTo(d, e) = g[e]
  <2> HIDE DEF g
  <2> QED BY <1>1, <1>3, SumUpToIsSum
<1> QED BY <1>1, <1>4

\* The segments that the S elements stand for.
TimelineCounts(timeline) == [k \in 1..Len(timeline) |-> Repeats(timeline[k]) + 1]
TimelineLasts(timeline, scale, durations) ==
    /\ IsList(durations) /\ Len(durations) = CountUpTo(timeline, Len(timeline))
    /\ \A i \in 1..Len(durations) : durations[i] = Time(timeline[EntryOf(timeline, i)].d, scale)

LEMMA TimelineExpands ==
    ASSUME NEW timeline, IsList(timeline), timeline # <<>>,
           \A i \in 1..Len(timeline) : IsItem(timeline[i]),
           NEW p, p.timeline = ItemsRead(timeline, Len(timeline))
    PROVE  TimelineLasts(timeline, p.scale, TemplateDurations(p))
<1> DEFINE n == Len(timeline)
           t == ItemsRead(timeline, n)
           one(i) == [k \in 1..t[i].r + 1 |-> Time(t[i].d, p.scale)]
           ss == [i \in 1..n |-> one(i)]
           counts == TimelineCounts(timeline)
           flat == FlattenSeq(ss)
<1>1. n \in Nat /\ n # 0
    BY DEF IsList
<1>2. \A i \in 1..n : t[i] = ItemOf(timeline[i])
    BY DEF ItemsRead
<1>3. IsList(t) /\ Len(t) = n /\ t # <<>>
  <2>1. t = [i \in 1..n |-> t[i]]
      BY DEF ItemsRead
  <2> HIDE DEF t, n
  <2>2. IsList(t) /\ Len(t) = n
      BY <1>1, <2>1, FunctionIsList
  <2> QED BY <1>1, <2>2
<1>4. \A i \in 1..n : t[i].d = timeline[i].d /\ t[i].r = Repeats(timeline[i]) /\ t[i].r \in Nat
  <2> SUFFICES ASSUME NEW i \in 1..n
               PROVE  t[i].d = timeline[i].d /\ t[i].r = Repeats(timeline[i]) /\ t[i].r \in Nat
      OBVIOUS
  <2> DEFINE s == timeline[i]
  <2>1. IsItem(s) /\ t[i] = ItemOf(s)
      BY <1>2
  <2> HIDE DEF s, t
  <2>2. Repeats(s) \in Nat
      BY <2>1 DEF IsItem, Repeats
  <2> QED BY <2>1, <2>2 DEF ItemOf, s
<1> HIDE DEF t
<1>5. TemplateDurations(p) = flat
  <2>1. p.timeline = t
      BY DEF t
  <2> QED BY <1>3, <2>1 DEF TemplateDurations, TimelineDurations
<1> DEFINE S == UNION {Range(ss[i]) : i \in 1..n}
<1>6. \A i \in 1..n : IsList(ss[i]) /\ Len(ss[i]) = t[i].r + 1
                      /\ \A k \in 1..t[i].r + 1 : ss[i][k] = Time(t[i].d, p.scale)
  <2> SUFFICES ASSUME NEW i \in 1..n
               PROVE  IsList(ss[i]) /\ Len(ss[i]) = t[i].r + 1
                      /\ \A k \in 1..t[i].r + 1 : ss[i][k] = Time(t[i].d, p.scale)
      OBVIOUS
  <2> DEFINE s == ss[i]
             c == t[i].r + 1
  <2>1. c \in Nat
      BY <1>4
  <2>2. s = [k \in 1..c |-> s[k]] /\ \A k \in 1..c : s[k] = Time(t[i].d, p.scale)
      OBVIOUS
  <2> HIDE DEF s, c
  <2>3. IsList(s) /\ Len(s) = c
      BY <2>1, <2>2, FunctionIsList
  <2> QED BY <2>2, <2>3 DEF s, c
<1>7. IsList(ss) /\ Len(ss) = n
  <2>1. ss = [i \in 1..n |-> ss[i]]
      OBVIOUS
  <2> HIDE DEF ss, n
  <2> QED BY <1>1, <2>1, FunctionIsList
<1> HIDE DEF ss
<1>8. \A i \in 1..n : ss[i] \in Seq(S)
  <2> SUFFICES ASSUME NEW i \in 1..n PROVE ss[i] \in Seq(S)
      OBVIOUS
  <2>1. ss[i] \in Seq(Range(ss[i])) /\ Range(ss[i]) \subseteq S
      BY <1>6 DEF IsList
  <2> HIDE DEF S
  <2> QED BY <2>1
<1> HIDE DEF S
<1>9. ss \in Seq(Seq(S))
  <2>1. ss \in Seq(Range(ss)) /\ DOMAIN ss = 1..n
      BY <1>7 DEF IsList
  <2> QED BY <1>7, <1>8, <2>1
<1>10. \A i \in 1..n : counts[i] = t[i].r + 1 /\ counts[i] \in Nat
    BY <1>4 DEF TimelineCounts
<1>11. PICK f : IsSum(f, counts, n)
  <2> HIDE DEF counts, n
  <2> QED BY <1>1, <1>10, SumExists
<1>12. IsSum(f, Lengths(ss), Len(ss))
  <2>1. \A i \in 1..n : Lengths(ss)[i] = counts[i]
      BY <1>6, <1>7, <1>10 DEF Lengths
  <2> HIDE DEF counts, n
  <2> QED BY <1>7, <1>11, <2>1 DEF IsSum
<1>13. FlatAt(flat, f, ss)
    BY <1>9, <1>12, FlattenPlaces
<1>14. flat \in Seq(S)
    BY <1>9, FlattenType
<1>15. IsList(flat) /\ Len(flat) = f[n]
    BY <1>7, <1>13, <1>14, SeqIsList DEF FlatAt
<1>16. \A e \in 0..n : CountUpTo(timeline, e) = f[e]
  <2> SUFFICES ASSUME NEW e \in 0..n PROVE CountUpTo(timeline, e) = f[e]
      OBVIOUS
  <2>1. CountUpTo(timeline, e) = SumUpTo(counts, e)
      BY DEF CountUpTo, TimelineCounts
  <2> HIDE DEF counts, n
  <2> QED BY <1>1, <1>11, <2>1, SumUpToPrefix
<1>17. Len(flat) = CountUpTo(timeline, n)
    BY <1>1, <1>15, <1>16
<1>18. ASSUME NEW i \in 1..Len(flat)
       PROVE  flat[i] = Time(timeline[EntryOf(timeline, i)].d, p.scale)
  <2> DEFINE e == EntryOf(timeline, i)
  <2>1. \E k \in 1..n : f[k - 1] < i /\ i <= f[k] /\ i - f[k - 1] \in 1..counts[k]
    <3>1. i \in 1..f[n]
        BY <1>15
    <3> HIDE DEF counts, n
    <3> QED BY <1>1, <1>10, <1>11, <3>1, SumPlace
  <2>2. \A k \in 1..n : k - 1 \in 0..n /\ k \in 0..n
      BY <1>1
  <2>3. \E k \in 1..n : CountUpTo(timeline, k - 1) < i /\ i <= CountUpTo(timeline, k)
    <3>1. PICK k \in 1..n : f[k - 1] < i /\ i <= f[k]
        BY <2>1
    <3>2. k - 1 \in 0..n /\ k \in 0..n
        BY <2>2
    <3>3. CountUpTo(timeline, k - 1) = f[k - 1] /\ CountUpTo(timeline, k) = f[k]
        BY <1>16, <3>2
    <3> QED BY <3>1, <3>3
  <2>4. e \in 1..n /\ CountUpTo(timeline, e - 1) < i /\ i <= CountUpTo(timeline, e)
      BY <2>3 DEF EntryOf
  <2> HIDE DEF e
  <2>5. f[e - 1] < i /\ i <= f[e]
      BY <1>16, <2>2, <2>4
  <2>6. f[e] = f[e - 1] + t[e].r + 1 /\ f[e - 1] \in Nat /\ t[e].r \in Nat
      BY <1>4, <1>10, <1>11, <2>2, <2>4 DEF IsSum
  <2>7. i - f[e - 1] \in 1..t[e].r + 1 /\ f[e - 1] + (i - f[e - 1]) = i
    <3> DEFINE a == f[e - 1]
               b == f[e]
               r == t[e].r
    <3>1. i \in Int
        OBVIOUS
    <3>2. a < i /\ i <= b /\ b = a + r + 1 /\ a \in Nat /\ r \in Nat
        BY <2>5, <2>6
    <3> HIDE DEF a, b, r
    <3>3. i - a \in 1..r + 1 /\ a + (i - a) = i
        BY <3>1, <3>2
    <3> QED BY <3>3 DEF a, r
  <2>8. flat[f[e - 1] + (i - f[e - 1])] = ss[e][i - f[e - 1]]
      BY <1>6, <1>7, <1>13, <2>4, <2>7 DEF FlatAt
  <2>9. ss[e][i - f[e - 1]] = Time(t[e].d, p.scale)
      BY <1>6, <2>4, <2>7
  <2>10. t[e].d = timeline[e].d
      BY <1>4, <2>4
  <2> QED BY <2>7, <2>8, <2>9, <2>10 DEF e
<1> QED BY <1>5, <1>15, <1>17, <1>18 DEF TimelineLasts

\* How many segments of d cover a: so many are enough, and one less is not.
LEMMA CeilingCovers ==
    ASSUME NEW a \in Nat, NEW d \in Nat \ {0}
    PROVE  Ceiling(a, d) \in Nat /\ Ceiling(a, d) * d >= a /\ (Ceiling(a, d) - 1) * d < a
<1> DEFINE x == a + d - 1
           q == x \div d
           r == x % d
<1>1. x \in Nat /\ d \in Nat /\ d > 0
    OBVIOUS
<1>2. q \in Nat /\ r \in Nat /\ r < d /\ x = d * q + r
  <2> HIDE DEF x
  <2> QED BY <1>1, Z3
<1>3. q * d = d * q /\ (q - 1) * d = d * q - d /\ d * q \in Int
  <2> HIDE DEF q, x
  <2> QED BY <1>2
<1>4. d * q >= a /\ d * q - d < a
  <2> DEFINE m == d * q
  <2>1. m \in Int /\ a + d - 1 = m + r
      BY <1>2, <1>3
  <2> HIDE DEF m, q, r
  <2>2. m >= a /\ m - d < a
      BY <1>2, <2>1
  <2> QED BY <2>2 DEF m
<1>5. Ceiling(a, d) = q
    BY DEF Ceiling
<1> HIDE DEF q
<1> QED BY <1>2, <1>3, <1>4, <1>5

\* The durations of segments that last as long as each other, but for the last.
UniformLasts(durations, d, total, scale) ==
    /\ IsList(durations)
    /\ Len(durations) * d >= total * scale /\ (Len(durations) - 1) * d < total * scale
    /\ \A i \in 1..Len(durations) : durations[i].per = scale
    /\ SumUpTo([i \in 1..Len(durations) |-> durations[i].n], Len(durations)) = total * scale

\* Segments of a fixed duration cover the presentation and no more: the code
\* behaviour is the loop over remaining_ticks in parse_dash_manifest.
LEMMA UniformCovers ==
    ASSUME NEW p, p.uniform \in Nat \ {0}, p.total \in Nat \ {0}, p.scale \in Nat \ {0}
    PROVE  UniformLasts(UniformDurations(p), p.uniform, p.total, p.scale)
<1> DEFINE d == p.uniform
           w == p.total * p.scale
           c == Ceiling(w, d)
           us == UniformDurations(p)
           n(i) == IF w - (i - 1) * d < d THEN w - (i - 1) * d ELSE d
           f == [i \in 0..c |-> IF i * d < w THEN i * d ELSE w]
           ns == [i \in 1..c |-> us[i].n]
<1>1. w \in Nat /\ d \in Nat \ {0} /\ d > 0
    OBVIOUS
<1>2. c \in Nat /\ c * d >= w /\ (c - 1) * d < w
  <2> HIDE DEF w, d
  <2> QED BY <1>1, CeilingCovers
<1>3. \A i \in 1..c : us[i] = Time(n(i), p.scale)
    BY DEF UniformDurations
<1>4. IsList(us) /\ Len(us) = c
  <2>1. us = [i \in 1..c |-> us[i]]
      BY DEF UniformDurations
  <2> HIDE DEF us, c
  <2> QED BY <1>2, <2>1, FunctionIsList
<1>5. \A i \in 1..c : us[i].per = p.scale /\ ns[i] = n(i)
  <2> SUFFICES ASSUME NEW i \in 1..c PROVE us[i].per = p.scale /\ ns[i] = n(i)
      OBVIOUS
  <2>1. us[i] = Time(n(i), p.scale) /\ ns[i] = us[i].n
      BY <1>3
  <2> HIDE DEF us, ns, n
  <2> QED BY <2>1 DEF Time
<1> HIDE DEF us, ns, c, w, d
<1>6. IsSum(f, ns, c)
  <2>1. \A i \in 0..c : i * d \in Nat
      BY <1>1, <1>2
  <2>2. f \in [0..c -> Nat]
      BY <1>1, <2>1
  <2>3. f[0] = 0
      BY <1>1, <1>2
  <2>4. ASSUME NEW i \in 1..c PROVE f[i] = f[i - 1] + ns[i]
    <3> DEFINE a == (i - 1) * d
    <3>1. i \in 0..c /\ i - 1 \in 0..c /\ i - 1 <= c - 1 /\ c - 1 \in Int
        BY <1>2
    <3>2. a \in Nat /\ i * d = a + d
        BY <1>1, <2>1, <3>1
    <3>3. a <= (c - 1) * d
        BY <1>1, <1>2, <3>1
    <3>4. (c - 1) * d \in Int
        BY <1>1, <1>2
    <3>5. a < w
      <4> DEFINE k == (c - 1) * d
      <4>1. a <= k /\ k \in Int /\ k < w
          BY <1>2, <3>3, <3>4
      <4> HIDE DEF a, k
      <4> QED BY <1>1, <3>2, <4>1
    <3>6. f[i] = (IF a + d < w THEN a + d ELSE w) /\ f[i - 1] = a
        BY <3>1, <3>2, <3>5
    <3>7. ns[i] = IF w - a < d THEN w - a ELSE d
        BY <1>5
    <3> HIDE DEF a, f
    <3> QED BY <1>1, <3>2, <3>5, <3>6, <3>7
  <2> HIDE DEF f
  <2> QED BY <2>2, <2>3, <2>4 DEF IsSum
<1>7. f[c] = w
    BY <1>1, <1>2
<1>8. SumUpTo(ns, c) = w
  <2> HIDE DEF f
  <2> QED BY <1>2, <1>6, <1>7, SumUpToIsSum
<1>9. UniformLasts(us, d, p.total, p.scale)
  <2>1. ns = [i \in 1..Len(us) |-> us[i].n]
      BY <1>4 DEF ns
  <2> QED BY <1>2, <1>4, <1>5, <1>8, <2>1 DEF UniformLasts, w
<1> QED BY <1>9 DEF us, d

-----------------------------------------------------------------------------
(* What an MPD of another origin gives *)

\* The set that is read: the first video set, or, without video, the first.
IsMain(mpd, v) ==
    /\ Main(mpd) = mpd.sets[v]
    /\ \A s \in 1..v - 1 : ~OfVideoSet(mpd.sets[s])
    /\ OfVideoSet(mpd.sets[v]) \/ (Videos(mpd) = <<>> /\ v = 1)
    /\ Videos(mpd) # <<>> => OfVideoSet(mpd.sets[v]) /\ Videos(mpd)[1] = mpd.sets[v]

LEMMA MainSet ==
    ASSUME NEW mpd, IsFormed(mpd)
    PROVE  Len(mpd.sets) \in Nat /\ \E v \in 1..Len(mpd.sets) : IsMain(mpd, v)
<1> DEFINE sets == mpd.sets
           n == Len(sets)
           V == {s \in 1..n : sets[s].type = "video"}
<1>1. IsList(sets) /\ sets # <<>>
    BY DEF IsFormed
<1>2. n \in Nat /\ n # 0
    BY <1>1 DEF IsList
<1>3. PICK S : sets \in Seq(S)
    BY <1>1 DEF IsList
<1>4. Videos(mpd) = Chosen(sets, V)
    BY DEF Videos
<1>5. CASE V = {}
  <2>1. \A i \in 1..n : i \notin V
      BY <1>5
  <2> HIDE DEF V
  <2>2. Videos(mpd) = <<>>
      BY <1>3, <1>4, <2>1, ChosenNone
  <2>3. Main(mpd) = sets[1] /\ 1 \in 1..n
      BY <1>2, <2>2 DEF Main
  <2>4. \A s \in 1..1 - 1 : ~OfVideoSet(sets[s])
      OBVIOUS
  <2> QED BY <1>2, <2>2, <2>3, <2>4 DEF IsMain
<1>6. CASE V # {}
  <2>1. V \subseteq Nat
      OBVIOUS
  <2> HIDE DEF V
  <2>2. PICK v \in V : \A k \in V : v <= k
      BY <1>6, <2>1, LeastNatural
  <2>3. v \in 1..n /\ OfVideoSet(sets[v])
      BY <2>2 DEF V, OfVideoSet
  <2>4. \A s \in 1..v - 1 : s \in 1..n /\ s \notin V
    <3> SUFFICES ASSUME NEW s \in 1..v - 1 PROVE s \in 1..n /\ s \notin V
        OBVIOUS
    <3>1. s \in 1..n /\ ~(v <= s)
        BY <1>2, <2>3
    <3> QED BY <2>2, <3>1
  <2>5. Videos(mpd) # <<>> /\ Videos(mpd)[1] = sets[v]
      BY <1>3, <1>4, <2>2, <2>3, <2>4, ChosenFirst
  <2>6. \A s \in 1..v - 1 : ~OfVideoSet(sets[s])
      BY <2>4 DEF V, OfVideoSet
  <2> QED BY <1>2, <2>3, <2>5, <2>6 DEF IsMain, Main
<1> QED BY <1>2, <1>5, <1>6

\* A name that can be resolved can be with a number in it.
LEMMA NameResolves ==
    ASSUME NEW reference, CanResolve(reference), NEW base, NEW n
    PROVE  Join(base, reference).ok = TRUE /\ Join(base, ReplaceNumber(reference, n)).ok = TRUE
<1>1. ASSUME NEW r, CanResolve(r) PROVE Join(base, r).ok = TRUE
    BY <1>1 DEF CanResolve, Join, Resolved
<1>2. CanResolve(ReplaceNumber(reference, n))
  <2> DEFINE r == ReplaceNumber(reference, n)
  <2>1. IsReference(r) /\ r.kind = reference.kind /\ r.query = reference.query
      BY DEF CanResolve, IsReference, ReplaceNumber
  <2> HIDE DEF r
  <2>2. CanResolve(r)
      BY <2>1 DEF CanResolve, HoldsUrl
  <2> QED BY <2>2 DEF r
<1> QED BY <1>1, <1>2

\* What the parser makes of the state in which an MPD ends.
LEMMA OtherMpdParsed ==
    ASSUME NEW mpd, IsFormed(mpd)
    PROVE  \E q : /\ MpdDone(mpd, q)
                  /\ ParseDashManifest(MpdEvents(mpd), mpd.url) =
                        CASE q.media.present -> FromTemplate(q, BaseOf(mpd))
                          [] ~q.media.present /\ q.indexed.url.present -> FromSegmentBase(q, BaseOf(mpd))
                          [] OTHER -> ErrSource
<1> DEFINE events == MpdEvents(mpd)
           q == DashRun(DashStart, events)
           source == ParseDashManifest(events, mpd.url)
<1>1. q = DashRun(DashStart, MpdEvents(mpd))
    OBVIOUS
<1> HIDE DEF q
<1>2. IsList(events) /\ MpdDone(mpd, q)
    BY <1>1, OtherMpdRead
<1> HIDE DEF events
<1>3. source = DashResult(q, mpd.url)
  <2>1. Len(events) \in Nat
      BY <1>2 DEF IsList
  <2>2. DashEnd(DashStart, events) = q
      BY <2>1, DashReading DEF DashRun, q
  <2> QED BY <2>2, DashParsing
<1> HIDE DEF source
<1>4. (IF q.base.present THEN Join(mpd.url, q.base.url).url ELSE mpd.url) = BaseOf(mpd)
    BY <1>2 DEF MpdDone, HasBase, BaseOf, SomeUrl, Missing
<1>5. source = CASE q.media.present -> FromTemplate(q, BaseOf(mpd))
                 [] ~q.media.present /\ q.indexed.url.present -> FromSegmentBase(q, BaseOf(mpd))
                 [] OTHER -> ErrSource
    BY <1>3, <1>4 DEF DashResult
<1> QED BY <1>2, <1>5 DEF source, events

\* The segments of a template: as many as its S elements or its duration call for.
TemplateLasts(set, mpd, durations) ==
    /\ IsList(durations)
    /\ set.timeline # <<>> => TimelineLasts(set.timeline, set.template.timescale, durations)
    /\ set.timeline = <<>> =>
          UniformLasts(durations, set.template.duration, mpd.total, set.template.timescale)

LEMMA SegmentsLast ==
    ASSUME NEW set, Complete(set), IsList(set.timeline), NEW mpd, mpd.total \in Nat,
           NEW p, HasSegments(set, p), p.total = mpd.total
    PROVE  TemplateLasts(set, mpd, TemplateDurations(p))
<1> DEFINE timeline == set.timeline
           durations == TemplateDurations(p)
<1>1. p.scale = set.template.timescale /\ p.timeline = ItemsRead(timeline, Len(timeline))
    BY DEF HasSegments
<1>2. CASE timeline # <<>>
  <2>1. \A i \in 1..Len(timeline) : IsItem(timeline[i])
      BY <1>2 DEF Complete, IsItem
  <2>2. TimelineLasts(timeline, p.scale, durations)
      BY <1>1, <1>2, <2>1, TimelineExpands
  <2> QED BY <1>1, <1>2, <2>2 DEF TemplateLasts, TimelineLasts
<1>3. CASE timeline = <<>>
  <2> DEFINE d == set.template.duration
             t == mpd.total
             c == set.template.timescale
  <2>1. d \in Nat \ {0} /\ c \in Nat \ {0} /\ p.uniform = d
      BY <1>3 DEF Complete, HasSegments
  <2>2. p.timeline = <<>>
    <3>1. Len(timeline) = 0
        BY <1>3
    <3> QED BY <1>1, <3>1 DEF ItemsRead
  <2>3. UniformLasts(durations, d, t, c)
    <3>1. CASE t = 0
      <4>1. durations = <<>>
          BY <2>2, <3>1 DEF TemplateDurations
      <4> HIDE DEF durations, d, t, c
      <4>2. Len(durations) = 0 /\ IsList(durations)
          BY <4>1, EmptyIsList
      <4>3. t * c = 0 /\ 0 * d = 0 /\ (0 - 1) * d < 0
          BY <2>1, <3>1
      <4>4. SumUpTo([i \in 1..0 |-> durations[i].n], 0) = 0
        <5> DEFINE ns == [i \in 1..0 |-> durations[i].n]
                   f == [i \in 0..0 |-> 0]
        <5>1. IsSum(f, ns, 0) /\ f[0] = 0
            BY DEF IsSum
        <5> HIDE DEF ns, f
        <5>2. SumUpTo(ns, 0) = f[0]
          <6>1. 0 \in Nat
              OBVIOUS
          <6> QED BY <5>1, <6>1, SumUpToIsSum
        <5> QED BY <5>1, <5>2 DEF ns
      <4>5. \A i \in 1..0 : durations[i].per = c
          OBVIOUS
      <4> QED BY <4>2, <4>3, <4>4, <4>5 DEF UniformLasts
    <3>2. CASE t # 0
      <4>1. t \in Nat \ {0} /\ p.total = t /\ p.scale = c /\ p.uniform > 0 /\ p.total > 0
          BY <1>1, <2>1, <3>2
      <4>2. durations = UniformDurations(p)
          BY <2>2, <4>1 DEF TemplateDurations
      <4> HIDE DEF durations, d, t, c
      <4>3. p.total \in Nat \ {0} /\ p.scale \in Nat \ {0} /\ p.uniform \in Nat \ {0}
          BY <2>1, <4>1
      <4>4. UniformLasts(UniformDurations(p), p.uniform, p.total, p.scale)
          BY <4>3, UniformCovers
      <4> QED BY <2>1, <4>1, <4>2, <4>4
    <3> QED BY <3>1, <3>2
  <2>4. IsList(durations)
      BY <2>3 DEF UniformLasts
  <2> QED BY <1>3, <2>3, <2>4 DEF TemplateLasts
<1> QED BY <1>2, <1>3

\* Path A of parse_dash_manifest gives what the template says.
TemplateGiven(mpd, set, source) ==
    source.segmentBase.present = FALSE /\ ReadsTemplate(source, BaseOf(mpd), mpd, set)

LEMMA TemplateMpdParsed ==
    ASSUME NEW mpd, IsFormed(mpd), HasMainTemplate(mpd),
           NEW source, source = ParseDashManifest(MpdEvents(mpd), mpd.url)
    PROVE  TemplateGiven(mpd, Main(mpd), source)
<1> DEFINE sets == mpd.sets
           set == Main(mpd)
           base == BaseOf(mpd)
<1>1. PICK v \in 1..Len(sets) : IsMain(mpd, v)
    BY MainSet
<1>2. set = sets[v] /\ Complete(sets[v])
    BY <1>1 DEF IsMain, HasMainTemplate
<1>3. IsList(set.timeline) /\ mpd.total \in Nat /\ Len(sets) \in Nat
    BY <1>1, <1>2, MainSet DEF IsFormed
<1>4. PICK q : /\ MpdDone(mpd, q)
               /\ source = CASE q.media.present -> FromTemplate(q, base)
                             [] ~q.media.present /\ q.indexed.url.present -> FromSegmentBase(q, base)
                             [] OTHER -> ErrSource
    BY OtherMpdParsed
<1>5. HasSegments(set, q)
  <2>1. PICK p, f : Fresh(p) /\ SetStates(sets, f, p, q)
      BY <1>4 DEF MpdDone
  <2>2. p.locked = FALSE /\ p.timeline = <<>>
      BY <2>1 DEF Fresh
  <2>3. OfVideoSet(sets[v]) \/ (v = 1 /\ \A s \in 2..Len(sets) : sets[s].template = NoAttributes)
      BY <1>1 DEF IsMain, HasMainTemplate
  <2>4. \A s \in 1..v - 1 : ~OfVideoSet(sets[s])
      BY <1>1 DEF IsMain
  <2>5. HasSegments(sets[v], q)
    <3> HIDE DEF sets
    <3> QED BY <1>2, <1>3, <2>1, <2>2, <2>3, <2>4, TemplateSetsRead
  <2> QED BY <1>2, <2>5
<1>6. q.live = mpd.live /\ q.total = mpd.total
    BY <1>4 DEF MpdDone
<1> DEFINE ds == TemplateDurations(q)
           t == set.template
           name(i) == Join(base, ReplaceNumber(q.media.url, q.startNumber + i - 1))
           joined == [i \in 1..Len(ds) |-> name(i)]
           first == Join(base, q.init.url)
<1>7. q.media = SomeUrl(t.media) /\ q.init = SomeUrl(t.initialization) /\ q.startNumber = t.startNumber
    BY <1>5 DEF HasSegments
<1>8. Complete(set) /\ CanResolve(t.initialization) /\ CanResolve(t.media) /\ FirstNumberOf(set) = t.startNumber
    BY <1>2 DEF Complete, FirstNumberOf
<1> HIDE DEF set
<1>9. TemplateLasts(set, mpd, ds)
    BY <1>3, <1>5, <1>6, <1>8, SegmentsLast
<1>10. Len(ds) \in Nat
    BY <1>9 DEF TemplateLasts, IsList
<1> HIDE DEF ds, base
<1>11. /\ first.ok = TRUE /\ first.url = Join(base, t.initialization).url /\ q.init.present
       /\ \A i \in 1..Len(ds) : joined[i].ok = TRUE
                                /\ joined[i].url = Join(base, ReplaceNumber(t.media, FirstNumberOf(set) + i - 1)).url
  <2>1. \A k : Join(base, ReplaceNumber(t.media, k)).ok = TRUE
      BY <1>8, NameResolves
  <2>2. Join(base, t.initialization).ok = TRUE
      BY <1>8, NameResolves
  <2>3. q.media.url = t.media /\ q.init.url = t.initialization /\ q.init.present = TRUE
      BY <1>7 DEF SomeUrl
  <2>4. q.startNumber = FirstNumberOf(set)
      BY <1>7, <1>8
  <2>5. \A i \in 1..Len(ds) : joined[i] = Join(base, ReplaceNumber(t.media, FirstNumberOf(set) + i - 1))
      BY <2>3, <2>4
  <2> HIDE DEF joined, t
  <2> QED BY <2>1, <2>2, <2>3, <2>5
<1>12. Len(joined) = Len(ds)
  <2>1. joined = [i \in 1..Len(ds) |-> joined[i]]
      OBVIOUS
  <2> HIDE DEF joined
  <2> QED BY <1>10, <2>1, FunctionIsList
<1> DEFINE urls == [i \in 1..Len(joined) |-> joined[i].url]
<1>13. source = DashSource(q, first.url, urls, ds, NotIndexed)
  <2>1. source = FromTemplate(q, base)
      BY <1>4, <1>7 DEF SomeUrl
  <2>2. source = IF ~q.init.present \/ ~first.ok \/ \E i \in 1..Len(joined) : ~joined[i].ok
                 THEN ErrSource ELSE DashSource(q, first.url, urls, ds, NotIndexed)
      BY <2>1 DEF FromTemplate, ds
  <2> HIDE DEF joined, first, urls
  <2> QED BY <1>11, <1>12, <2>2
<1>14. urls = [i \in 1..Len(ds) |-> urls[i]] /\ \A i \in 1..Len(ds) : urls[i] = joined[i].url
    BY <1>12
<1> HIDE DEF joined, first, urls
<1>15. Len(urls) = Len(ds)
    BY <1>10, <1>14, FunctionIsList
<1>16. /\ source.ok = TRUE /\ source.live = mpd.live /\ source.durations = ds /\ source.urls = urls
       /\ source.init.url = first.url /\ source.segmentBase.present = FALSE
    BY <1>6, <1>13 DEF DashSource, SomeUrl, NotIndexed
<1> HIDE DEF t
<1>17. /\ set.timeline # <<>> => TimelineLasts(set.timeline, t.timescale, ds)
       /\ set.timeline = <<>> => UniformLasts(ds, t.duration, mpd.total, t.timescale)
    BY <1>9 DEF TemplateLasts, t
<1>18. ReadsTemplate(source, base, mpd, set)
  <2> DEFINE count == Len(source.urls)
  <2>1. count = Len(ds)
      BY <1>15, <1>16
  <2>2. \A i \in 1..count : source.urls[i] = Join(base, ReplaceNumber(t.media, FirstNumberOf(set) + i - 1)).url
      BY <1>11, <1>14, <1>16, <2>1
  <2>3. CASE set.timeline # <<>>
    <3>1. count = CountUpTo(set.timeline, Len(set.timeline))
          /\ \A i \in 1..count : source.durations[i] = Time(set.timeline[EntryOf(set.timeline, i)].d, t.timescale)
        BY <1>16, <1>17, <2>1, <2>3 DEF TimelineLasts
    <3>2. \A i \in 1..count : SameTime(source.durations[i],
                Time(set.timeline[EntryOf(set.timeline, i)].d, t.timescale))
        BY <3>1 DEF SameTime
    <3> HIDE DEF count
    <3> QED BY <1>11, <1>16, <2>1, <2>2, <2>3, <3>1, <3>2 DEF ReadsTemplate, count, t
  <2>4. CASE set.timeline = <<>>
    <3>1. /\ count * t.duration >= mpd.total * t.timescale
          /\ (count - 1) * t.duration < mpd.total * t.timescale
          /\ \A i \in 1..count : source.durations[i].per = t.timescale
          /\ SumUpTo([i \in 1..count |-> source.durations[i].n], count) = mpd.total * t.timescale
        BY <1>16, <1>17, <2>1, <2>4 DEF UniformLasts
    <3> HIDE DEF count
    <3> QED BY <1>11, <1>16, <2>1, <2>2, <2>4, <3>1 DEF ReadsTemplate, count, t
  <2> QED BY <2>3, <2>4
<1> QED BY <1>16, <1>18 DEF TemplateGiven, set, base

\* The ranges of an index that leads to no other follow one another from its
\* first byte on: the code behaviour is the offset that resolve_segment_base
\* carries from one reference to the next.
Sizes(refs) == [i \in 1..Len(refs) |-> refs[i].size]
InARow(ranges, from, refs) ==
    /\ Len(ranges) = Len(refs) /\ ranges[1].first = from
    /\ \A i \in 1..Len(refs) - 1 : ranges[i + 1].first = ranges[i].last + 1
    /\ ranges[Len(refs)].last + 1 = from + SumUpTo(Sizes(refs), Len(refs))

LEMMA RangesInARow ==
    ASSUME NEW refs, IsList(refs), refs # <<>>, \A i \in 1..Len(refs) : refs[i].size \in Nat,
           NEW from \in Nat, NEW ranges,
           ranges = [i \in 1..Len(refs) |->
                        [first |-> from + SizeBefore(refs, i),
                         last  |-> from + SizeBefore(refs, i) + refs[i].size - 1]]
    PROVE  InARow(ranges, from, refs)
<1> DEFINE n == Len(refs)
           d == Sizes(refs)
<1>1. n \in Nat /\ n # 0
    BY DEF IsList
<1>2. \A i \in 1..n : d[i] = refs[i].size /\ d[i] \in Nat
    BY DEF Sizes
<1>3. PICK f : IsSum(f, d, n)
  <2> HIDE DEF d, n
  <2> QED BY <1>1, <1>2, SumExists
<1>4. \A i \in 1..n : SizeBefore(refs, i) = f[i - 1]
  <2> SUFFICES ASSUME NEW i \in 1..n PROVE SizeBefore(refs, i) = f[i - 1]
      OBVIOUS
  <2>1. SizeBefore(refs, i) = SumUpTo(d, i - 1)
      BY DEF SizeBefore, Sizes
  <2>2. i - 1 \in 0..n
      BY <1>1
  <2> HIDE DEF d, n
  <2> QED BY <1>1, <1>3, <2>1, <2>2, SumUpToPrefix
<1>5. SumUpTo(d, n) = f[n]
  <2> HIDE DEF d, n
  <2> QED BY <1>1, <1>3, SumUpToIsSum
<1>6. Len(ranges) = n
  <2>1. ranges = [i \in 1..n |-> ranges[i]]
      OBVIOUS
  <2> HIDE DEF n
  <2> QED BY <1>1, <2>1, FunctionIsList
<1>7. \A i \in 1..n : ranges[i].first = from + f[i - 1] /\ ranges[i].last = from + f[i - 1] + d[i] - 1
    BY <1>2, <1>4
<1> HIDE DEF d, n
<1>8. /\ f[0] = 0 /\ \A i \in 0..n : f[i] \in Nat
      /\ \A i \in 1..n : f[i] = f[i - 1] + d[i]
    BY <1>3 DEF IsSum
<1>9. ASSUME NEW i \in 1..n PROVE ranges[i].last + 1 = from + f[i] /\ i \in 0..n
  <2>1. i \in 0..n /\ i - 1 \in 0..n
      BY <1>1
  <2>2. f[i] = f[i - 1] + d[i] /\ f[i - 1] \in Nat /\ d[i] \in Nat
      BY <1>2, <1>8, <2>1
  <2>3. ranges[i].last = from + f[i - 1] + d[i] - 1
      BY <1>7
  <2> DEFINE a == f[i - 1]
             b == f[i]
             c == d[i]
             l == ranges[i].last
  <2>4. a \in Nat /\ c \in Nat /\ b = a + c /\ l = from + a + c - 1
      BY <2>2, <2>3
  <2> HIDE DEF a, b, c, l
  <2>5. l + 1 = from + b
      BY <2>4
  <2> QED BY <2>1, <2>5 DEF l, b
<1>10. ASSUME NEW i \in 1..n - 1 PROVE ranges[i + 1].first = ranges[i].last + 1
  <2>1. i \in 1..n /\ i + 1 \in 1..n /\ (i + 1) - 1 = i
      BY <1>1
  <2>2. ranges[i + 1].first = from + f[i]
      BY <1>7, <2>1
  <2> QED BY <1>9, <2>1, <2>2
<1>11. ranges[1].first = from /\ ranges[n].last + 1 = from + f[n]
  <2>1. 1 \in 1..n /\ n \in 1..n /\ 1 - 1 = 0
      BY <1>1
  <2>2. ranges[1].first = from + f[0]
      BY <1>7, <2>1
  <2>3. ranges[1].first = from
      BY <1>8, <2>2
  <2>4. ranges[n].last + 1 = from + f[n]
      BY <1>9, <2>1
  <2> QED BY <2>3, <2>4
<1>12. InARow(ranges, from, refs)
    BY <1>5, <1>6, <1>10, <1>11 DEF InARow, n, d
<1> QED BY <1>12

\* An index, resolved, gives the file in pieces.
LEMMA IndexedMpdParsed ==
    ASSUME NEW mpd, IsFormed(mpd), IsIndexed(mpd), NEW source, source = ReadMpd(mpd)
    PROVE  TilesFile(source, mpd)
<1> DEFINE sets == mpd.sets
           base == BaseOf(mpd)
           sidx == mpd.sidx
           refs == sidx.references
           file == Videos(mpd)[1].reps[1]
           whole == Join(base, file.file.url)
           parsed == ParseDashManifest(MpdEvents(mpd), mpd.url)
<1>1. PICK v \in 1..Len(sets) : IsMain(mpd, v)
    BY MainSet
<1>2. /\ Len(sets) \in Nat /\ OfVideoSet(sets[v]) /\ file = sets[v].reps[1]
      /\ \A s \in 1..v - 1 : ~OfVideoSet(sets[s])
    BY <1>1, MainSet DEF IsMain, IsIndexed
<1>3. /\ file.indexed /\ CanResolve(file.file.url) /\ file.index.last \in Nat
      /\ IsList(refs) /\ refs # <<>> /\ sidx.firstOffset \in Nat
      /\ \A i \in 1..Len(refs) : ~refs[i].nested /\ refs[i].size \in Nat
      /\ sidx.fileSize = file.index.last + 1 + sidx.firstOffset + SumUpTo(Sizes(refs), Len(refs))
      /\ \A s \in 1..Len(sets) : sets[s].template = NoAttributes
    BY DEF IsIndexed, Sizes
<1>4. PICK q : /\ MpdDone(mpd, q)
               /\ parsed = CASE q.media.present -> FromTemplate(q, base)
                             [] ~q.media.present /\ q.indexed.url.present -> FromSegmentBase(q, base)
                             [] OTHER -> ErrSource
    BY OtherMpdParsed
<1>5. q.media = Missing /\ q.indexed = WithIndex(file)
  <2>1. PICK p, f : Fresh(p) /\ SetStates(sets, f, p, q)
      BY <1>4 DEF MpdDone
  <2>2. NotFromVideo(p) /\ p.media = Missing
      BY <2>1 DEF Fresh
  <2>3. sets[v].reps[1].indexed
      BY <1>2, <1>3
  <2>4. SegmentsKept(p, q) /\ q.indexed = WithIndex(sets[v].reps[1])
    <3> HIDE DEF sets, file
    <3> QED BY <1>2, <1>3, <2>1, <2>2, <2>3, IndexSetsRead
  <2> QED BY <1>2, <2>2, <2>4 DEF SegmentsKept
<1> HIDE DEF file, sidx, sets, base
<1>6. whole.ok = TRUE
    BY <1>3, NameResolves
<1> DEFINE index == [present |-> TRUE, index |-> file.index, scale |-> file.scale]
<1>7. parsed = DashSource(q, whole.url, <<>>, <<>>, index)
  <2>1. parsed = FromSegmentBase(q, base)
      BY <1>4, <1>5 DEF Missing, WithIndex, SomeUrl
  <2>2. q.indexed.url.url = file.file.url /\ q.indexed.index.range = file.index /\ q.indexed.scale = file.scale
      BY <1>5 DEF WithIndex, SomeUrl
  <2> QED BY <1>6, <2>1, <2>2 DEF FromSegmentBase
<1>8. parsed.ok = TRUE /\ parsed.segmentBase = index /\ parsed.init.url = whole.url
    BY <1>7 DEF DashSource, SomeUrl
<1>9. source = ResolveSegmentBase(parsed, sidx)
  <2>1. source = IF parsed.ok /\ parsed.segmentBase.present THEN ResolveSegmentBase(parsed, sidx) ELSE parsed
      BY DEF ReadMpd, sidx
  <2> HIDE DEF parsed
  <2> QED BY <1>8, <2>1
<1>10. Media(sidx) = refs
  <2> DEFINE M == {i \in 1..Len(refs) : ~refs[i].nested}
  <2>1. PICK S : refs \in Seq(S)
      BY <1>3 DEF IsList
  <2>2. \A i \in 1..Len(refs) : i \in M
      BY <1>3
  <2>3. Media(sidx) = Chosen(refs, M)
      BY DEF Media
  <2> HIDE DEF M, refs
  <2> QED BY <2>1, <2>2, <2>3, ChosenAll
<1> DEFINE from == file.index.last + 1 + sidx.firstOffset
           n == Len(refs)
           ranges == [i \in 1..n |-> [first |-> from + SizeBefore(refs, i),
                                      last  |-> from + SizeBefore(refs, i) + refs[i].size - 1]]
           urls == [i \in 1..n |-> whole.url]
<1>11. /\ source.urls = urls /\ source.ranges = ranges
       /\ source.segmentBase.index = file.index
  <2>1. parsed.segmentBase.index.last + 1 + sidx.firstOffset = from
      BY <1>8
  <2>2. "urls" \in DOMAIN parsed /\ "ranges" \in DOMAIN parsed /\ "segmentBase" \in DOMAIN parsed
        /\ "durations" \in DOMAIN parsed
      BY <1>7 DEF DashSource
  <2> HIDE DEF parsed
  <2>3. source.urls = urls
      BY <1>8, <1>9, <1>10, <2>2 DEF ResolveSegmentBase
  <2>4. source.segmentBase = parsed.segmentBase
      BY <1>9, <2>2 DEF ResolveSegmentBase
  <2>5. source.ranges = ranges
    <3> HIDE DEF refs
    <3> QED BY <1>9, <1>10, <2>1, <2>2 DEF ResolveSegmentBase
  <2> QED BY <1>8, <2>3, <2>4, <2>5
<1>12. from \in Nat
  <2> DEFINE l == file.index.last
             o == sidx.firstOffset
  <2>1. l \in Nat /\ o \in Nat
      BY <1>3
  <2> HIDE DEF l, o
  <2>2. l + 1 + o \in Nat
      BY <2>1
  <2> QED BY <2>2 DEF l, o
<1>13. InARow(ranges, from, refs)
  <2>1. ranges = [i \in 1..Len(refs) |-> [first |-> from + SizeBefore(refs, i),
                                      last  |-> from + SizeBefore(refs, i) + refs[i].size - 1]]
      OBVIOUS
  <2> HIDE DEF ranges, from, refs
  <2> QED BY <1>3, <1>12, <2>1, RangesInARow
<1>14. Len(urls) = n /\ \A i \in 1..n : urls[i] = whole.url
  <2>1. n \in Nat /\ urls = [i \in 1..n |-> urls[i]] /\ \A i \in 1..n : urls[i] = whole.url
      BY <1>3 DEF IsList
  <2> HIDE DEF urls, n
  <2> QED BY <2>1, FunctionIsList
<1> HIDE DEF ranges, urls
<1>15. Len(source.ranges) = n
    BY <1>11, <1>13 DEF InARow
<1>16. /\ ranges[1].first = from /\ \A i \in 1..n - 1 : ranges[i + 1].first = ranges[i].last + 1
       /\ ranges[n].last + 1 = sidx.fileSize
    BY <1>3, <1>13 DEF InARow
<1>17. TilesFile(source, mpd)
    BY <1>11, <1>14, <1>15, <1>16 DEF TilesFile, file, sidx, base
<1> QED BY <1>17

\* What was read of an MPD of another origin is what the parser and the
\* resolving of its index make of it.
MpdInv ==
    read.origin = "mpd" => read.document \in Mpds /\ read.source = ReadMpd(read.document)

LEMMA MpdTurn == ASSUME MpdInv, [ReaderNext]_readerVars PROVE MpdInv'
<1>1. CASE OutputStep \/ DoneReading
    BY <1>1 DEF OutputStep, DoneReading, Unread, MpdInv
<1>2. CASE FetchOutput
  <2>1. read'.origin \in {"hls", "dash"}
      BY <1>2 DEF FetchOutput
  <2> QED BY <2>1 DEF MpdInv
<1>3. CASE FetchOther
  <2>1. \/ \E p \in Playlists : read' = [origin |-> "playlist", document |-> p,
                                         source |-> ParseHlsManifest(p.lines, p.url, p.per)]
        \/ \E d \in Mpds : read' = [origin |-> "mpd", document |-> d, source |-> ReadMpd(d)]
      BY <1>3 DEF FetchOther
  <2> QED BY <2>1 DEF MpdInv
<1>4. CASE ResolveTracks \/ CombineTracks
  <2>1. read'.origin \notin {"mpd"}
    <3>1. CASE ResolveTracks
      <4>1. \/ \E d \in Mpds : read' = [origin |-> "tracks", document |-> d,
                                        tracks |-> ResolveDashTracks(MpdEvents(d), d.url)]
            \/ \E p \in Masters : read' = [origin |-> "master", document |-> p,
                                           tracks |-> ResolveMasterPlaylist(p.lines, p.url)]
          BY <3>1 DEF ResolveTracks
      <4> QED BY <4>1
    <3>2. CASE CombineTracks
        BY <3>2 DEF CombineTracks
    <3> QED BY <1>4, <3>1, <3>2
  <2> QED BY <2>1 DEF MpdInv
<1>5. CASE UNCHANGED readerVars
    BY <1>5 DEF readerVars, MpdInv
<1> QED BY <1>1, <1>2, <1>3, <1>4, <1>5 DEF ReaderNext, Read

LEMMA MpdStaysRead == ReaderSpec => []MpdInv
<1>1. ReaderInit => MpdInv
    BY DEF ReaderInit, Unread, MpdInv
<1>2. MpdInv /\ [ReaderNext]_readerVars => MpdInv'
    BY MpdTurn
<1> QED BY <1>1, <1>2, PTL DEF ReaderSpec

\* An MPD with a template is read by it, one without by its index.
LEMMA ReadByTemplate ==
    ASSUME NEW mpd, IsFormed(mpd), HasMainTemplate(mpd)
    PROVE  TemplateGiven(mpd, Main(mpd), ReadMpd(mpd))
<1> DEFINE parsed == ParseDashManifest(MpdEvents(mpd), mpd.url)
<1>1. TemplateGiven(mpd, Main(mpd), parsed)
    BY TemplateMpdParsed
<1>2. ReadMpd(mpd) = IF parsed.ok /\ parsed.segmentBase.present
                     THEN ResolveSegmentBase(parsed, mpd.sidx) ELSE parsed
    BY DEF ReadMpd
<1> HIDE DEF parsed
<1>3. ReadMpd(mpd) = parsed
    BY <1>1, <1>2 DEF TemplateGiven
<1> QED BY <1>1, <1>3

\* A job that takes an MPD with templates as its source gets the segments of its
\* first video set (or only set): as many as its timeline or the length of the
\* presentation calls for, in order, and together as long (parse_dash_manifest).
THEOREM MpdsReadByTemplate == ASSUME ReadableMpds PROVE ReaderSpec => []VideoSetRead
<1>1. ASSUME MpdInv, read.origin = "mpd", Main(read.document).template # NoAttributes
      PROVE  ReadsTemplate(read.source, BaseOf(read.document), read.document, Main(read.document))
  <2> DEFINE mpd == read.document
  <2>1. IsReadable(mpd) /\ IsFormed(mpd) /\ read.source = ReadMpd(mpd)
      BY <1>1 DEF MpdInv, ReadableMpds, IsReadable
  <2> HIDE DEF mpd
  <2>2. HasMainTemplate(mpd)
    <3>1. PICK v \in 1..Len(mpd.sets) : IsMain(mpd, v)
        BY <2>1, MainSet
    <3>2. ~IsIndexed(mpd)
        BY <1>1, <3>1 DEF IsMain, IsIndexed, mpd
    <3> QED BY <2>1, <3>2 DEF IsReadable
  <2>3. TemplateGiven(mpd, Main(mpd), ReadMpd(mpd))
      BY <2>1, <2>2, ReadByTemplate
  <2> QED BY <2>1, <2>3 DEF TemplateGiven, mpd
<1>2. MpdInv => VideoSetRead
    BY <1>1 DEF VideoSetRead
<1> QED BY <1>2, MpdStaysRead, PTL

\* The byte ranges that a job gets of an indexed file tile it from behind the
\* index to its end (parse_dash_manifest, parse_sidx, resolve_segment_base).
THEOREM IndexReadAsTiles == ASSUME ReadableMpds PROVE ReaderSpec => []RangesTile
<1>1. ASSUME MpdInv, read.origin = "mpd", read.source.segmentBase.present
      PROVE  TilesFile(read.source, read.document)
  <2> DEFINE mpd == read.document
  <2>1. IsReadable(mpd) /\ IsFormed(mpd) /\ read.source = ReadMpd(mpd)
      BY <1>1 DEF MpdInv, ReadableMpds, IsReadable
  <2> HIDE DEF mpd
  <2>2. ~HasMainTemplate(mpd)
    <3>1. HasMainTemplate(mpd) => ReadMpd(mpd).segmentBase.present = FALSE
        BY <2>1, ReadByTemplate DEF TemplateGiven
    <3> QED BY <1>1, <2>1, <3>1
  <2>3. TilesFile(ReadMpd(mpd), mpd)
      BY <2>1, <2>2, IndexedMpdParsed DEF IsReadable
  <2> QED BY <2>1, <2>3 DEF mpd
<1>2. MpdInv => RangesTile
    BY <1>1 DEF RangesTile
<1> QED BY <1>2, MpdStaysRead, PTL

-----------------------------------------------------------------------------
(* Paths *)

\* How many of the places after i, up to j, are in a set.
Count(A, i, j) == Cardinality({k \in i + 1..j : k \in A})

LEMMA CountBetween ==
    ASSUME NEW A, NEW j \in Nat, NEW i \in 0..j
    PROVE  /\ Count(A, 0, j) = Count(A, 0, i) + Count(A, i, j)
           /\ Count(A, 0, j) \in Nat /\ Count(A, 0, i) \in Nat /\ Count(A, i, j) \in Nat
<1> DEFINE X == {k \in 0 + 1..i : k \in A}
           Y == {k \in i + 1..j : k \in A}
           Z == {k \in 0 + 1..j : k \in A}
<1>1. Z = X \union Y /\ X \intersect Y = {}
    OBVIOUS
<1>2. IsFiniteSet(X)
  <2>1. X \subseteq 1..i /\ IsFiniteSet(1..i)
      BY FS_Interval
  <2> QED BY <2>1, FS_Subset
<1>3. IsFiniteSet(Y)
  <2>1. Y \subseteq i + 1..j /\ IsFiniteSet(i + 1..j)
      BY FS_Interval
  <2> QED BY <2>1, FS_Subset
<1> HIDE DEF X, Y, Z
<1>4. /\ Cardinality(Z) = Cardinality(X) + Cardinality(Y)
      /\ Cardinality(X) \in Nat /\ Cardinality(Y) \in Nat /\ Cardinality(Z) \in Nat
  <2>1. Cardinality(X \union Y) = Cardinality(X) + Cardinality(Y) - Cardinality(X \intersect Y)
      BY <1>2, <1>3, FS_Union
  <2>2. Cardinality(X) \in Nat /\ Cardinality(Y) \in Nat /\ Cardinality({}) = 0
      BY <1>2, <1>3, FS_CardinalityType, FS_EmptySet
  <2>3. Cardinality(X \union Y) = Cardinality(Z) /\ Cardinality(X \intersect Y) = 0
      BY <1>1, <2>2, Zenon
  <2>4. Z = X \union Y
      BY <1>1
  <2>5. IsFiniteSet(X \union Y)
      BY <1>2, <1>3, FS_Union, Zenon
  <2>6. Cardinality(Z) \in Nat
      BY <2>4, <2>5, FS_CardinalityType, Zenon
  <2> DEFINE x == Cardinality(X)
             y == Cardinality(Y)
             z == Cardinality(Z)
             w == Cardinality(X \intersect Y)
  <2>7. z = x + y - w /\ w = 0
      BY <2>1, <2>3, Zenon
  <2>8. x \in Nat /\ y \in Nat /\ z \in Nat
      BY <2>2, <2>6
  <2> HIDE DEF x, y, z, w
  <2>9. z = x + y
      BY <2>7, <2>8
  <2> QED BY <2>8, <2>9 DEF x, y, z
<1> QED BY <1>4 DEF Count, X, Y, Z

LEMMA CountOne ==
    ASSUME NEW A, NEW j \in Nat \ {0}
    PROVE  Count(A, j - 1, j) = IF j \in A THEN 1 ELSE 0
<1>1. {k \in (j - 1) + 1..j : k \in A} = IF j \in A THEN {j} ELSE {}
    OBVIOUS
<1>2. Cardinality({j}) = 1 /\ Cardinality({}) = 0
    BY FS_Singleton, FS_EmptySet
<1> QED BY <1>1, <1>2 DEF Count

\* How far a path has gone up by its j-th segment.
Ups(path)      == {k \in 1..Len(path) : path[k] = Plain("..")}
Names(path)    == {k \in 1..Len(path) : path[k] \notin Dots}
Level(path, j) == Count(Ups(path), 0, j) - Count(Names(path), 0, j)

LevelStep(path, j) ==
    /\ Level(path, j) \in Int /\ Level(path, j - 1) \in Int
    /\ path[j] \notin Dots => Level(path, j) = Level(path, j - 1) - 1
    /\ path[j] = Plain(".") => Level(path, j) = Level(path, j - 1)
    /\ path[j] = Plain("..") => Level(path, j) = Level(path, j - 1) + 1

LEMMA DotsDiffer == Plain(".") # Plain("..") /\ Plain(".") # Plain("empty") /\ Plain("..") # Plain("empty")
BY DEF Plain

LEMMA LevelSteps ==
    ASSUME NEW path, Len(path) \in Nat, NEW j \in 1..Len(path)
    PROVE  LevelStep(path, j)
<1> DEFINE u == Ups(path)
           d == Names(path)
<1>1. j \in Nat \ {0} /\ j - 1 \in 0..j /\ j \in Nat
    OBVIOUS
<1>2. /\ Count(u, 0, j) = Count(u, 0, j - 1) + Count(u, j - 1, j)
      /\ Count(u, 0, j) \in Nat /\ Count(u, 0, j - 1) \in Nat /\ Count(u, j - 1, j) \in Nat
  <2> HIDE DEF u
  <2> QED BY <1>1, CountBetween
<1>3. /\ Count(d, 0, j) = Count(d, 0, j - 1) + Count(d, j - 1, j)
      /\ Count(d, 0, j) \in Nat /\ Count(d, 0, j - 1) \in Nat /\ Count(d, j - 1, j) \in Nat
  <2> HIDE DEF d
  <2> QED BY <1>1, CountBetween
<1>4. Count(u, j - 1, j) = (IF j \in u THEN 1 ELSE 0) /\ Count(d, j - 1, j) = IF j \in d THEN 1 ELSE 0
  <2> HIDE DEF u, d
  <2> QED BY <1>1, CountOne
<1>5. (j \in u <=> path[j] = Plain("..")) /\ (j \in d <=> path[j] \notin Dots)
    BY DEF Ups, Names
<1> DEFINE x == path[j]
<1>6. x \notin Dots \/ x = Plain(".") \/ x = Plain("..")
    BY DEF Dots
<1>7. Level(path, j) = Count(u, 0, j) - Count(d, 0, j)
      /\ Level(path, j - 1) = Count(u, 0, j - 1) - Count(d, 0, j - 1)
    BY DEF Level
<1>8. Plain("..") \in Dots /\ Plain(".") \in Dots
    BY DEF Dots
<1> DEFINE u1 == Count(u, 0, j)
           u0 == Count(u, 0, j - 1)
           ux == Count(u, j - 1, j)
           d1 == Count(d, 0, j)
           d0 == Count(d, 0, j - 1)
           dx == Count(d, j - 1, j)
           l1 == Level(path, j)
           l0 == Level(path, j - 1)
<1> HIDE DEF u, d
<1>9. u1 = u0 + ux /\ ux \in Nat /\ dx \in Nat /\ u1 \in Nat /\ u0 \in Nat /\ d1 = d0 + dx /\ d1 \in Nat /\ d0 \in Nat
      /\ l1 = u1 - d1 /\ l0 = u0 - d0
    BY <1>2, <1>3, <1>7
<1>10. /\ x \notin Dots => ux = 0 /\ dx = 1
       /\ x = Plain(".") => ux = 0 /\ dx = 0
       /\ x = Plain("..") => ux = 1 /\ dx = 0
    BY <1>4, <1>5, <1>8, DotsDiffer
<1> HIDE DEF u1, u0, ux, d1, d0, dx, l1, l0, x
<1>11. /\ l1 \in Int /\ l0 \in Int
       /\ ux = 0 /\ dx = 1 => l1 = l0 - 1
       /\ ux = 0 /\ dx = 0 => l1 = l0
       /\ ux = 1 /\ dx = 0 => l1 = l0 + 1
    BY <1>9
<1>12. /\ l1 \in Int /\ l0 \in Int
       /\ x \notin Dots => l1 = l0 - 1
       /\ x = Plain(".") => l1 = l0
       /\ x = Plain("..") => l1 = l0 + 1
    BY <1>10, <1>11
<1> QED BY <1>12 DEF LevelStep, x, l1, l0

\* A segment stays if the path never goes above its level again.
Staying(path) == {i \in 1..Len(path) : path[i] \notin Dots /\ ~Taken(path, i)}
StaysBy(path, i) ==
    path[i] \notin Dots /\ \A j \in i + 1..Len(path) : Level(path, j) <= Level(path, i)

LEMMA StaysByLevel ==
    ASSUME NEW path, Len(path) \in Nat, NEW i \in 1..Len(path)
    PROVE  i \in Staying(path) <=> StaysBy(path, i)
<1> DEFINE u == Ups(path)
           d == Names(path)
<1>1. ASSUME NEW j \in i + 1..Len(path)
      PROVE  Cardinality({k \in i + 1..j : path[k] = Plain("..")})
                 > Cardinality({k \in i + 1..j : path[k] \notin Dots})
             <=> ~(Level(path, j) <= Level(path, i))
  <2>1. {k \in i + 1..j : path[k] = Plain("..")} = {k \in i + 1..j : k \in u}
      BY DEF Ups
  <2>2. {k \in i + 1..j : path[k] \notin Dots} = {k \in i + 1..j : k \in d}
      BY DEF Names
  <2>3. j \in Nat /\ i \in 0..j
      OBVIOUS
  <2>4. /\ Count(u, 0, j) = Count(u, 0, i) + Count(u, i, j)
        /\ Count(u, 0, i) \in Nat /\ Count(u, i, j) \in Nat
    <3> HIDE DEF u
    <3> QED BY <2>3, CountBetween
  <2>5. /\ Count(d, 0, j) = Count(d, 0, i) + Count(d, i, j)
        /\ Count(d, 0, i) \in Nat /\ Count(d, i, j) \in Nat
    <3> HIDE DEF d
    <3> QED BY <2>3, CountBetween
  <2>6. Level(path, j) = Count(u, 0, j) - Count(d, 0, j) /\ Level(path, i) = Count(u, 0, i) - Count(d, 0, i)
      BY DEF Level
  <2> HIDE DEF u, d
  <2> DEFINE u1 == Count(u, 0, j)
             u0 == Count(u, 0, i)
             ux == Count(u, i, j)
             d1 == Count(d, 0, j)
             d0 == Count(d, 0, i)
             dx == Count(d, i, j)
             l1 == Level(path, j)
             l0 == Level(path, i)
  <2>7. u1 = u0 + ux /\ u0 \in Nat /\ ux \in Nat /\ d1 = d0 + dx /\ d0 \in Nat /\ dx \in Nat
        /\ l1 = u1 - d1 /\ l0 = u0 - d0
      BY <2>4, <2>5, <2>6
  <2> HIDE DEF u1, u0, ux, d1, d0, dx, l1, l0
  <2>8. ux > dx <=> ~(l1 <= l0)
      BY <2>7
  <2> QED BY <2>1, <2>2, <2>8 DEF Count, u1, u0, ux, d1, d0, dx, l1, l0
<1>2. Taken(path, i) <=> \E j \in i + 1..Len(path) : ~(Level(path, j) <= Level(path, i))
    BY <1>1 DEF Taken
<1> QED BY <1>2 DEF Staying, StaysBy

\* A further segment leaves the levels as they are.
Extends(p, q, x) ==
    /\ Len(q) \in Nat /\ Len(p) = Len(q) + 1 /\ p[Len(p)] = x
    /\ \A j \in 1..Len(q) : p[j] = q[j]

LEMMA LevelsKept ==
    ASSUME NEW p, NEW q, NEW x, Extends(p, q, x), NEW j \in 0..Len(q)
    PROVE  Level(p, j) = Level(q, j)
<1>1. /\ {k \in 0 + 1..j : k \in Ups(p)} = {k \in 0 + 1..j : k \in Ups(q)}
      /\ {k \in 0 + 1..j : k \in Names(p)} = {k \in 0 + 1..j : k \in Names(q)}
    BY DEF Extends, Ups, Names
<1> QED BY <1>1, Zenon DEF Level, Count

LEMMA LevelType ==
    ASSUME NEW q, Len(q) \in Nat, NEW j \in 0..Len(q)
    PROVE  Level(q, j) \in Int
<1>1. ASSUME NEW A PROVE Count(A, 0, j) \in Nat
    BY CountBetween
<1>2. Count(Ups(q), 0, j) \in Nat /\ Count(Names(q), 0, j) \in Nat
    BY <1>1, Zenon
<1> QED BY <1>2 DEF Level

LevelNow(p, q, x) ==
    /\ Level(p, Len(p)) \in Int /\ Level(q, Len(q)) \in Int
    /\ x \notin Dots => Level(p, Len(p)) = Level(q, Len(q)) - 1
    /\ x = Plain(".") => Level(p, Len(p)) = Level(q, Len(q))
    /\ x = Plain("..") => Level(p, Len(p)) = Level(q, Len(q)) + 1

LEMMA LevelNext ==
    ASSUME NEW p, NEW q, NEW x, Extends(p, q, x)
    PROVE  LevelNow(p, q, x)
<1>1. Len(p) \in Nat /\ Len(p) \in 1..Len(p) /\ Len(q) \in 0..Len(q) /\ Len(p) - 1 = Len(q) /\ p[Len(p)] = x
    BY DEF Extends
<1>2. LevelStep(p, Len(p))
    BY <1>1, LevelSteps
<1>3. Level(p, Len(q)) = Level(q, Len(q))
    BY <1>1, LevelsKept
<1> QED BY <1>1, <1>2, <1>3 DEF LevelStep, LevelNow

\* What stays of a path with one segment more: a name stays, a "." does nothing,
\* and ".." takes those at the level the path was at.
At(q) == {i \in Staying(q) : Level(q, i) = Level(q, Len(q))}
StaysNow(p, q, x) ==
    /\ x \notin Dots => Staying(p) = Staying(q) \union {Len(p)}
    /\ x = Plain(".") => Staying(p) = Staying(q)
    /\ x = Plain("..") => Staying(p) = Staying(q) \ At(q)

LEMMA StayingNext ==
    ASSUME NEW p, NEW q, NEW x, Extends(p, q, x), x \notin Dots \/ x = Plain(".") \/ x = Plain("..")
    PROVE  StaysNow(p, q, x)
<1> DEFINE n == Len(q)
           l == Level(q, n)
           m == Level(p, n + 1)
<1>1. n \in Nat /\ Len(p) = n + 1 /\ p[n + 1] = x /\ n \in 0..n /\ Len(p) \in Nat /\ \A j \in 1..n : p[j] = q[j]
    BY DEF Extends
<1>2. /\ l \in Int /\ m \in Int
      /\ x \notin Dots => m = l - 1
      /\ x = Plain(".") => m = l
      /\ x = Plain("..") => m = l + 1
    BY <1>1, LevelNext DEF LevelNow
<1>3. \A j \in 0..n : Level(p, j) = Level(q, j)
    BY LevelsKept
<1>4. \A j \in 0..n : Level(q, j) \in Int
    BY <1>1, LevelType
<1>5. n + 1 \in Staying(p) <=> x \notin Dots
  <2>1. n + 1 \in 1..Len(p) /\ (n + 1) + 1..Len(p) = {}
      BY <1>1
  <2> QED BY <1>1, <2>1, StaysByLevel DEF StaysBy
<1>6. ASSUME NEW i \in 1..n
      PROVE  i \in Staying(p) <=> i \in Staying(q) /\ m <= Level(q, i)
  <2>1. i \in 1..Len(p) /\ i \in 0..n /\ p[i] = q[i]
      BY <1>1
  <2>2. i \in Staying(p) <=> p[i] \notin Dots /\ \A j \in i + 1..n + 1 : Level(p, j) <= Level(p, i)
      BY <1>1, <2>1, StaysByLevel DEF StaysBy
  <2>3. i \in Staying(q) <=> q[i] \notin Dots /\ \A j \in i + 1..n : Level(q, j) <= Level(q, i)
      BY <1>1, StaysByLevel DEF StaysBy
  <2>4. i + 1..n + 1 = (i + 1..n) \union {n + 1}
      BY <1>1
  <2>5. \A j \in i + 1..n : Level(p, j) = Level(q, j)
      BY <1>1, <1>3
  <2>6. Level(p, i) = Level(q, i)
      BY <1>3, <2>1
  <2> HIDE DEF m
  <2> QED BY <2>1, <2>2, <2>3, <2>4, <2>5, <2>6 DEF m
<1>7. \A i \in Staying(q) : i \in 1..n /\ l <= Level(q, i)
  <2> SUFFICES ASSUME NEW i \in Staying(q) PROVE i \in 1..n /\ l <= Level(q, i)
      OBVIOUS
  <2>1. i \in 1..n
      BY DEF Staying
  <2>2. \A j \in i + 1..n : Level(q, j) <= Level(q, i)
      BY <1>1, <2>1, StaysByLevel DEF StaysBy
  <2>3. i = n \/ n \in i + 1..n
      BY <1>1, <2>1
  <2> HIDE DEF n
  <2> QED BY <1>2, <2>1, <2>2, <2>3
<1>8. Staying(p) \subseteq 1..n + 1 /\ Staying(q) \subseteq 1..n
    BY <1>1 DEF Staying
<1> DEFINE L(i) == Level(q, i)
<1>9. \A i \in 1..n : L(i) \in Int
    BY <1>4
<1>10. /\ x \notin Dots => \A i : i \in Staying(p) <=> i \in Staying(q) \/ i = n + 1
       /\ x = Plain(".") => \A i : i \in Staying(p) <=> i \in Staying(q)
       /\ x = Plain("..") => \A i : i \in Staying(p) <=> i \in Staying(q) /\ L(i) # l
  <2> SUFFICES ASSUME NEW i
               PROVE  /\ x \notin Dots => (i \in Staying(p) <=> i \in Staying(q) \/ i = n + 1)
                      /\ x = Plain(".") => (i \in Staying(p) <=> i \in Staying(q))
                      /\ x = Plain("..") => (i \in Staying(p) <=> i \in Staying(q) /\ L(i) # l)
      OBVIOUS
  <2>1. CASE i \in 1..n
    <3>1. i \in Staying(p) <=> i \in Staying(q) /\ m <= L(i)
        BY <1>6, <2>1
    <3>2. i \in Staying(q) => l <= L(i)
        BY <1>7
    <3>3. L(i) \in Int /\ i # n + 1
        BY <1>1, <1>9, <2>1
    <3> HIDE DEF l, m, L, n
    <3> QED BY <1>2, <3>1, <3>2, <3>3
  <2>2. CASE i = n + 1
    <3>1. i \notin Staying(q)
        BY <1>1, <1>8, <2>2
    <3>2. Plain(".") \in Dots /\ Plain("..") \in Dots
        BY DEF Dots
    <3> QED BY <1>5, <2>2, <3>1, <3>2
  <2>3. CASE i \notin 1..n + 1
    <3>1. i \notin Staying(q) /\ i \notin Staying(p) /\ i # n + 1
        BY <1>1, <1>8, <2>3
    <3> QED BY <3>1
  <2>4. i \in 1..n \/ i = n + 1 \/ i \notin 1..n + 1
      BY <1>1
  <2> QED BY <2>1, <2>2, <2>3, <2>4
<1> DEFINE P == Staying(p)
           Q == Staying(q)
           A == At(q)
<1>11. \A i : i \in A <=> i \in Q /\ L(i) = l
    BY DEF At
<1> HIDE DEF P, Q, A, L, l
<1>12. /\ x \notin Dots => P = Q \union {n + 1}
       /\ x = Plain(".") => P = Q
       /\ x = Plain("..") => P = Q \ A
    BY <1>10, <1>11 DEF P, Q
<1> QED BY <1>1, <1>12 DEF StaysNow, P, Q, A

\* The levels of the segments that stay go down one by one to that of the path.
LevelsInRow(q) ==
    LET stay == Staying(q)
    IN  /\ stay # {} => At(q) # {}
        /\ \A i, k \in stay : i < k => Level(q, k) < Level(q, i)
        /\ \A i \in stay : (\A k \in stay : i <= k) \/ \E k \in stay : k < i /\ Level(q, k) = Level(q, i) + 1

\* The next segment keeps them so.
LEMMA RowKept ==
    ASSUME NEW p, NEW q, NEW x, Extends(p, q, x), x \notin Dots \/ x = Plain(".") \/ x = Plain(".."),
           LevelsInRow(q)
    PROVE  LevelsInRow(p)
<1> DEFINE n == Len(q)
           P == Staying(p)
           Q == Staying(q)
           L(i) == Level(q, i)
           M(i) == Level(p, i)
<1>1. n \in Nat /\ Len(p) = n + 1 /\ \A i \in Q : i \in 1..n
    BY DEF Extends, Staying
<1>2. \A i \in Q : M(i) = L(i)
    BY <1>1, LevelsKept
<1>3. \A i \in Q : L(i) \in Int
    BY <1>1, LevelType
<1>4. /\ M(n + 1) \in Int /\ L(n) \in Int
      /\ x \notin Dots => M(n + 1) = L(n) - 1
      /\ x = Plain(".") => M(n + 1) = L(n)
      /\ x = Plain("..") => M(n + 1) = L(n) + 1
    BY <1>1, LevelNext DEF LevelNow
<1>5. /\ x \notin Dots => P = Q \union {n + 1}
      /\ x = Plain(".") => P = Q
      /\ x = Plain("..") => P = {i \in Q : L(i) # L(n)}
  <2>1. Q \ At(q) = {i \in Q : L(i) # L(n)}
      BY DEF At
  <2> QED BY <1>1, <2>1, StayingNext DEF StaysNow
<1>6. /\ Q # {} => \E i \in Q : L(i) = L(n)
      /\ \A i, k \in Q : i < k => L(k) < L(i)
      /\ \A i \in Q : (\A k \in Q : i <= k) \/ \E k \in Q : k < i /\ L(k) = L(i) + 1
    BY DEF LevelsInRow, At
<1>7. \A i \in Q : L(n) <= L(i)
  <2> SUFFICES ASSUME NEW i \in Q PROVE L(n) <= L(i)
      OBVIOUS
  <2>1. i \in 1..n /\ i \in Staying(q)
      BY <1>1
  <2>2. \A j \in i + 1..n : L(j) <= L(i)
      BY <1>1, <2>1, StaysByLevel DEF StaysBy
  <2>3. i = n \/ n \in i + 1..n
      BY <1>1, <2>1
  <2> HIDE DEF n
  <2> QED BY <1>3, <1>4, <2>1, <2>2, <2>3
<1> SUFFICES /\ P # {} => \E i \in P : M(i) = M(n + 1)
             /\ \A i, k \in P : i < k => M(k) < M(i)
             /\ \A i \in P : (\A k \in P : i <= k) \/ \E k \in P : k < i /\ M(k) = M(i) + 1
    BY <1>1 DEF LevelsInRow, At
<1> HIDE DEF n, P, Q, L, M
<1>8. CASE x \notin Dots
  <2>1. P = Q \union {n + 1} /\ M(n + 1) = L(n) - 1
      BY <1>4, <1>5, <1>8
  <2>2. n + 1 \in P
      BY <2>1
  <2>3. \A i \in Q : i < n + 1 /\ i \in Nat /\ M(n + 1) < M(i)
      BY <1>1, <1>2, <1>3, <1>4, <1>7, <2>1
  <2>4. ASSUME NEW i \in P, NEW k \in P, i < k PROVE M(k) < M(i)
    <3>1. i \in Q
        BY <1>1, <2>1, <2>3, <2>4
    <3> QED BY <1>1, <1>2, <1>6, <2>1, <2>3, <2>4, <3>1
  <2>5. ASSUME NEW i \in P PROVE (\A k \in P : i <= k) \/ \E k \in P : k < i /\ M(k) = M(i) + 1
    <3>1. CASE i \in Q
      <4>1. CASE \A k \in Q : i <= k
        <5>1. i <= n + 1
            BY <1>1, <2>3, <3>1
        <5> QED BY <2>1, <4>1, <5>1
      <4>2. CASE \E k \in Q : k < i /\ L(k) = L(i) + 1
          BY <1>2, <2>1, <3>1, <4>2
      <4> QED BY <1>6, <3>1, <4>1, <4>2
    <3>2. CASE i = n + 1 /\ Q # {}
      <4>1. PICK k \in Q : L(k) = L(n)
          BY <1>6, <3>2
      <4>2. k < i /\ M(k) = M(i) + 1
          BY <1>2, <1>4, <2>1, <2>3, <3>2, <4>1
      <4> QED BY <2>1, <4>2
    <3>3. CASE i = n + 1 /\ Q = {}
        BY <1>1, <2>1, <3>3
    <3> QED BY <2>1, <3>1, <3>2, <3>3
  <2> QED BY <2>2, <2>4, <2>5
<1>9. CASE x = Plain(".")
  <2>1. P = Q /\ M(n + 1) = L(n)
      BY <1>4, <1>5, <1>9
  <2> QED BY <1>2, <1>6, <2>1
<1>10. CASE x = Plain("..")
  <2>1. P = {i \in Q : L(i) # L(n)} /\ M(n + 1) = L(n) + 1
      BY <1>4, <1>5, <1>10
  <2>2. \A i, k \in P : i < k => M(k) < M(i)
      BY <1>2, <1>6, <2>1
  <2>3. ASSUME P # {} PROVE \E i \in P : M(i) = M(n + 1)
    <3>1. PICK m \in Q : L(m) = L(n)
        BY <1>6, <2>1, <2>3
    <3>2. PICK i \in Q : L(i) # L(n)
        BY <2>1, <2>3
    <3>3. L(i) > L(m) /\ i # m
        BY <1>3, <1>4, <1>7, <3>1, <3>2
    <3>4. ~ (m <= i)
        BY <1>1, <1>3, <1>6, <3>3
    <3>5. PICK k \in Q : k < m /\ L(k) = L(m) + 1
        BY <1>6, <3>4
    <3> QED BY <1>2, <1>4, <2>1, <3>1, <3>5
  <2>4. ASSUME NEW i \in P PROVE (\A k \in P : i <= k) \/ \E k \in P : k < i /\ M(k) = M(i) + 1
    <3>1. CASE \A k \in Q : i <= k
        BY <2>1, <3>1
    <3>2. CASE \E k \in Q : k < i /\ L(k) = L(i) + 1
      <4>1. PICK k \in Q : k < i /\ L(k) = L(i) + 1
          BY <3>2
      <4>2. i \in Q /\ L(k) # L(n)
          BY <1>3, <1>4, <1>7, <2>1, <4>1
      <4> QED BY <1>2, <2>1, <4>1, <4>2
    <3> QED BY <1>6, <2>1, <3>1, <3>2
  <2> QED BY <2>2, <2>3, <2>4
<1> QED BY <1>8, <1>9, <1>10

LEMMA AppendExtends == ASSUME NEW S, NEW q \in Seq(S), NEW x \in S PROVE Extends(Append(q, x), q, x)
BY DEF Extends

LEMMA DotsOrName == ASSUME NEW x PROVE x \notin Dots \/ x = Plain(".") \/ x = Plain("..")
BY DEF Dots

LEMMA LevelsAlwaysInRow == ASSUME NEW S PROVE \A q \in Seq(S) : LevelsInRow(q)
<1> DEFINE T == {q \in Seq(S) : LevelsInRow(q)}
<1>1. <<>> \in T
  <2>1. Staying(<<>>) = {}
      BY DEF Staying
  <2> QED BY <2>1 DEF LevelsInRow
<1>2. ASSUME NEW q \in Seq(S), NEW x \in S, q \in T PROVE Append(q, x) \in T
  <2>1. Append(q, x) \in Seq(S)
      OBVIOUS
  <2>2. LevelsInRow(Append(q, x))
      BY <1>2, AppendExtends, DotsOrName, RowKept
  <2> QED BY <2>1, <2>2
<1> HIDE DEF T
<1>3. \A q \in Seq(S) : q \in T
    BY <1>1, <1>2, ListInduction
<1> QED BY <1>3 DEF T

-----------------------------------------------------------------------------
(* What remains of a path *)

\* The last item that is chosen is at the last place asked for.
LEMMA ChosenWithoutLast ==
    ASSUME NEW S, NEW s \in Seq(S), NEW I, I \subseteq 1..Len(s), NEW m \in I, \A k \in I : k <= m
    PROVE  Chosen(s, I) = Append(Chosen(s, I \ {m}), s[m])
<1> DEFINE J == I \ {m}
           T == {c \in Seq(S) : Len(c) >= m /\ SubSeq(c, 1, m) = SubSeq(s, 1, m) =>
                                    Chosen(c, I) = Append(Chosen(c, J), s[m])}
<1>0. m \in 1..Len(s) /\ m \in Nat /\ m >= 1 /\ Len(s) \in Nat /\ Len(s) >= m
    OBVIOUS
<1>1. <<>> \in T
  <2>1. ~ (Len(<<>>) >= m) /\ <<>> \in Seq(S)
      BY <1>0
  <2> QED BY <2>1
<1>2. ASSUME NEW c \in Seq(S), NEW e \in S, c \in T PROVE Append(c, e) \in T
  <2> DEFINE r == Append(c, e)
             h == Chosen(c, I)
             g == Chosen(c, J)
  <2>1. r \in Seq(S) /\ Len(r) = Len(c) + 1 /\ Len(c) \in Nat /\ r[Len(c) + 1] = e
        /\ \A i \in 1 .. Len(c) : r[i] = c[i]
      OBVIOUS
  <2>2. /\ Chosen(r, I) = IF Len(c) + 1 \in I THEN Append(h, e) ELSE h
        /\ Chosen(r, J) = IF Len(c) + 1 \in J THEN Append(g, e) ELSE g
      BY ChosenOfAppend
  <2> HIDE DEF r, h, g
  <2> SUFFICES ASSUME Len(r) >= m, SubSeq(r, 1, m) = SubSeq(s, 1, m)
               PROVE  Chosen(r, I) = Append(Chosen(r, J), s[m])
      BY <2>1 DEF r
  <2>3. r[m] = s[m]
    <3>1. SubSeq(r, 1, m)[m] = r[m] /\ SubSeq(s, 1, m)[m] = s[m]
        BY <1>0, <2>1
    <3> QED BY <3>1
  <2>4. CASE m = Len(c) + 1
    <3>1. \A i \in 1 .. Len(c) : i \in I <=> i \in J
        BY <2>1, <2>4
    <3>2. h = g
        BY <3>1, ChosenAgree DEF h, g
    <3>3. Len(c) + 1 \in I /\ Len(c) + 1 \notin J
        BY <2>4
    <3> QED BY <2>1, <2>2, <2>3, <2>4, <3>2, <3>3
  <2>5. CASE m # Len(c) + 1
    <3>1. Len(c) >= m
        BY <1>0, <2>1, <2>5
    <3>2. SubSeq(c, 1, m) = SubSeq(s, 1, m)
      <4>1. SubSeq(c, 1, m) = SubSeq(r, 1, m)
          BY <1>0, <2>1, <3>1
      <4> QED BY <4>1
    <3>3. h = Append(g, s[m])
        BY <1>2, <3>1, <3>2 DEF h, g
    <3>4. Len(c) + 1 \notin I /\ Len(c) + 1 \notin J
        BY <1>0, <2>1, <3>1
    <3> QED BY <2>2, <3>3, <3>4
  <2> QED BY <2>4, <2>5
<1> HIDE DEF T
<1>3. s \in T
    BY <1>1, <1>2, ListInduction
<1> QED BY <1>0, <1>3 DEF T

WithoutLast(s) == IF s = <<>> THEN s ELSE Front(s)
RemainsNow(q, x) ==
    /\ x \notin Dots => Remaining(Append(q, x)) = Append(Remaining(q), x)
    /\ x = Plain(".") => Remaining(Append(q, x)) = Remaining(q)
    /\ x = Plain("..") => Remaining(Append(q, x)) = WithoutLast(Remaining(q))

LEMMA RemainingType == ASSUME NEW S, NEW q \in Seq(S) PROVE Remaining(q) \in Seq(S)
BY ChosenType DEF Remaining

LEMMA RemainingNext ==
    ASSUME NEW S, NEW q \in Seq(S), NEW x \in S
    PROVE  RemainsNow(q, x)
<1> DEFINE p == Append(q, x)
           P == Staying(p)
           Q == Staying(q)
<1>1. p \in Seq(S) /\ Len(p) = Len(q) + 1 /\ Len(q) \in Nat /\ Q \subseteq 1..Len(q)
    BY DEF Staying
<1>2. Remaining(q) = Chosen(q, Q)
    BY DEF Remaining, Staying
<1>3. Remaining(p) = IF Len(q) + 1 \in P THEN Append(Chosen(q, P), x) ELSE Chosen(q, P)
  <2>1. Remaining(p) = Chosen(p, P)
      BY DEF Remaining, Staying
  <2> HIDE DEF P
  <2> QED BY <2>1, ChosenOfAppend
<1>4. StaysNow(p, q, x)
    BY AppendExtends, DotsOrName, StayingNext
<1>5. LevelsInRow(q)
    BY LevelsAlwaysInRow
<1> HIDE DEF p, P, Q
<1>6. ASSUME x \notin Dots PROVE Remaining(p) = Append(Remaining(q), x)
  <2>1. P = Q \union {Len(q) + 1}
      BY <1>1, <1>4, <1>6 DEF StaysNow, P, Q
  <2>2. Len(q) + 1 \in P /\ \A i \in 1..Len(q) : i \in P <=> i \in Q
      BY <1>1, <2>1
  <2>3. Chosen(q, P) = Chosen(q, Q)
      BY <2>2, ChosenAgree
  <2> QED BY <1>2, <1>3, <2>2, <2>3
<1>7. ASSUME x = Plain(".") PROVE Remaining(p) = Remaining(q)
  <2>1. P = Q
      BY <1>4, <1>7 DEF StaysNow, P, Q
  <2>2. Len(q) + 1 \notin P
      BY <1>1, <2>1
  <2> QED BY <1>2, <1>3, <2>1, <2>2
<1>8. ASSUME x = Plain("..") PROVE Remaining(p) = WithoutLast(Remaining(q))
  <2>1. P = Q \ At(q)
      BY <1>4, <1>8 DEF StaysNow, P, Q
  <2>2. Len(q) + 1 \notin P
      BY <1>1, <2>1
  <2>3. Remaining(p) = Chosen(q, P)
      BY <1>3, <2>2
  <2>4. CASE Q = {}
    <3>1. P = {} /\ \A i \in 1..Len(q) : i \notin P
        BY <2>1, <2>4
    <3>2. Chosen(q, P) = <<>> /\ Chosen(q, Q) = <<>>
        BY <2>4, <3>1, ChosenNone
    <3> QED BY <1>2, <2>3, <3>2 DEF WithoutLast
  <2>5. CASE Q # {}
    <3> DEFINE L(i) == Level(q, i)
               n == Len(q)
    <3>1. At(q) # {} /\ At(q) = {i \in Q : L(i) = L(n)} /\ \A i, k \in Q : i < k => L(k) < L(i)
        BY <1>5, <2>5 DEF LevelsInRow, At, Q
    <3>2. PICK m \in Q : L(m) = L(n)
        BY <3>1
    <3>3. \A i \in Q : L(i) \in Int /\ i \in Nat
        BY <1>1, LevelType
    <3>4. \A i \in Q : L(n) <= L(i)
      <4> SUFFICES ASSUME NEW i \in Q PROVE L(n) <= L(i)
          OBVIOUS
      <4>1. i \in 1..n /\ i \in Staying(q)
          BY <1>1 DEF Q
      <4>2. \A j \in i + 1..n : L(j) <= L(i)
          BY <1>1, <4>1, StaysByLevel DEF StaysBy
      <4>3. i = n \/ n \in i + 1..n
          BY <1>1, <4>1
      <4>4. L(i) \in Int
          BY <3>3
      <4> HIDE DEF n, L
      <4> QED BY <4>1, <4>2, <4>3, <4>4
    <3> HIDE DEF L, n
    <3>5. \A i \in Q : i # m => i < m /\ L(i) # L(n)
        BY <3>1, <3>2, <3>3, <3>4
    <3>6. P = Q \ {m} /\ \A k \in Q : k <= m
        BY <2>1, <3>1, <3>2, <3>3, <3>5
    <3>7. Chosen(q, Q) = Append(Chosen(q, P), q[m])
        BY <1>1, <3>6, ChosenWithoutLast
    <3>8. Chosen(q, P) \in Seq(S) /\ q[m] \in S
        BY <1>1, ChosenType
    <3>9. ASSUME NEW c \in Seq(S), NEW e \in S PROVE Append(c, e) # <<>> /\ Front(Append(c, e)) = c
        BY DEF Front
    <3> QED BY <1>2, <2>3, <3>7, <3>8, <3>9 DEF WithoutLast
  <2> QED BY <2>4, <2>5
<1> QED BY <1>6, <1>7, <1>8 DEF RemainsNow, p

-----------------------------------------------------------------------------
(* normalize_path *)

Marker == Plain("empty")
PathRun(pieces) == Run("path", "none", <<Marker>>, pieces)

LEMMA PathReading ==
    ASSUME NEW pieces, Len(pieces) \in Nat
    PROVE  Reading(PushPiece, <<Marker>>, pieces) = PathRun(pieces)
<1> DEFINE p == <<Marker>>
           after == CHOOSE g : g = [i \in 0 .. Len(pieces) |->
                        IF i = 0 THEN p ELSE PushPiece(g[i - 1], pieces[i])]
<1> HIDE DEF p
<1>1. PICK f : IsRun(f, "path", "none", p, pieces)
    BY RunExists
<1>2. f = [i \in 0 .. Len(pieces) |-> IF i = 0 THEN p ELSE PushPiece(f[i - 1], pieces[i])]
  <2>1. f = [i \in 0 .. Len(pieces) |->
                IF i = 0 THEN p ELSE ReadItem("path", "none", f[i - 1], pieces[i])]
      BY <1>1, RecursionIsRun
  <2> QED BY <2>1 DEF ReadItem
<1>3. after = [i \in 0 .. Len(pieces) |->
                  IF i = 0 THEN p ELSE PushPiece(after[i - 1], pieces[i])]
    BY <1>2
<1> HIDE DEF after
<1>4. IsRun(after, "path", "none", p, pieces)
    BY <1>3 DEF IsRun, ReadItem
<1>5. after[Len(pieces)] = Run("path", "none", p, pieces)
    BY <1>4, RunIsLast
<1> QED BY <1>5 DEF PathRun, Reading, after, p

\* A path without empty segments, and without a "." right after "..".
IsRelative(q) ==
    /\ \A i \in 1..Len(q) : q[i] # Marker
    /\ \A i \in 2..Len(q) : q[i] = Plain(".") => q[i - 1] # Plain("..")
EndsAbove(q) == q # <<>> /\ q[Len(q)] = Plain("..")

\* The stack is what remains of the path so far, behind the empty segment it began
\* with until a ".." takes that.
IsStack(q, stack) ==
    \/ stack = Joined(<<Marker>>, Remaining(q))
    \/ stack = Remaining(q) /\ (stack = <<>> => EndsAbove(q))

LEMMA FrontOfAppend ==
    ASSUME NEW S PROVE \A c \in Seq(S), e \in S : Append(c, e) # <<>> /\ Front(Append(c, e)) = c
BY DEF Front

LEMMA FrontOfJoined ==
    ASSUME NEW S, NEW m \in S PROVE \A r \in Seq(S) : r # <<>> => Front(Joined(<<m>>, r)) = Joined(<<m>>, Front(r))
BY DEF Front, Joined

LEMMA FrontType == ASSUME NEW S PROVE \A r \in Seq(S) : r # <<>> =>
    Front(r) \in Seq(S) /\ r = Append(Front(r), r[Len(r)]) /\ r[Len(r)] \in S
BY DEF Front

LEMMA AppendOfJoined ==
    ASSUME NEW S, NEW m \in S, NEW r \in Seq(S), NEW e \in S
    PROVE  Append(Joined(<<m>>, r), e) = Joined(<<m>>, Append(r, e))
BY DEF Joined

LEMMA MarkedFacts ==
    ASSUME NEW S, NEW m \in S
    PROVE  /\ Front(Joined(<<m>>, <<>>)) = <<>>
           /\ \A r \in Seq(S) : Joined(<<m>>, r) # <<>> /\ Joined(<<m>>, r)[1] = m /\ Tail(Joined(<<m>>, r)) = r
BY DEF Front, Joined

LEMMA StackKept ==
    ASSUME NEW S, Marker \in S, NEW q \in Seq(S), NEW x \in S, NEW stack, IsStack(q, stack),
           x # Marker, x = Plain(".") => ~ EndsAbove(q)
    PROVE  IsStack(Append(q, x), PushPiece(stack, x))
<1> DEFINE p == Append(q, x)
           r == Remaining(q)
           marked == Joined(<<Marker>>, r)
<1>1. r \in Seq(S)
    BY RemainingType
<1>2. /\ x \notin Dots => Remaining(p) = Append(r, x)
      /\ x = Plain(".") => Remaining(p) = r
      /\ x = Plain("..") => Remaining(p) = WithoutLast(r)
    BY RemainingNext DEF RemainsNow
<1>3. stack = marked \/ (stack = r /\ (stack = <<>> => EndsAbove(q)))
    BY DEF IsStack
<1>4. p # <<>> /\ p[Len(p)] = x
    OBVIOUS
<1>5. marked # <<>>
    BY <1>1, MarkedFacts
<1>6. x = Plain("..") => EndsAbove(p)
    BY <1>4 DEF EndsAbove
<1> HIDE DEF p, r
<1>7. CASE x \notin Dots
  <2>1. PushPiece(stack, x) = Append(stack, x)
      BY <1>7 DEF PushPiece, Dots, Marker
  <2>2. Append(marked, x) = Joined(<<Marker>>, Append(r, x)) /\ Append(r, x) # <<>>
    <3>1. Append(Joined(<<Marker>>, r), x) = Joined(<<Marker>>, Append(r, x))
        BY <1>1, AppendOfJoined
    <3>2. Append(r, x) # <<>>
        BY <1>1, FrontOfAppend, Zenon
    <3> QED BY <3>1, <3>2
  <2> HIDE DEF marked
  <2> QED BY <1>2, <1>3, <1>7, <2>1, <2>2 DEF IsStack, p
<1>8. CASE x = Plain(".")
  <2>1. stack # <<>>
      BY <1>3, <1>5, <1>8
  <2>2. PushPiece(stack, x) = stack
      BY <1>8, <2>1 DEF PushPiece
  <2> QED BY <1>2, <1>3, <1>8, <2>1, <2>2 DEF IsStack, p
<1>9. CASE x = Plain("..")
  <2>1. PushPiece(stack, x) = WithoutLast(stack)
      BY <1>9, DotsDiffer DEF PushPiece, WithoutLast
  <2>2. CASE stack = r
      BY <1>2, <1>6, <1>9, <2>1, <2>2 DEF IsStack, p
  <2>3. CASE stack = marked /\ r = <<>>
    <3>1. Front(stack) = <<>>
        BY <2>3, MarkedFacts
    <3> QED BY <1>2, <1>5, <1>6, <1>9, <2>1, <2>3, <3>1 DEF IsStack, WithoutLast, p
  <2>4. CASE stack = marked /\ r # <<>>
    <3>1. Front(stack) = Joined(<<Marker>>, Front(r))
        BY <1>1, <2>4, FrontOfJoined
    <3> HIDE DEF marked
    <3> QED BY <1>2, <1>5, <1>9, <2>1, <2>4, <3>1 DEF IsStack, WithoutLast, p
  <2> QED BY <1>3, <2>2, <2>3, <2>4
<1> QED BY <1>7, <1>8, <1>9, DotsOrName DEF p

LEMMA StackIs ==
    ASSUME NEW S, Marker \in S
    PROVE  \A q \in Seq(S) : IsRelative(q) => IsStack(q, PathRun(q))
<1> DEFINE T == {q \in Seq(S) : IsRelative(q) => IsStack(q, PathRun(q))}
<1>1. <<>> \in T
  <2>1. PathRun(<<>>) = <<Marker>>
      BY RunOfEmpty DEF PathRun
  <2>2. Remaining(<<>>) = <<>>
      BY ChosenOfEmpty DEF Remaining
  <2>3. Joined(<<Marker>>, <<>>) = <<Marker>>
      BY DEF Joined
  <2> QED BY <2>1, <2>2, <2>3 DEF IsStack
<1>2. ASSUME NEW q \in Seq(S), NEW x \in S, q \in T PROVE Append(q, x) \in T
  <2> DEFINE p == Append(q, x)
  <2>1. p \in Seq(S) /\ Len(p) = Len(q) + 1 /\ Len(q) \in Nat /\ p[Len(q) + 1] = x
        /\ \A i \in 1..Len(q) : p[i] = q[i]
      OBVIOUS
  <2> SUFFICES ASSUME IsRelative(p) PROVE IsStack(p, PathRun(p))
      BY <2>1
  <2> HIDE DEF p
  <2>2. IsRelative(q) /\ x # Marker
    <3>1. /\ \A i \in 1..Len(q) : i \in 1..Len(p)
          /\ \A i \in 2..Len(q) : i \in 2..Len(p) /\ i - 1 \in 1..Len(q) /\ i \in 1..Len(q)
          /\ Len(q) + 1 \in 1..Len(p)
        BY <2>1
    <3> QED BY <2>1, <3>1 DEF IsRelative
  <2>3. x = Plain(".") => ~ EndsAbove(q)
    <3> SUFFICES ASSUME x = Plain("."), EndsAbove(q) PROVE FALSE
        OBVIOUS
    <3>1. q # <<>> /\ q[Len(q)] = Plain("..")
        BY DEF EndsAbove
    <3>2. Len(q) # 0
        BY <3>1
    <3>3. Len(p) \in 2..Len(p) /\ Len(p) - 1 = Len(q) /\ Len(q) \in 1..Len(q)
        BY <2>1, <3>2
    <3> QED BY <2>1, <3>1, <3>3 DEF IsRelative
  <2>4. IsStack(q, PathRun(q))
      BY <1>2, <2>2
  <2>5. IsList(q)
      BY SeqIsList, Zenon
  <2>6. PathRun(p) = PushPiece(PathRun(q), x)
      BY <2>5, RunOfAppend DEF PathRun, ReadItem, p
  <2> QED BY <2>2, <2>3, <2>4, <2>6, StackKept DEF p
<1> HIDE DEF T
<1>3. \A q \in Seq(S) : q \in T
    BY <1>1, <1>2, ListInduction
<1> QED BY <1>3 DEF T

\* A path that ends in a name becomes what remains of it.
LEMMA Normalizes ==
    ASSUME NEW S, NEW q \in Seq(S), IsRelative(q), q # <<>>, q[Len(q)] \notin Dots
    PROVE  NormalizePath(q) = Remaining(q)
<1> DEFINE V == S \union {Marker}
           r == Remaining(q)
           stack == PathRun(q)
<1>1. q \in Seq(V) /\ Marker \in V /\ Len(q) \in Nat
    OBVIOUS
<1> HIDE DEF V
<1>2. IsStack(q, stack)
    BY <1>1, StackIs
<1>3. r \in Seq(V) /\ r # <<>>
  <2>1. Front(q) \in Seq(V) /\ q = Append(Front(q), q[Len(q)]) /\ q[Len(q)] \in V
      BY <1>1, FrontType
  <2>2. r = Append(Remaining(Front(q)), q[Len(q)])
      BY <2>1, RemainingNext DEF RemainsNow
  <2>3. Remaining(Front(q)) \in Seq(V)
      BY <2>1, RemainingType
  <2> QED BY <2>1, <2>2, <2>3, FrontOfAppend
<1>4. r[1] # Marker
  <2>1. 1 \in 1..Len(r) /\ r = Chosen(q, Staying(q))
      BY <1>3 DEF Remaining, Staying
  <2>2. PICK i \in 1..Len(q) : q[i] = r[1]
      BY <1>1, <2>1, ChosenFrom
  <2> QED BY <2>2 DEF IsRelative
<1>5. NormalizePath(q) =
          LET rest == IF stack # <<>> /\ stack[1] = Marker THEN Tail(stack) ELSE stack
          IN  IF rest = <<>> THEN <<Marker>> ELSE rest
    BY <1>1, PathReading DEF NormalizePath, Marker
<1> HIDE DEF r, stack
<1>6. CASE stack = Joined(<<Marker>>, r)
    BY <1>1, <1>3, <1>5, <1>6, MarkedFacts DEF r
<1>7. CASE stack = r
    BY <1>3, <1>4, <1>5, <1>7 DEF r
<1> QED BY <1>2, <1>6, <1>7 DEF IsStack, r

\* Names stay behind what remains before them.
LEMMA NamesRemain ==
    ASSUME NEW S, NEW q \in Seq(S)
    PROVE  \A t \in Seq(S) : (\A i \in 1..Len(t) : t[i] \notin Dots) => Remaining(Joined(q, t)) = Joined(Remaining(q), t)
<1> DEFINE AllNames(t) == \A i \in 1..Len(t) : t[i] \notin Dots
           T == {t \in Seq(S) : AllNames(t) => Remaining(Joined(q, t)) = Joined(Remaining(q), t)}
<1>0. Remaining(q) \in Seq(S)
    BY RemainingType
<1>1. <<>> \in T
  <2>1. \A a \in Seq(S) : Joined(a, <<>>) = a
      BY DEF Joined
  <2>2. Joined(q, <<>>) = q /\ Joined(Remaining(q), <<>>) = Remaining(q)
      BY <1>0, <2>1
  <2> QED BY <2>2
<1>2. ASSUME NEW t \in Seq(S), NEW x \in S, t \in T PROVE Append(t, x) \in T
  <2> DEFINE u == Append(t, x)
  <2>1. u \in Seq(S) /\ Len(u) = Len(t) + 1 /\ Len(t) \in Nat /\ u[Len(t) + 1] = x
        /\ \A i \in 1..Len(t) : u[i] = t[i]
      OBVIOUS
  <2> SUFFICES ASSUME AllNames(u) PROVE Remaining(Joined(q, u)) = Joined(Remaining(q), u)
      BY <2>1
  <2> HIDE DEF u
  <2>2. AllNames(t) /\ x \notin Dots
    <3>1. Len(t) + 1 \in 1..Len(u) /\ \A i \in 1..Len(t) : i \in 1..Len(u)
        BY <2>1
    <3> QED BY <2>1, <3>1
  <2>3. Remaining(Joined(q, t)) = Joined(Remaining(q), t)
      BY <1>2, <2>2
  <2>4. /\ Joined(q, u) = Append(Joined(q, t), x)
        /\ Joined(Remaining(q), u) = Append(Joined(Remaining(q), t), x)
      BY <1>0, AppendToConcat DEF AppendsToSecond, Joined, u
  <2>5. Joined(q, t) \in Seq(S)
      BY JoinedType
  <2> QED BY <2>2, <2>3, <2>4, <2>5, RemainingNext DEF RemainsNow
<1> HIDE DEF T
<1>3. \A t \in Seq(S) : t \in T
    BY <1>1, <1>2, ListInduction
<1> QED BY <1>3 DEF T

\* A path that goes on in names only.
LEMMA NormalizesNames ==
    ASSUME NEW S, NEW q \in Seq(S), NEW t \in Seq(S), t # <<>>, \A i \in 1..Len(t) : t[i] \notin Dots,
           IsRelative(Joined(q, t))
    PROVE  NormalizePath(Joined(q, t)) = Joined(Remaining(q), t)
<1> DEFINE p == Joined(q, t)
<1>1. p \in Seq(S) /\ Remaining(p) = Joined(Remaining(q), t)
    BY JoinedType, NamesRemain
<1>2. Len(t) \in 1..Len(t) /\ Len(t) \in Nat /\ Len(q) \in Nat
    OBVIOUS
<1>3. Len(p) = Len(q) + Len(t) /\ p[Len(q) + Len(t)] = t[Len(t)]
    BY <1>2 DEF Joined
<1> HIDE DEF p
<1>4. p # <<>> /\ p[Len(p)] \notin Dots
    BY <1>1, <1>2, <1>3
<1> QED BY <1>1, <1>4, Normalizes DEF p

-----------------------------------------------------------------------------
(* Url::parse *)

AllBare(q) == \A i \in 1..Len(q) : IsBare(q[i])

\* Without a question mark all of it is the path.
LEMMA BareParsed ==
    ASSUME NEW host, NEW q, AllBare(q)
    PROVE  ParsePieces(host, q) = Url(host, q, <<>>)
<1>1. \A i \in 1..Len(q) : q[i].query = <<>>
  <2> SUFFICES ASSUME NEW i \in 1..Len(q) PROVE q[i].query = <<>>
      OBVIOUS
  <2> DEFINE x == q[i]
  <2>1. x = [name |-> x.name, number |-> x.number, query |-> <<>>]
      BY DEF AllBare, IsBare
  <2> HIDE DEF x
  <2>2. x.query = <<>>
      BY <2>1
  <2> QED BY <2>2 DEF x
<1>2. {i \in 1..Len(q) : q[i].query # <<>>} = {}
    BY <1>1
<1> QED BY <1>2 DEF ParsePieces

\* The last segment of a reference and the pieces of its query.
Marked(x, query) == [i \in 1..Len(query) |-> IF i = 1 THEN [x EXCEPT !.query = << query[1] >>] ELSE Plain(query[i])]

IsMarked(k, x, query) ==
    /\ IsList(k) /\ Len(k) = Len(query) /\ Len(query) \in Nat /\ Len(query) >= 1
    /\ k[1] = [x EXCEPT !.query = << query[1] >>]
    /\ \A i \in 2..Len(query) : k[i] = Plain(query[i])

LEMMA MarkedPieces ==
    ASSUME NEW x, NEW query, IsList(query), query # <<>>
    PROVE  IsMarked(Marked(x, query), x, query)
<1>1. Len(query) \in Nat /\ Len(query) >= 1
    BY DEF IsList
<1> DEFINE f == Marked(x, query)
<1>2. f = [i \in 1..Len(query) |-> f[i]]
    BY DEF Marked
<1>3. f[1] = [x EXCEPT !.query = << query[1] >>] /\ \A i \in 2..Len(query) : f[i] = Plain(query[i])
    BY <1>1 DEF Marked
<1> HIDE DEF f
<1>4. IsList(f) /\ Len(f) = Len(query)
    BY <1>1, <1>2, FunctionIsList
<1> QED BY <1>1, <1>3, <1>4 DEF f, IsMarked

\* With one, the path is what is before it and the query what is behind it.
LEMMA MarkParsed ==
    ASSUME NEW host, NEW r, IsList(r), AllBare(r), NEW x, IsBare(x), NEW query, IsList(query), query # <<>>
    PROVE  ParsePieces(host, Joined(r, Marked(x, query))) = Url(host, Append(r, x), query)
<1> DEFINE z == Joined(r, Marked(x, query))
           m == Len(r) + 1
           n == Len(query)
           w == [x EXCEPT !.query = << query[1] >>]
           marks == {i \in 1..Len(z) : z[i].query # <<>>}
           bare(i) == [z[i] EXCEPT !.query = <<>>]
<1>1. /\ Len(z) = Len(r) + n /\ Len(r) \in Nat /\ n \in Nat /\ n >= 1
      /\ \A i \in 1..Len(r) : z[i] = r[i]
      /\ z[m] = w
      /\ \A i \in 2..n : z[Len(r) + i] = Plain(query[i])
  <2>1. IsJoin(z, r, Marked(x, query))
      BY MarkedPieces, JoinedIsList DEF IsMarked
  <2> DEFINE k == Marked(x, query)
  <2>2. /\ Len(k) = n /\ n \in Nat /\ n >= 1 /\ k[1] = w
        /\ \A i \in 2..n : k[i] = Plain(query[i])
    <3>1. IsMarked(k, x, query)
        BY MarkedPieces
    <3> HIDE DEF k
    <3> QED BY <3>1 DEF IsMarked, w, n
  <2>3. /\ Len(z) = Len(r) + Len(k) /\ Len(r) \in Nat
        /\ \A i \in 1..Len(r) : z[i] = r[i]
        /\ \A i \in 1..Len(k) : z[Len(r) + i] = k[i]
      BY <2>1 DEF IsJoin
  <2> HIDE DEF z, w, k, n
  <2>4. 1 \in 1..Len(k) /\ \A i \in 2..n : i \in 1..Len(k)
      BY <2>2
  <2>5. z[m] = w /\ \A i \in 2..n : z[Len(r) + i] = Plain(query[i])
      BY <2>2, <2>3, <2>4
  <2> QED BY <2>2, <2>3, <2>5
<1>2. w = [name |-> x.name, number |-> x.number, query |-> << query[1] >>]
      /\ x = [name |-> x.name, number |-> x.number, query |-> <<>>]
  <2>1. x = [name |-> x.name, number |-> x.number, query |-> <<>>]
      BY DEF IsBare
  <2> DEFINE a == x.name
             b == x.number
             c == << query[1] >>
  <2>2. x = [name |-> a, number |-> b, query |-> <<>>]
      BY <2>1
  <2> HIDE DEF a, b, c
  <2>3. [x EXCEPT !.query = c] = [name |-> a, number |-> b, query |-> c]
      BY <2>2
  <2> QED BY <2>1, <2>3 DEF a, b, c
<1>3. ASSUME NEW i \in 1..Len(r) PROVE z[i] = [name |-> z[i].name, number |-> z[i].number, query |-> <<>>]
    BY <1>1, <1>3 DEF AllBare, IsBare
<1> HIDE DEF z, w
<1>4. \A i \in 1..Len(r) : z[i].query = <<>> /\ bare(i) = r[i]
  <2> SUFFICES ASSUME NEW i \in 1..Len(r) PROVE z[i].query = <<>> /\ bare(i) = r[i]
      OBVIOUS
  <2> DEFINE y == z[i]
             a == y.name
             b == y.number
  <2>1. y = [name |-> a, number |-> b, query |-> <<>>]
      BY <1>3
  <2> HIDE DEF y, a, b
  <2>2. y.query = <<>> /\ [y EXCEPT !.query = <<>>] = y
      BY <2>1
  <2> QED BY <1>1, <2>2 DEF y
<1>5. w.query = << query[1] >> /\ w.query # <<>> /\ [w EXCEPT !.query = <<>>] = x
  <2> DEFINE a == x.name
             b == x.number
             c == << query[1] >>
  <2>1. w = [name |-> a, number |-> b, query |-> c] /\ x = [name |-> a, number |-> b, query |-> <<>>]
      BY <1>2
  <2>2. c # <<>>
      OBVIOUS
  <2> HIDE DEF a, b, c
  <2>3. w.query = c /\ [w EXCEPT !.query = <<>>] = x
      BY <2>1
  <2> QED BY <2>2, <2>3 DEF c
<1>6. \A i \in 2..n : z[Len(r) + i].query = <<>> /\ z[Len(r) + i].name = query[i]
  <2> SUFFICES ASSUME NEW i \in 2..n
               PROVE  z[Len(r) + i].query = <<>> /\ z[Len(r) + i].name = query[i]
      OBVIOUS
  <2> DEFINE a == query[i]
             y == z[Len(r) + i]
  <2>1. y = Plain(a)
      BY <1>1
  <2> HIDE DEF a, y
  <2>2. y.query = <<>> /\ y.name = a
      BY <2>1 DEF Plain
  <2> QED BY <2>2 DEF a, y
<1>7. marks = {m}
  <2>1. ASSUME NEW i \in 1..Len(z) PROVE i \in marks <=> i = m
    <3>1. CASE i \in 1..Len(r)
      <4>1. z[i].query = <<>>
          BY <1>4, <3>1
      <4>2. i \notin marks
          BY <4>1
      <4> QED BY <1>1, <3>1, <4>2
    <3>2. CASE i = m
        BY <1>1, <1>5, <3>2
    <3>3. CASE i \notin 1..Len(r) /\ i # m
      <4>1. i - Len(r) \in 2..n /\ i = Len(r) + (i - Len(r)) /\ i # m
          BY <1>1, <3>3
      <4>2. z[i].query = <<>>
          BY <1>6, <4>1
      <4>3. i \notin marks
          BY <4>2
      <4> QED BY <4>1, <4>3
    <3> QED BY <3>1, <3>2, <3>3
  <2>2. m \in 1..Len(z)
      BY <1>1
  <2> HIDE DEF m
  <2> QED BY <2>1, <2>2
<1> DEFINE mark == CHOOSE i \in marks : \A j \in marks : i <= j
<1>8. mark = m
  <2>1. m <= m
      BY <1>1
  <2> HIDE DEF marks, m
  <2>2. \A i \in marks : i = m
      BY <1>7
  <2> QED BY <1>7, <2>1, <2>2
<1>9. ParsePieces(host, z) =
          Url(host, [i \in 1..mark |-> bare(i)], z[mark].query \o [i \in 1..Len(z) - mark |-> z[mark + i].name])
  <2>1. marks # {}
      BY <1>7
  <2> QED BY <2>1 DEF ParsePieces
<1> HIDE DEF mark, marks
<1>10. [i \in 1..m |-> bare(i)] = Append(r, x)
  <2> DEFINE b == [i \in 1..m |-> bare(i)]
  <2>1. b[m] = x /\ \A i \in 1..Len(r) : b[i] = r[i]
      BY <1>1, <1>4, <1>5
  <2>2. b = [i \in 1..m |-> b[i]]
      OBVIOUS
  <2> HIDE DEF b
  <2>3. Append(r, x) = [i \in 1..m |-> IF i = m THEN x ELSE r[i]]
    <3> DEFINE S == Range(r) \union {x}
    <3>1. r \in Seq(S) /\ x \in S
        BY DEF IsList
    <3> HIDE DEF S
    <3> DEFINE a == Append(r, x)
    <3>2. a \in Seq(S) /\ Len(a) = m /\ \A i \in 1..m : a[i] = IF i = m THEN x ELSE r[i]
        BY <3>1
    <3> HIDE DEF a
    <3>3. a = [i \in 1..Len(a) |-> a[i]]
        BY <3>2
    <3> QED BY <3>2, <3>3 DEF a
  <2>4. \A i \in 1..m : b[i] = IF i = m THEN x ELSE r[i]
      BY <1>1, <2>1
  <2> QED BY <2>2, <2>3, <2>4 DEF b
<1>11. z[m].query \o [i \in 1..Len(z) - m |-> z[m + i].name] = query
  <2> DEFINE rest == [i \in 1..n - 1 |-> query[i + 1]]
  <2>1. [i \in 1..Len(z) - m |-> z[m + i].name] = rest
    <3>1. Len(z) - m = n - 1
        BY <1>1
    <3>2. ASSUME NEW i \in 1..n - 1 PROVE z[m + i].name = query[i + 1]
      <4>1. i + 1 \in 2..n /\ m + i = Len(r) + (i + 1)
          BY <1>1
      <4> QED BY <1>6, <4>1
    <3> QED BY <3>1, <3>2
  <2>2. << query[1] >> \o rest = query
    <3>1. query \in Seq(Range(query)) /\ query # <<>>
        BY DEF IsList
    <3>2. ASSUME NEW S, NEW s \in Seq(S), s # <<>> PROVE << s[1] >> \o [i \in 1..Len(s) - 1 |-> s[i + 1]] = s
        BY <3>2
    <3> QED BY <3>1, <3>2
  <2> QED BY <1>1, <1>5, <2>1, <2>2
<1> QED BY <1>8, <1>9, <1>10, <1>11 DEF z

-----------------------------------------------------------------------------
(* Url::join *)

LEMMA RemainingBare ==
    ASSUME NEW S, NEW q \in Seq(S), AllBare(q)
    PROVE  AllBare(Remaining(q)) /\ IsList(Remaining(q))
<1> DEFINE r == Remaining(q)
<1>1. r = Chosen(q, Staying(q))
    BY DEF Remaining, Staying
<1>2. ASSUME NEW k \in 1..Len(r) PROVE IsBare(r[k])
  <2>1. PICK i \in 1..Len(q) : q[i] = r[k]
      BY <1>1, <1>2, ChosenFrom
  <2> QED BY <2>1 DEF AllBare
<1>3. IsList(r)
    BY RemainingType, SeqIsList, Zenon
<1> HIDE DEF r
<1>4. AllBare(r)
    BY <1>2 DEF AllBare
<1> QED BY <1>3, <1>4 DEF r

\* What is no relative path stays as it is.
LEMMA NamesStay ==
    ASSUME NEW path, IsList(path), \A i \in 1..Len(path) : path[i] \notin Dots
    PROVE  Remaining(path) = path
<1> DEFINE S == Range(path)
<1>1. path \in Seq(S) /\ <<>> \in Seq(S)
    BY DEF IsList
<1> HIDE DEF S
<1>2. Remaining(Joined(<<>>, path)) = Joined(Remaining(<<>>), path)
    BY <1>1, NamesRemain
<1>3. Remaining(<<>>) = <<>>
    BY ChosenOfEmpty DEF Remaining
<1>4. Joined(<<>>, path) = path
    BY <1>1, JoinedToEmpty
<1> QED BY <1>2, <1>3, <1>4

JoinItems(z, a, b) ==
    /\ Len(z) = Len(a) + Len(b) /\ Len(a) \in Nat /\ Len(b) \in Nat
    /\ \A i \in 1..Len(z) : z[i] = IF i <= Len(a) THEN a[i] ELSE b[i - Len(a)]

LEMMA JoinedItems ==
    ASSUME NEW S, NEW a \in Seq(S), NEW b \in Seq(S)
    PROVE  JoinItems(Joined(a, b), a, b)
BY DEF Joined, JoinItems

\* Of three lists in a row it does not matter which two are joined first.
LEMMA JoinsInRow ==
    ASSUME NEW S, NEW a \in Seq(S), NEW b \in Seq(S), NEW c \in Seq(S)
    PROVE  Joined(a, Joined(b, c)) = Joined(Joined(a, b), c)
<1> DEFINE l == Len(a)
           m == Len(b)
           n == Len(c)
           ab == Joined(a, b)
           bc == Joined(b, c)
           x == Joined(a, bc)
           y == Joined(ab, c)
<1>1. ab \in Seq(S) /\ bc \in Seq(S)
    BY JoinedType
<1> HIDE DEF ab, bc
<1>2. x \in Seq(S) /\ y \in Seq(S)
    BY <1>1, JoinedType
<1>3. JoinItems(ab, a, b) /\ JoinItems(bc, b, c)
    BY JoinedItems DEF ab, bc
<1>4. JoinItems(x, a, bc) /\ JoinItems(y, ab, c)
    BY <1>1, JoinedItems
<1> HIDE DEF x, y
<1>5. /\ l \in Nat /\ m \in Nat /\ n \in Nat
      /\ Len(ab) = l + m /\ Len(bc) = m + n /\ Len(x) = l + (m + n) /\ Len(y) = (l + m) + n
      /\ \A i \in 1..l + m : ab[i] = IF i <= l THEN a[i] ELSE b[i - l]
      /\ \A i \in 1..m + n : bc[i] = IF i <= m THEN b[i] ELSE c[i - m]
      /\ \A i \in 1..l + (m + n) : x[i] = IF i <= l THEN a[i] ELSE bc[i - l]
      /\ \A i \in 1..(l + m) + n : y[i] = IF i <= l + m THEN ab[i] ELSE c[i - (l + m)]
    BY <1>3, <1>4 DEF JoinItems
<1>6. Len(x) = Len(y)
    BY <1>5
<1> HIDE DEF l, m, n
<1>7. ASSUME NEW i \in 1..Len(x) PROVE x[i] = y[i]
  <2>0. i \in Nat /\ i \in 1..l + (m + n) /\ i \in 1..(l + m) + n
      BY <1>5
  <2>1. CASE i <= l
    <3>1. i \in 1..l + m /\ i <= l + m
        BY <1>5, <2>0, <2>1
    <3> QED BY <1>5, <2>0, <2>1, <3>1
  <2>2. CASE ~ (i <= l) /\ i <= l + m
    <3>1. i - l \in 1..m + n /\ i - l <= m /\ i \in 1..l + m
        BY <1>5, <2>0, <2>2
    <3> QED BY <1>5, <2>0, <2>2, <3>1
  <2>3. CASE ~ (i <= l + m)
    <3>1. i - l \in 1..m + n /\ ~ (i - l <= m) /\ ~ (i <= l) /\ (i - l) - m = i - (l + m)
        BY <1>5, <2>0, <2>3
    <3>2. x[i] = bc[i - l] /\ y[i] = c[i - (l + m)]
        BY <1>5, <2>0, <2>3, <3>1
    <3>3. bc[i - l] = c[(i - l) - m]
        BY <1>5, <3>1
    <3> QED BY <3>1, <3>2, <3>3
  <2> QED BY <2>1, <2>2, <2>3
<1>8. x = [i \in 1..Len(x) |-> x[i]] /\ y = [i \in 1..Len(y) |-> y[i]]
    BY <1>2
<1>9. x = y
    BY <1>6, <1>7, <1>8
<1> QED BY <1>9 DEF x, y, ab, bc

\* The pieces of a reference with a query.
LEMMA PiecesMarked ==
    ASSUME NEW reference, IsList(reference.path), reference.path # <<>>,
           IsList(reference.query), reference.query # <<>>
    PROVE  Pieces(reference) = Joined(Front(reference.path), Marked(Last(reference.path), reference.query))
<1> DEFINE f == Front(reference.path)
           x == Last(reference.path)
           query == reference.query
           w == [x EXCEPT !.query = << query[1] >>]
           more == [i \in 1..Len(query) - 1 |-> Plain(query[i + 1])]
           k == Marked(x, query)
           n == Len(query)
<1>1. Pieces(reference) = f \o <<w>> \o more
    BY DEF Pieces
<1>2. IsMarked(k, x, query)
    BY MarkedPieces
<1>3. /\ n \in Nat /\ n >= 1 /\ Len(k) = n /\ IsList(k) /\ k[1] = w
      /\ \A i \in 2..n : k[i] = Plain(query[i])
  <2> HIDE DEF k
  <2> QED BY <1>2 DEF IsMarked
<1> DEFINE S == Range(reference.path) \union Range(k)
<1>4. f \in Seq(S) /\ k \in Seq(S)
    BY <1>3 DEF IsList, Front
<1> HIDE DEF f, w, k, S, x, query
<1>5. more = [i \in 1..Len(k) - 1 |-> k[i + 1]]
  <2>1. ASSUME NEW i \in 1..n - 1 PROVE Plain(query[i + 1]) = k[i + 1]
      BY <1>3
  <2> QED BY <1>3, <2>1
<1> HIDE DEF more
<1>6. ASSUME NEW a \in Seq(S), NEW b \in Seq(S), Len(b) >= 1
      PROVE  a \o << b[1] >> \o [i \in 1..Len(b) - 1 |-> b[i + 1]] = a \o b
  <2> DEFINE c == [i \in 1..Len(b) - 1 |-> b[i + 1]]
             e == << b[1] >>
  <2>1. c \in Seq(S) /\ e \in Seq(S) /\ e \o c = b
      BY <1>6
  <2> HIDE DEF c, e
  <2>2. Joined(a, Joined(e, c)) = Joined(Joined(a, e), c)
      BY <2>1, JoinsInRow
  <2> QED BY <2>1, <2>2 DEF Joined, c, e
<1>7. f \o <<w>> \o more = f \o k
    BY <1>3, <1>4, <1>5, <1>6
<1> QED BY <1>1, <1>7 DEF Joined, f, k, x, query

LEMMA PlainDiffers ==
    ASSUME NEW a PROVE /\ Plain(a) = Plain(".") => a = "."
                       /\ Plain(a) = Plain("..") => a = ".."
                       /\ Plain(a) = Marker => a = "empty"
                       /\ Plain(a).query = <<>>
BY DEF Plain, Marker

\* They are no dots.
LEMMA MarkedNames ==
    ASSUME NEW x, IsBare(x), NEW query, IsList(query), query # <<>>,
           \A i \in 2..Len(query) : query[i] \notin {"empty", ".", ".."}
    PROVE  \A i \in 1..Len(query) : Marked(x, query)[i] \notin Dots /\ Marked(x, query)[i] # Marker
<1> DEFINE k == Marked(x, query)
<1>1. IsMarked(k, x, query)
    BY MarkedPieces
<1> HIDE DEF k
<1> SUFFICES ASSUME NEW i \in 1..Len(query) PROVE k[i] \notin Dots /\ k[i] # Marker
    BY DEF k
<1>2. CASE i = 1
  <2> DEFINE a == x.name
             b == x.number
             c == << query[1] >>
  <2>1. x = [name |-> a, number |-> b, query |-> <<>>]
      BY DEF IsBare
  <2>2. k[i] = [x EXCEPT !.query = c] /\ c # <<>>
      BY <1>1, <1>2 DEF IsMarked
  <2> HIDE DEF a, b, c
  <2>3. k[i].query = c
      BY <2>1, <2>2
  <2>4. \A y : Plain(y).query = <<>>
      BY DEF Plain
  <2> QED BY <2>2, <2>3, <2>4 DEF Dots, Marker
<1>3. CASE i # 1
  <2> DEFINE a == query[i]
  <2>1. i \in 2..Len(query) /\ k[i] = Plain(a)
      BY <1>1, <1>3 DEF IsMarked
  <2>2. a # "empty" /\ a # "." /\ a # ".."
      BY <2>1
  <2> HIDE DEF a
  <2> QED BY <2>1, <2>2, PlainDiffers DEF Dots
<1> QED BY <1>2, <1>3

\* What a relative reference is resolved to.
LEMMA RelativeResolves ==
    ASSUME NEW base, NEW reference, reference.kind = "path", IsPlain(base, reference)
    PROVE  ParsePieces(base.host, NormalizePath(DirectoryOf(base) \o Pieces(reference))) = Rfc(base, reference)
<1> DEFINE d == DirectoryOf(base)
           rp == reference.path
           query == reference.query
           f == Front(rp)
           x == rp[Len(rp)]
           path == Joined(d, rp)
           q == Joined(d, f)
<1>1. /\ IsList(rp) /\ IsList(query) /\ rp # <<>> /\ IsList(base.path)
      /\ \A i \in 1..Len(path) : IsBare(path[i]) /\ path[i] # Marker
      /\ path[Len(path)] \notin Dots
      /\ \A i \in 2..Len(path) : path[i] = Plain(".") => path[i - 1] # Plain("..")
      /\ \A i \in 2..Len(query) : query[i] \notin {"empty", ".", ".."}
    BY DEF IsPlain, Joined, Marker
<1>2. Rfc(base, reference) = Url(base.host, Remaining(path), query)
    BY DEF Rfc, Joined
<1>3. IsList(d)
  <2>1. \A s \in Seq(Range(base.path)) : s # <<>> => Front(s) \in Seq(Range(base.path))
      BY FrontType
  <2>2. d \in Seq(Range(base.path))
      BY <1>1, <2>1 DEF DirectoryOf, IsList
  <2> QED BY <2>2, SeqIsList, Zenon
<1> DEFINE k == Marked(x, query)
           S == Range(d) \union Range(rp) \union Range(k)
<1>4. d \in Seq(S) /\ rp \in Seq(S) /\ (IsList(k) => k \in Seq(S))
    BY <1>1, <1>3 DEF IsList
<1> HIDE DEF d, S
<1>5. f \in Seq(S) /\ x \in S /\ rp = Append(f, x)
    BY <1>1, <1>4, FrontType
<1>6. q \in Seq(S) /\ path \in Seq(S)
    BY <1>4, <1>5, JoinedType
<1>7. IsList(k) => Joined(d, Joined(f, k)) = Joined(q, k)
    BY <1>4, <1>5, JoinsInRow
<1>8. Last(rp) = x
    BY DEF Last
<1> HIDE DEF f, x, path, q, k, rp, query
<1>9. path = Append(q, x)
    BY <1>4, <1>5, AppendToConcat DEF AppendsToSecond, Joined, path, q
<1>10. /\ Len(path) = Len(q) + 1 /\ Len(q) \in Nat /\ path[Len(q) + 1] = x
       /\ \A i \in 1..Len(q) : path[i] = q[i]
    BY <1>5, <1>6, <1>9
<1>11. AllBare(q) /\ IsBare(x) /\ AllBare(path) /\ x \notin Dots /\ path # <<>>
  <2>1. \A i \in 1..Len(q) : i \in 1..Len(path)
      BY <1>10
  <2>2. Len(q) + 1 \in 1..Len(path)
      BY <1>10
  <2>3. path # <<>>
      BY <1>6, <1>10
  <2> QED BY <1>1, <1>10, <2>1, <2>2, <2>3 DEF AllBare
<1>12. IsRelative(path)
    BY <1>1 DEF IsRelative
<1>13. CASE query = <<>>
  <2>1. d \o Pieces(reference) = path
      BY <1>13 DEF Pieces, Joined, path, rp, query
  <2>2. NormalizePath(path) = Remaining(path)
      BY <1>1, <1>6, <1>11, <1>12, Normalizes
  <2>3. AllBare(Remaining(path))
      BY <1>6, <1>11, RemainingBare
  <2> QED BY <1>2, <1>13, <2>1, <2>2, <2>3, BareParsed DEF d
<1>14. CASE query # <<>>
  <2>1. IsMarked(k, x, query)
      BY <1>1, <1>14, MarkedPieces DEF k
  <2>2. IsList(k) /\ Len(k) = Len(query) /\ k # <<>>
      BY <2>1 DEF IsMarked
  <2>3. k \in Seq(S)
      BY <1>4, <2>2
  <2>4. d \o Pieces(reference) = Joined(q, k)
    <3>1. Pieces(reference) = Joined(f, k)
        BY <1>1, <1>8, <1>14, PiecesMarked DEF rp, query, f, k
    <3> QED BY <1>7, <2>2, <3>1 DEF Joined
  <2>5. \A i \in 1..Len(k) : k[i] \notin Dots /\ k[i] # Marker
      BY <1>1, <1>11, <1>14, <2>2, MarkedNames DEF k
  <2> DEFINE p == Joined(q, k)
  <2>6. /\ Len(p) = Len(q) + Len(k) /\ Len(k) \in Nat
        /\ \A i \in 1..Len(q) : p[i] = q[i]
        /\ \A i \in 1..Len(k) : p[Len(q) + i] = k[i]
      BY <1>6, <2>3 DEF Joined
  <2> HIDE DEF p
  <2>7. IsRelative(p)
    <3>1. ASSUME NEW i \in 1..Len(p), i \notin 1..Len(q) PROVE p[i] \notin Dots /\ p[i] # Marker
      <4>1. i - Len(q) \in 1..Len(k) /\ i = Len(q) + (i - Len(q))
          BY <1>10, <2>6, <3>1
      <4> QED BY <2>5, <2>6, <4>1
    <3>2. ASSUME NEW i \in 1..Len(q) PROVE p[i] = path[i] /\ i \in 1..Len(path) /\ p[i] # Marker
        BY <1>1, <1>10, <2>6
    <3>3. ASSUME NEW i \in 2..Len(p), p[i] = Plain(".") PROVE p[i - 1] # Plain("..")
      <4>1. i \in 1..Len(p) /\ Plain(".") \in Dots
          BY <1>10, <2>6 DEF Dots
      <4>2. i \in 1..Len(q)
          BY <3>1, <3>3, <4>1
      <4>3. i - 1 \in 1..Len(q) /\ i \in 2..Len(path)
          BY <1>10, <4>2
      <4> QED BY <1>1, <3>2, <3>3, <4>2, <4>3
    <3> QED BY <3>1, <3>2, <3>3 DEF IsRelative
  <2>8. NormalizePath(p) = Joined(Remaining(q), k)
      BY <1>6, <2>2, <2>3, <2>5, <2>7, NormalizesNames DEF p
  <2>9. AllBare(Remaining(q)) /\ IsList(Remaining(q))
      BY <1>6, <1>11, RemainingBare
  <2>10. ParsePieces(base.host, Joined(Remaining(q), k)) = Url(base.host, Append(Remaining(q), x), query)
      BY <1>1, <1>11, <1>14, <2>9, MarkParsed DEF k
  <2>11. Remaining(path) = Append(Remaining(q), x)
      BY <1>5, <1>6, <1>9, <1>11, RemainingNext DEF RemainsNow
  <2> QED BY <1>2, <2>4, <2>8, <2>10, <2>11 DEF d, p
<1> QED BY <1>13, <1>14

\* References that are plain resolve as RFC 3986 has it.
LEMMA PlainResolves ==
    ASSUME NEW base, NEW reference, IsPlain(base, reference)
    PROVE  Join(base, reference) = Resolved(Rfc(base, reference))
<1>1. CASE reference.kind # "path"
  <2>1. Remaining(reference.path) = reference.path
      BY <1>1, NamesStay DEF IsPlain
  <2>2. Rfc(base, reference) =
            Url(IF reference.kind \in {"absolute", "protocol"} THEN reference.host ELSE base.host,
                reference.path, reference.query)
      BY <1>1, <2>1 DEF Rfc
  <2>3. reference.kind \in {"absolute", "protocol", "root"} /\ (reference.kind = "absolute" \/ ~ HoldsUrl(reference))
      BY <1>1 DEF IsPlain, CanResolve
  <2>4. CASE reference.kind = "absolute"
      BY <2>2, <2>4 DEF Join
  <2>5. CASE reference.kind = "protocol"
      BY <2>2, <2>3, <2>5 DEF Join
  <2>6. CASE reference.kind = "root"
      BY <2>2, <2>3, <2>6 DEF Join
  <2> QED BY <2>3, <2>4, <2>5, <2>6
<1>2. CASE reference.kind = "path"
  <2>1. ~ HoldsUrl(reference)
      BY <1>2 DEF IsPlain, CanResolve
  <2>2. Join(base, reference) =
            Resolved(ParsePieces(base.host, NormalizePath(DirectoryOf(base) \o Pieces(reference))))
      BY <1>2, <2>1 DEF Join
  <2> QED BY <1>2, <2>2, RelativeResolves
<1> QED BY <1>1, <1>2

-----------------------------------------------------------------------------
(* A playlist of another origin *)

\* What a line needs to be read, and what a playlist's segments are.
CanRead(base, lines, i) ==
    /\ lines[i].tag = "MAP" => CanResolve(lines[i].uri)
    /\ lines[i].tag = "KEY" /\ lines[i].method = "AES-128" /\ lines[i].uri.present =>
          CanResolve(lines[i].uri.url)
    /\ lines[i].tag = "URI" /\ IsTimed(lines, i) => IsPlain(base, lines[i].uri)
CanReadAll(base, lines) == \A i \in 1..Len(lines) : CanRead(base, lines, i)
IsMedia(lines, i) == lines[i].tag = "MAP" \/ (lines[i].tag = "URI" /\ IsTimed(lines, i) /\ lines[i].ts)
HasMedia(lines) == \E i \in 1..Len(lines) : IsMedia(lines, i)
IsOpen(lines) == IsTimed(lines, Len(lines) + 1)
ResolvedUris(base, uris) == [i \in 1..Len(uris) |-> Rfc(base, uris[i].uri)]

\* The state after some lines of it.
SegmentsSoFar(base, lines, p) ==
    /\ IsHls(p) /\ p.failed = FALSE
    /\ p.pending.present <=> IsOpen(lines)
    /\ p.urls = ResolvedUris(base, SegmentUris(lines))
    /\ HasMedia(lines) => p.init.present \/ p.ts

\* A line that is no EXTINF and no URI leaves the segments alone.
HlsQuiet(p, q) ==
    /\ IsHls(q) /\ q.failed = FALSE /\ q.pending = p.pending /\ q.urls = p.urls /\ q.ts = p.ts
    /\ p.init.present => q.init.present

\* What one more line is to a playlist.
TimedAlike(r, lines) == \A i \in 1..Len(lines) + 1 : IsTimed(r, i) <=> IsTimed(lines, i)

LEMMA TimedKept ==
    ASSUME NEW lines, NEW r, NEW x, Extends(r, lines, x)
    PROVE  TimedAlike(r, lines)
<1> SUFFICES ASSUME NEW i \in 1..Len(lines) + 1 PROVE IsTimed(r, i) <=> IsTimed(lines, i)
    BY DEF TimedAlike
<1>1. \A j \in 1..i - 1 : r[j] = lines[j]
    BY DEF Extends
<1>2. \A e \in 1..i - 1 : \A k \in e + 1..i - 1 : k \in 1..i - 1
    BY DEF Extends
<1> QED BY <1>1, <1>2 DEF IsTimed

OpensNow(r, lines, x) ==
    /\ x.tag \notin {"EXTINF", "URI"} => (IsOpen(r) <=> IsOpen(lines))
    /\ x.tag = "EXTINF" => (IsOpen(r) <=> x.valid)
    /\ x.tag = "URI" => ~ IsOpen(r)

LEMMA OpenNext ==
    ASSUME NEW lines, NEW r, NEW x, Extends(r, lines, x)
    PROVE  OpensNow(r, lines, x)
<1> DEFINE n == Len(lines)
           Ends(s, e, m) == /\ s[e].tag = "EXTINF" /\ s[e].valid
                            /\ \A k \in e + 1..m : s[k].tag \notin {"EXTINF", "URI"}
<1>1. n \in Nat /\ Len(r) = n + 1 /\ r[n + 1] = x /\ \A j \in 1..n : r[j] = lines[j]
    BY DEF Extends
<1>2. IsOpen(lines) <=> \E e \in 1..n : Ends(lines, e, n)
  <2>1. (n + 1) - 1 = n
      BY <1>1
  <2> QED BY <2>1 DEF IsOpen, IsTimed
<1>3. IsOpen(r) <=> \E e \in 1..n + 1 : Ends(r, e, n + 1)
  <2>1. (Len(r) + 1) - 1 = n + 1
      BY <1>1
  <2> QED BY <2>1 DEF IsOpen, IsTimed
<1>4. Ends(r, n + 1, n + 1) <=> x.tag = "EXTINF" /\ x.valid
  <2>1. (n + 1) + 1..n + 1 = {}
      BY <1>1
  <2> QED BY <1>1, <2>1
<1>5. ASSUME NEW e \in 1..n
      PROVE  Ends(r, e, n + 1) <=> Ends(lines, e, n) /\ x.tag \notin {"EXTINF", "URI"}
  <2>1. e + 1..n + 1 = (e + 1..n) \union {n + 1} /\ \A k \in e + 1..n : r[k] = lines[k]
      BY <1>1
  <2>2. r[e] = lines[e]
      BY <1>1
  <2> HIDE DEF n
  <2> QED BY <1>1, <2>1, <2>2
<1>6. 1..n + 1 = (1..n) \union {n + 1}
    BY <1>1
<1> HIDE DEF n, Ends
<1>7. IsOpen(r) <=> (x.tag = "EXTINF" /\ x.valid) \/ (IsOpen(lines) /\ x.tag \notin {"EXTINF", "URI"})
    BY <1>2, <1>3, <1>4, <1>5, <1>6
<1> QED BY <1>7 DEF OpensNow

UrisNow(r, lines, x) ==
    /\ SegmentUris(lines) \in Seq(Range(lines))
    /\ SegmentUris(r) = IF x.tag = "URI" /\ IsOpen(lines) THEN Append(SegmentUris(lines), x) ELSE SegmentUris(lines)

LEMMA UrisNext ==
    ASSUME NEW S, NEW lines \in Seq(S), NEW x \in S
    PROVE  UrisNow(Append(lines, x), lines, x)
<1> DEFINE r == Append(lines, x)
           I == {i \in 1..Len(lines) : lines[i].tag = "URI" /\ IsTimed(lines, i)}
           J == {i \in 1..Len(r) : r[i].tag = "URI" /\ IsTimed(r, i)}
<1>1. Extends(r, lines, x)
    BY AppendExtends
<1>2. /\ Len(lines) \in Nat /\ Len(r) = Len(lines) + 1 /\ r[Len(lines) + 1] = x
      /\ \A i \in 1..Len(lines) : r[i] = lines[i]
    BY <1>1 DEF Extends
<1>3. TimedAlike(r, lines)
    BY <1>1, TimedKept
<1>4. SegmentUris(lines) = Chosen(lines, I) /\ SegmentUris(r) = Chosen(r, J)
    BY DEF SegmentUris
<1>5. Chosen(r, J) = IF Len(lines) + 1 \in J THEN Append(Chosen(lines, J), x) ELSE Chosen(lines, J)
  <2> HIDE DEF J
  <2> QED BY ChosenOfAppend
<1>6. Len(lines) + 1 \in J <=> x.tag = "URI" /\ IsOpen(lines)
    BY <1>2, <1>3 DEF TimedAlike, IsOpen
<1>7. \A i \in 1..Len(lines) : i \in J <=> i \in I
    BY <1>2, <1>3 DEF TimedAlike
<1>8. Chosen(lines, J) = Chosen(lines, I)
  <2> HIDE DEF I, J
  <2> QED BY <1>7, ChosenAgree
<1>9. SegmentUris(lines) \in Seq(Range(lines))
  <2>1. lines \in Seq(Range(lines))
      BY SeqIsList, Zenon DEF IsList
  <2> HIDE DEF I
  <2> QED BY <1>4, <2>1, ChosenType
<1> HIDE DEF I, J, r
<1>10. SegmentUris(r) = IF x.tag = "URI" /\ IsOpen(lines) THEN Append(SegmentUris(lines), x) ELSE SegmentUris(lines)
    BY <1>4, <1>5, <1>6, <1>8
<1> QED BY <1>9, <1>10 DEF UrisNow, r

LEMMA ResolvedNext ==
    ASSUME NEW S, NEW base, NEW uris \in Seq(S), NEW x
    PROVE  /\ ResolvedUris(base, Append(uris, x)) = Append(ResolvedUris(base, uris), Rfc(base, x.uri))
<1> DEFINE a == Append(uris, x)
           u == ResolvedUris(base, uris)
           y == Rfc(base, x.uri)
           n == Len(uris)
           v == ResolvedUris(base, a)
<1>1. IsList(uris)
    BY SeqIsList, Zenon
<1>2. n \in Nat /\ Len(a) = n + 1 /\ a[n + 1] = x /\ \A i \in 1..n : a[i] = uris[i]
    BY <1>1, AppendIsList
<1> HIDE DEF a
<1>3. /\ u = [i \in 1..n |-> u[i]] /\ \A i \in 1..n : u[i] = Rfc(base, uris[i].uri)
    BY DEF ResolvedUris
<1>4. v = [i \in 1..n + 1 |-> v[i]] /\ \A i \in 1..n + 1 : v[i] = Rfc(base, a[i].uri)
    BY <1>2 DEF ResolvedUris
<1> HIDE DEF u, v, n, y
<1>5. IsList(u) /\ Len(u) = n
    BY <1>2, <1>3, FunctionIsList
<1> DEFINE w == Append(u, y)
<1>6. IsList(w) /\ Len(w) = n + 1 /\ w[n + 1] = y /\ \A i \in 1..n : w[i] = u[i]
    BY <1>5, AppendIsList
<1> HIDE DEF w
<1>7. w = [i \in 1..n + 1 |-> w[i]]
    BY <1>2, <1>6 DEF IsList
<1>8. ASSUME NEW i \in 1..n + 1 PROVE v[i] = w[i]
  <2>1. CASE i \in 1..n
    <3>1. v[i] = Rfc(base, uris[i].uri)
        BY <1>2, <1>4, <2>1
    <3> QED BY <1>3, <1>6, <2>1, <3>1
  <2>2. CASE i = n + 1
      BY <1>2, <1>4, <1>6, <2>2 DEF y
  <2> QED BY <1>2, <2>1, <2>2
<1>9. v = w
    BY <1>4, <1>7, <1>8
<1> QED BY <1>9 DEF v, w, u, y, a

\* A line can be read if its URLs resolve.
LineResolves(x) ==
    /\ x.tag = "MAP" => CanResolve(x.uri)
    /\ x.tag = "KEY" /\ x.method = "AES-128" /\ x.uri.present => CanResolve(x.uri.url)

LEMMA QuietLine ==
    ASSUME NEW base, NEW p, IsHls(p), p.failed = FALSE, NEW x, LineResolves(x), x.tag \notin {"EXTINF", "URI"},
           NEW q, q = ReadLine(p, base, x)
    PROVE  HlsQuiet(p, q) /\ (x.tag = "MAP" => q.init.present)
<1>1. CASE x.tag = "MAP"
  <2>1. Join(base, x.uri).ok = TRUE
      BY <1>1, NameResolves DEF LineResolves
  <2>2. q = [p EXCEPT !.init = SomeUrl(Join(base, x.uri).url)]
      BY <1>1, <2>1 DEF ReadLine, WithUrl
  <2> DEFINE u == Join(base, x.uri).url
  <2> HIDE DEF u
  <2>3. SomeUrl(u).present
      BY DEF SomeUrl
  <2> QED BY <2>2, <2>3 DEF HlsQuiet, IsHls, u
<1>2. CASE x.tag = "KEY"
  <2>1. q = ReadKey(p, base, x)
      BY <1>2 DEF ReadLine
  <2>2. \/ q = p \/ \E s : q = [p EXCEPT !.scheme = s] \/ \E k : q = [p EXCEPT !.aesKey = k]
    <3>1. CASE x.method = "SAMPLE-AES-CTR"
        BY <2>1, <3>1 DEF ReadKey
    <3>2. CASE x.method = "SAMPLE-AES"
        BY <2>1, <3>2 DEF ReadKey
    <3>3. CASE x.method = "AES-128" /\ x.uri.present
      <4>1. Join(base, x.uri.url).ok = TRUE
          BY <1>2, <3>3, NameResolves DEF LineResolves
      <4>2. q = [p EXCEPT !.aesKey = SomeUrl(Join(base, x.uri.url).url)]
          BY <2>1, <3>3, <4>1 DEF ReadKey, WithUrl
      <4> QED BY <4>2
    <3>4. CASE x.method \notin {"SAMPLE-AES-CTR", "SAMPLE-AES"} /\ ~ (x.method = "AES-128" /\ x.uri.present)
        BY <2>1, <3>4 DEF ReadKey
    <3> QED BY <3>1, <3>2, <3>3, <3>4
  <2> QED BY <1>2, <2>2 DEF HlsQuiet, IsHls
<1>3. CASE x.tag = "DATERANGE"
  <2>1. q = ReadDaterange(p, x)
      BY <1>3 DEF ReadLine
  <2>2. q = p \/ \E b : q = [p EXCEPT !.adBreaks = b]
      BY <2>1 DEF ReadDaterange
  <2> QED BY <1>3, <2>2 DEF HlsQuiet, IsHls
<1>4. CASE x.tag = "PART"
  <2>1. q = ReadPart(p, base, x)
      BY <1>4 DEF ReadLine
  <2> DEFINE a == Append(p.parts, [segment |-> p.number, index |-> p.partIndex, url |-> Join(base, x.uri).url])
             b == p.partIndex + 1
  <2>2. q = p \/ q = [p EXCEPT !.parts = a, !.partIndex = b]
      BY <2>1 DEF ReadPart
  <2> HIDE DEF a, b
  <2> QED BY <1>4, <2>2 DEF HlsQuiet, IsHls
<1>5. CASE x.tag = "ENDLIST"
  <2>1. q = [p EXCEPT !.live = FALSE]
      BY <1>5 DEF ReadLine
  <2> QED BY <1>5, <2>1 DEF HlsQuiet, IsHls
<1>6. CASE x.tag \notin {"MAP", "KEY", "DATERANGE", "PART", "EXTINF", "ENDLIST", "URI"}
  <2>1. q = p
      BY <1>6 DEF ReadLine
  <2> QED BY <1>6, <2>1 DEF HlsQuiet
<1> QED BY <1>1, <1>2, <1>3, <1>4, <1>5, <1>6

\* Each line keeps the state in step with the playlist.
LEMMA LineRead ==
    ASSUME NEW S, NEW base, NEW lines \in Seq(S), NEW x \in S, NEW r, r = Append(lines, x), CanReadAll(base, r),
           NEW p, SegmentsSoFar(base, lines, p), NEW q, q = ReadLine(p, base, x)
    PROVE  SegmentsSoFar(base, r, q)
<1> DEFINE n == Len(lines)
           uris == SegmentUris(lines)
           more == SegmentUris(r)
<1>1. Extends(r, lines, x)
    BY AppendExtends
<1>2. n \in Nat /\ Len(r) = n + 1 /\ r[n + 1] = x /\ \A i \in 1..n : r[i] = lines[i]
    BY <1>1 DEF Extends
<1>3. OpensNow(r, lines, x) /\ TimedAlike(r, lines)
    BY <1>1, OpenNext, TimedKept
<1>4. /\ uris \in Seq(Range(lines))
      /\ more = IF x.tag = "URI" /\ IsOpen(lines) THEN Append(uris, x) ELSE uris
    BY UrisNext DEF UrisNow
<1>5. IsTimed(r, n + 1) <=> IsOpen(lines)
    BY <1>2, <1>3 DEF TimedAlike, IsOpen
<1>6. LineResolves(x) /\ (x.tag = "URI" /\ IsOpen(lines) => IsPlain(base, x.uri))
  <2>1. CanRead(base, r, n + 1)
      BY <1>2 DEF CanReadAll
  <2> QED BY <1>2, <1>5, <2>1 DEF CanRead, LineResolves
<1>7. HasMedia(r) => HasMedia(lines) \/ x.tag = "MAP" \/ (x.tag = "URI" /\ IsOpen(lines) /\ x.ts)
  <2> SUFFICES ASSUME NEW i \in 1..Len(r), IsMedia(r, i)
               PROVE  HasMedia(lines) \/ x.tag = "MAP" \/ (x.tag = "URI" /\ IsOpen(lines) /\ x.ts)
      BY DEF HasMedia
  <2>1. CASE i \in 1..n
    <3>1. IsMedia(lines, i)
        BY <1>2, <1>3, <2>1 DEF IsMedia, TimedAlike
    <3> QED BY <2>1, <3>1 DEF HasMedia
  <2>2. CASE i = n + 1
      BY <1>2, <1>5, <2>2 DEF IsMedia
  <2> QED BY <1>2, <2>1, <2>2
<1>8. /\ IsHls(p) /\ p.failed = FALSE /\ p.urls = ResolvedUris(base, uris)
      /\ p.pending.present <=> IsOpen(lines)
      /\ HasMedia(lines) => p.init.present \/ p.ts
    BY DEF SegmentsSoFar
<1> HIDE DEF uris, more, n
<1>9. CASE x.tag \notin {"EXTINF", "URI"}
  <2>1. HlsQuiet(p, q) /\ (x.tag = "MAP" => q.init.present)
      BY <1>6, <1>8, <1>9, QuietLine
  <2> QED BY <1>3, <1>4, <1>7, <1>8, <1>9, <2>1 DEF SegmentsSoFar, HlsQuiet, OpensNow, uris, more
<1>10. CASE x.tag = "EXTINF"
  <2> DEFINE opened == IF x.valid THEN [present |-> TRUE, duration |-> x.duration] ELSE Missing
  <2>1. q = [p EXCEPT !.pending = opened]
      BY <1>8, <1>10 DEF ReadLine
  <2>2. opened.present <=> x.valid
      BY DEF Missing
  <2> HIDE DEF opened
  <2>3. /\ IsHls(q) /\ q.failed = FALSE /\ q.pending = opened /\ q.urls = p.urls /\ q.init = p.init /\ q.ts = p.ts
      BY <1>8, <2>1 DEF IsHls
  <2> QED BY <1>3, <1>4, <1>7, <1>8, <1>10, <2>2, <2>3 DEF SegmentsSoFar, OpensNow, uris, more
<1>11. CASE x.tag = "URI" /\ ~ IsOpen(lines)
  <2>1. q = p
      BY <1>8, <1>11 DEF ReadLine, ReadUri
  <2> QED BY <1>3, <1>4, <1>7, <1>8, <1>11, <2>1 DEF SegmentsSoFar, OpensNow, uris, more
<1>12. CASE x.tag = "URI" /\ IsOpen(lines)
  <2> DEFINE u == Rfc(base, x.uri)
  <2>1. Join(base, x.uri) = Resolved(u)
      BY <1>6, <1>12, PlainResolves
  <2>2. Join(base, x.uri).ok = TRUE /\ Join(base, x.uri).url = u
      BY <2>1 DEF Resolved
  <2>3. p.pending.present
      BY <1>8, <1>12
  <2>4. q = ReadUri(p, base, x)
      BY <1>8, <1>12 DEF ReadLine
  <2>5. q = [p EXCEPT !.urls = Append(@, u), !.durations = Append(@, p.pending.duration),
                      !.elapsed = @ + p.pending.duration, !.number = @ + 1, !.partIndex = 0,
                      !.pending = Missing, !.ts = @ \/ x.ts]
      BY <2>2, <2>3, <2>4 DEF ReadUri, WithUrl
  <2> HIDE DEF u
  <2>6. /\ IsHls(q) /\ q.failed = FALSE /\ q.pending = Missing /\ q.urls = Append(p.urls, u)
        /\ q.init = p.init
      BY <1>8, <2>5 DEF IsHls
  <2>7. q.ts = (p.ts \/ x.ts)
      BY <1>8, <2>5 DEF IsHls
  <2>8. ~ q.pending.present
      BY <2>6 DEF Missing
  <2>9. q.urls = ResolvedUris(base, more)
      BY <1>4, <1>8, <1>12, <2>6, ResolvedNext DEF u
  <2> QED BY <1>3, <1>7, <1>8, <1>12, <2>6, <2>7, <2>8, <2>9 DEF SegmentsSoFar, OpensNow, more
<1> QED BY <1>9, <1>10, <1>11, <1>12

LEMMA PlaylistSoFar ==
    ASSUME NEW S, NEW base
    PROVE  \A lines \in Seq(S) : CanReadAll(base, lines) =>
               SegmentsSoFar(base, lines, Run("hls", base, HlsStart, lines))
<1> DEFINE run(lines) == Run("hls", base, HlsStart, lines)
           T == {lines \in Seq(S) : CanReadAll(base, lines) => SegmentsSoFar(base, lines, run(lines))}
<1>1. <<>> \in T
  <2>1. run(<<>>) = HlsStart
      BY RunOfEmpty
  <2>2. IsHls(HlsStart) /\ HlsStart.failed = FALSE /\ ~ HlsStart.pending.present /\ HlsStart.urls = <<>>
      BY DEF HlsStart, IsHls, Missing
  <2>3. ~ IsOpen(<<>>) /\ ~ HasMedia(<<>>)
      BY DEF IsOpen, IsTimed, HasMedia
  <2>4. SegmentUris(<<>>) = <<>>
      BY ChosenOfEmpty DEF SegmentUris
  <2>5. ResolvedUris(base, <<>>) = <<>>
      BY DEF ResolvedUris
  <2>6. SegmentsSoFar(base, <<>>, HlsStart)
      BY <2>2, <2>3, <2>4, <2>5 DEF SegmentsSoFar
  <2> QED BY <2>1, <2>6
<1>2. ASSUME NEW lines \in Seq(S), NEW x \in S, lines \in T PROVE Append(lines, x) \in T
  <2> DEFINE r == Append(lines, x)
  <2>1. r \in Seq(S) /\ Extends(r, lines, x)
      BY AppendExtends
  <2> HIDE DEF r
  <2> SUFFICES ASSUME CanReadAll(base, r) PROVE SegmentsSoFar(base, r, run(r))
      BY <2>1 DEF r
  <2>2. CanReadAll(base, lines)
    <3> SUFFICES ASSUME NEW i \in 1..Len(lines) PROVE CanRead(base, lines, i)
        BY DEF CanReadAll
    <3>1. i \in 1..Len(r) /\ r[i] = lines[i] /\ i \in 1..Len(lines) + 1
        BY <2>1 DEF Extends
    <3>2. IsTimed(r, i) <=> IsTimed(lines, i)
        BY <2>1, <3>1, TimedKept DEF TimedAlike
    <3>3. CanRead(base, r, i)
        BY <3>1 DEF CanReadAll
    <3> QED BY <3>1, <3>2, <3>3 DEF CanRead
  <2>3. SegmentsSoFar(base, lines, run(lines))
      BY <1>2, <2>2
  <2>4. IsList(lines)
      BY SeqIsList, Zenon
  <2>5. run(r) = ReadLine(run(lines), base, x)
      BY <2>4, RunOfAppend DEF ReadItem, r
  <2> HIDE DEF run
  <2> QED BY <2>3, <2>5, LineRead DEF r
<1> HIDE DEF T
<1>3. \A lines \in Seq(S) : lines \in T
    BY <1>1, <1>2, ListInduction
<1> QED BY <1>3 DEF T

\* parse_hls_manifest on a playlist that can be read.
UrisResolve(playlist, source) ==
    source.ok /\ source.urls = ResolvedUris(playlist.url, SegmentUris(playlist.lines))

LEMMA PlaylistParsed ==
    ASSUME NEW playlist, IsPlayable(playlist),
           NEW source, source = ParseHlsManifest(playlist.lines, playlist.url, playlist.per)
    PROVE  UrisResolve(playlist, source)
<1> DEFINE lines == playlist.lines
           base == playlist.url
           p == HlsEnd(base, HlsStart, lines)
<1>1. /\ IsList(lines) /\ CanReadAll(base, lines) /\ HasMedia(lines) /\ ~ IsMaster(lines)
    BY DEF IsPlayable, CanReadAll, CanRead, HasMedia, IsMedia, IsMaster
<1>2. SegmentsSoFar(base, lines, p)
  <2>1. lines \in Seq(Range(lines)) /\ Len(lines) \in Nat
      BY <1>1 DEF IsList
  <2>2. p = Run("hls", base, HlsStart, lines)
      BY <2>1, HlsReading
  <2> QED BY <1>1, <2>1, <2>2, PlaylistSoFar
<1>3. source = HlsResult(lines, p, playlist.per)
    BY HlsParsing
<1> HIDE DEF p
<1>4. p.failed = FALSE /\ (p.ts \/ p.init.present) /\ p.urls = ResolvedUris(base, SegmentUris(lines))
    BY <1>1, <1>2 DEF SegmentsSoFar
<1>5. source.ok /\ source.urls = p.urls
    BY <1>1, <1>3, <1>4 DEF HlsResult
<1> QED BY <1>4, <1>5 DEF UrisResolve

\* The source is what was read of one of the playlists.
PlaylistInv ==
    read.origin = "playlist" =>
        /\ read.document \in Playlists
        /\ read.source = ParseHlsManifest(read.document.lines, read.document.url, read.document.per)

LEMMA PlaylistTurn == ASSUME PlaylistInv, [ReaderNext]_readerVars PROVE PlaylistInv'
<1>1. CASE OutputStep \/ DoneReading
    BY <1>1 DEF OutputStep, DoneReading, Unread, PlaylistInv
<1>2. CASE FetchOutput
  <2>1. read'.origin \in {"hls", "dash"}
      BY <1>2 DEF FetchOutput
  <2> QED BY <2>1 DEF PlaylistInv
<1>3. CASE FetchOther
  <2>1. \/ \E p \in Playlists : read' = [origin |-> "playlist", document |-> p,
                                         source |-> ParseHlsManifest(p.lines, p.url, p.per)]
        \/ \E d \in Mpds : read' = [origin |-> "mpd", document |-> d, source |-> ReadMpd(d)]
      BY <1>3 DEF FetchOther
  <2> QED BY <2>1 DEF PlaylistInv
<1>4. CASE ResolveTracks
  <2>1. read'.origin \in {"tracks", "master"}
    <3>1. \/ \E d \in Mpds : read' = [origin |-> "tracks", document |-> d,
                                      tracks |-> ResolveDashTracks(MpdEvents(d), d.url)]
          \/ \E p \in Masters : read' = [origin |-> "master", document |-> p,
                                         tracks |-> ResolveMasterPlaylist(p.lines, p.url)]
        BY <1>4 DEF ResolveTracks
    <3> QED BY <3>1
  <2> QED BY <2>1 DEF PlaylistInv
<1>5. CASE CombineTracks
  <2>1. read'.origin = "combined"
      BY <1>5 DEF CombineTracks
  <2> QED BY <2>1 DEF PlaylistInv
<1>6. CASE UNCHANGED readerVars
    BY <1>6 DEF readerVars, PlaylistInv
<1> QED BY <1>1, <1>2, <1>3, <1>4, <1>5, <1>6 DEF ReaderNext, Read

LEMMA PlaylistStaysRead == ReaderSpec => []PlaylistInv
<1>1. ReaderInit => PlaylistInv
    BY DEF ReaderInit, Unread, PlaylistInv
<1>2. PlaylistInv /\ [ReaderNext]_readerVars => PlaylistInv'
    BY PlaylistTurn
<1> QED BY <1>1, <1>2, PTL DEF ReaderSpec

\* A job that takes a playlist as its source fetches its segments where RFC 3986
\* says they are, in their order, and takes a URI for a segment only behind an
\* EXTINF that could be read (parse_hls_manifest, resolve_url, normalize_path).
THEOREM PlaylistsResolve == ASSUME ReadablePlaylists PROVE ReaderSpec => []ReferencesResolve
<1>1. ASSUME PlaylistInv, read.origin = "playlist" PROVE UrisResolve(read.document, read.source)
  <2> DEFINE playlist == read.document
  <2>1. IsPlayable(playlist) /\ read.source = ParseHlsManifest(playlist.lines, playlist.url, playlist.per)
      BY <1>1 DEF PlaylistInv, ReadablePlaylists
  <2> HIDE DEF playlist
  <2>2. UrisResolve(playlist, read.source)
      BY <2>1, PlaylistParsed
  <2> QED BY <2>2 DEF playlist
<1>2. PlaylistInv => ReferencesResolve
    BY <1>1 DEF ReferencesResolve, UrisResolve, ResolvedUris
<1> QED BY <1>2, PlaylistStaysRead, PTL

=============================================================================
