-------------------------- MODULE TsTransportProofs --------------------------
(***************************************************************************)
(* Theorems about TsTransport for samples of every size and duration, any  *)
(* number of samples, tables and skipped packets, however interleaved.     *)
(*                                                                         *)
(* The invariant speaks of one track at a time, in terms of what was sent  *)
(* (S, up to byte p of the last PES, M skipped, tables tb) and of the      *)
(* demuxer's fields (st, h, B, P): no step of another track disturbs it.   *)
(* SenderOK is about the former, DemuxOK about both while packets come,    *)
(* DoneOK about what is left after flush.                                  *)
(***************************************************************************)
EXTENDS TsTransport, DataLemmas, FiniteSetTheorems, TLAPS

Pieces == [pes : Nat, from : Nat, to : Nat]
PesPackets == [pes : Nat, data : Seq(Pieces)]

TypeInv ==
    /\ phase \in {"sending", "done"} /\ tables \in {"none", "pat", "pmt"}
    /\ tableCount \in 0 .. MaxTables
    /\ sent \in [Tracks -> Seq(SampleRecords)]
    /\ position \in [Tracks -> Nat]
    /\ malformed \in [Tracks -> SUBSET (Nat \X Nat)]
    /\ started \in [Tracks -> BOOLEAN]
    /\ header \in [Tracks -> Nat]
    /\ buffer \in [Tracks -> Seq(Pieces)]
    /\ packets \in [Tracks -> Seq(PesPackets)]

\* PES k had its start pushed into a demuxer that knew the tables.
Begun(S, M, k) == S[k].known /\ <<k, 0>> \notin M

\* No packet of PES k was skipped.
Clean(M, k) == \A m \in M : m[1] # k

AllOf(t, S, k) == [pes |-> k, from |-> HeaderSize(S[k]), to |-> PesSize(t, S[k])]

SenderOK(t, S, p, M, tb) ==
    /\ S = <<>> => p = 0 /\ M = {}
    /\ S # <<>> => p <= PesSize(t, S[Len(S)])
    /\ \A m \in M : m[1] \in 1 .. Len(S) /\ (m[1] = Len(S) => m[2] < p)
    /\ \A k \in 1 .. Len(S) : S[k].known => tb = "pmt" /\ (k = Len(S) => p > 0)
    /\ \A j, k \in 1 .. Len(S) :
          j < k /\ S[j].known /\ (k = Len(S) => p > 0) => S[k].known

\* A sample is decoded when the one before it has ended.
TimesOK(S) ==
    /\ S # <<>> => S[1].time = 0
    /\ \A k \in 2 .. Len(S) : S[k].time = S[k - 1].time + S[k - 1].duration

\* The PES that comes out begin in the order sent.
InOrder(P) == \A i, j \in 1 .. Len(P) : i < j => P[i].pes < P[j].pes

\* A piece under the header of another PES belongs to one whose start was skipped.
Unmixed(data, h, M) ==
    \A n \in 1 .. Len(data) : data[n].pes # h => data[n].pes > h /\ <<data[n].pes, 0>> \in M

\* Pieces are of PES that were sent, and none is empty.
PiecesOK(data, S) ==
    \A n \in 1 .. Len(data) : data[n].pes \in 1 .. Len(S) /\ data[n].from < data[n].to

OutOK(t, S, M, P) ==
    /\ InOrder(P)
    /\ \A i \in 1 .. Len(P) : P[i].pes \in 1 .. Len(S) /\ Unmixed(P[i].data, P[i].pes, M)

DemuxOK(t, S, p, M, st, h, B, P) ==
    /\ ~ st => h = 0 /\ B = <<>> /\ P = <<>>
    /\ st => /\ h \in 1 .. Len(S) /\ Begun(S, M, h) /\ B # <<>>
             /\ PiecesOK(B, S) /\ Unmixed(B, h, M)
    /\ OutOK(t, S, M, P)
    /\ \A i \in 1 .. Len(P) : P[i].pes < h
    /\ \A k \in 1 .. Len(S) : Begun(S, M, k) => k = h \/ \E i \in 1 .. Len(P) : P[i].pes = k
    /\ \A i \in 1 .. Len(P) : Clean(M, P[i].pes) /\ <<P[i].pes + 1, 0>> \notin M =>
                                  P[i].data = <<AllOf(t, S, P[i].pes)>>
    /\ st /\ Clean(M, h) =>
          /\ h = Len(S) => B = << [pes |-> h, from |-> HeaderSize(S[h]), to |-> p] >>
          /\ h + 1 = Len(S) /\ p = 0 => B = << AllOf(t, S, h) >>

\* Every PES that was begun has come out, whole unless a packet of it or the start
\* of the next was skipped or the segment ended in it.
OutWhole(t, S, p, M, P) ==
    /\ OutOK(t, S, M, P)
    /\ \A k \in 1 .. Len(S) : Begun(S, M, k) => \E i \in 1 .. Len(P) : P[i].pes = k
    /\ \A i \in 1 .. Len(P) :
          LET k == P[i].pes
          IN  /\ Clean(M, k) /\ (k < Len(S) => <<k + 1, 0>> \notin M)
              /\ (k = Len(S) => p = PesSize(t, S[k]))
              => P[i].data = << AllOf(t, S, k) >>

DoneOK(t, S, p, M, h, B, P) == h = 0 /\ B = <<>> /\ OutWhole(t, S, p, M, P)

TrackOK(t) ==
    /\ SenderOK(t, sent[t], position[t], malformed[t], tables)
    /\ TimesOK(sent[t])
    /\ phase = "sending" => DemuxOK(t, sent[t], position[t], malformed[t],
                                    started[t], header[t], buffer[t], packets[t])
    /\ phase = "done" => DoneOK(t, sent[t], position[t], malformed[t],
                                header[t], buffer[t], packets[t])

TransportInv == TypeInv /\ \A t \in Tracks : TrackOK(t)

-----------------------------------------------------------------------------
(* Packets *)

\* The sizes of a PES: it has at least one byte behind its header (build_pes_packet).
LEMMA PesSizes ==
    ASSUME NEW t, NEW s \in SampleRecords
    PROVE  /\ HeaderSize(s) \in {14, 19} /\ PesSize(t, s) \in Nat
           /\ HeaderSize(s) < PesSize(t, s)
<1>1. s.size \in Nat \ {0} /\ s.idr \in BOOLEAN /\ s.reordered \in BOOLEAN
  <2>1. s.size \in Sizes /\ s.idr \in BOOLEAN /\ s.reordered \in BOOLEAN
      BY DEF SampleRecords
  <2>2. Sizes \subseteq Nat \ {0}
      BY SizesAssumption
  <2> QED BY <2>1, <2>2
<1>2. ParamSetSize \in Nat
    BY BoundsAssumption
<1> QED BY <1>1, <1>2 DEF PesSize, StreamSize, HeaderSize, AdtsHeader

\* A packet is read where it was written, for every amount of stuffing, and the
\* first one of a PES reaches past the PES header (packetize_pes, parse_ts_packet).
LEMMA LayoutRead ==
    ASSUME NEW rai \in BOOLEAN, NEW remaining \in Nat \ {0}
    PROVE  LET l == Layout(rai, remaining)
           IN  /\ PayloadOffset(l) = l.at /\ l.at \in Nat
               /\ PacketSize - l.at = l.count
               /\ l.count \in 1 .. remaining
               /\ \A size \in {14, 19} : size < remaining => size < l.count
BY DEF Layout, PayloadOffset, PacketSize, NoField

-----------------------------------------------------------------------------
(* What a track's sender does *)

TrackTypes(S, p, M, st, h, B, P) ==
    /\ S \in Seq(SampleRecords) /\ p \in Nat /\ M \in SUBSET (Nat \X Nat)
    /\ st \in BOOLEAN /\ h \in Nat /\ B \in Seq(Pieces) /\ P \in Seq(PesPackets)

\* T is S with the mark of its last sample, and nothing else, changed to b.
IsMarked(t, S, T, b) ==
    /\ T \in Seq(SampleRecords) /\ Len(T) = Len(S) /\ T[Len(S)].known = b
    /\ \A k \in 1 .. Len(S) :
          /\ k # Len(S) => T[k] = S[k]
          /\ T[k].size = S[k].size /\ T[k].idr = S[k].idr
          /\ T[k].time = S[k].time /\ T[k].duration = S[k].duration
          /\ HeaderSize(T[k]) = HeaderSize(S[k]) /\ PesSize(t, T[k]) = PesSize(t, S[k])
          /\ AllOf(t, T, k) = AllOf(t, S, k)

\* That a sample is marked known changes nothing else of what was sent.
LEMMA Marked ==
    ASSUME NEW t, NEW S \in Seq(SampleRecords), S # <<>>, NEW b \in BOOLEAN
    PROVE  IsMarked(t, S, [S EXCEPT ![Len(S)].known = b], b)
<1> DEFINE T == [S EXCEPT ![Len(S)].known = b]
<1>1. Len(S) \in Nat \ {0} /\ Len(S) \in 1 .. Len(S)
    OBVIOUS
<1>2. S[Len(S)] \in SampleRecords
    BY <1>1
<1> DEFINE s == [S[Len(S)] EXCEPT !.known = b]
<1>3. /\ s \in SampleRecords /\ s.known = b
      /\ s.size = S[Len(S)].size /\ s.idr = S[Len(S)].idr /\ s.reordered = S[Len(S)].reordered
      /\ s.time = S[Len(S)].time /\ s.duration = S[Len(S)].duration
  <2> DEFINE r == S[Len(S)]
  <2> HIDE DEF r
  <2>1. r \in SampleRecords /\ s = [r EXCEPT !.known = b]
      BY <1>2 DEF r
  <2> HIDE DEF s
  <2>2. r \in [size : Sizes, idr : BOOLEAN, reordered : BOOLEAN, time : Nat,
                duration : Durations \cup {1024}, known : BOOLEAN]
      BY <2>1 DEF SampleRecords
  <2>3. s \in SampleRecords
      BY <2>1, <2>2 DEF SampleRecords
  <2>4. s.known = b
      BY <2>1, <2>2
  <2>5. /\ s.size = r.size /\ s.idr = r.idr /\ s.reordered = r.reordered
        /\ s.time = r.time /\ s.duration = r.duration
      BY <2>1, <2>2
  <2> QED BY <2>3, <2>4, <2>5 DEF r
<1>4. T = [S EXCEPT ![Len(S)] = s]
    BY <1>1
<1> HIDE DEF s, T
<1>5. /\ T \in Seq(SampleRecords) /\ Len(T) = Len(S) /\ T[Len(S)] = s
      /\ \A k \in 1 .. Len(S) : k # Len(S) => T[k] = S[k]
    BY <1>1, <1>3, <1>4
<1>6. ASSUME NEW k \in 1 .. Len(S)
      PROVE  /\ T[k].size = S[k].size /\ T[k].idr = S[k].idr /\ T[k].reordered = S[k].reordered
             /\ T[k].time = S[k].time /\ T[k].duration = S[k].duration
    BY <1>3, <1>5
<1>7. ASSUME NEW k \in 1 .. Len(S)
      PROVE  HeaderSize(T[k]) = HeaderSize(S[k]) /\ PesSize(t, T[k]) = PesSize(t, S[k])
    BY <1>6 DEF PesSize, StreamSize, HeaderSize
<1>8. IsMarked(t, S, T, b)
    BY <1>3, <1>5, <1>6, <1>7 DEF AllOf, IsMarked
<1> QED BY <1>8 DEF T

\* The next sample of the loop: nothing of its PES has been sent.
LEMMA SenderStarts ==
    ASSUME NEW t, NEW S \in Seq(SampleRecords), NEW p \in Nat, NEW M \in SUBSET (Nat \X Nat),
           NEW tb, NEW s \in SampleRecords, ~ s.known,
           SenderOK(t, S, p, M, tb), S # <<>> => p = PesSize(t, S[Len(S)])
    PROVE  SenderOK(t, Append(S, s), 0, M, tb)
<1> DEFINE T == Append(S, s)
           n == Len(S)
<1>1. /\ T \in Seq(SampleRecords) /\ Len(T) = n + 1 /\ T # <<>> /\ n \in Nat
      /\ T[n + 1] = s /\ \A k \in 1 .. n : T[k] = S[k]
    OBVIOUS
<1>2. n \in 1 .. n => p > 0
  <2>1. CASE n \in 1 .. n
    <3>1. S[n] \in SampleRecords /\ S # <<>>
        BY <2>1
    <3> QED BY <3>1, PesSizes
  <2> QED BY <2>1
<1>3. 0 <= PesSize(t, T[Len(T)])
    BY <1>1, PesSizes
<1>4. \A m \in M : m[1] \in 1 .. n
    BY DEF SenderOK
<1>5. ASSUME NEW k \in 1 .. n + 1, T[k].known PROVE tb = "pmt" /\ k # n + 1
  <2>1. k # n + 1
      BY <1>1, <1>5
  <2>2. k \in 1 .. n /\ S[k].known
      BY <1>1, <1>5, <2>1
  <2> QED BY <2>1, <2>2 DEF SenderOK
<1>6. ASSUME NEW j \in 1 .. n + 1, NEW k \in 1 .. n + 1, j < k, T[j].known, k = n + 1 => 0 > 0
      PROVE  T[k].known
  <2>1. k \in 1 .. n /\ j \in 1 .. n
      BY <1>6, <1>1
  <2>2. S[j].known
      BY <1>1, <1>6, <2>1
  <2>3. S[k].known
      BY <1>2, <1>6, <2>1, <2>2 DEF SenderOK
  <2> QED BY <1>1, <2>1, <2>3
<1> HIDE DEF T, n
<1>7. SenderOK(t, T, 0, M, tb)
    BY <1>1, <1>3, <1>4, <1>5, <1>6 DEF SenderOK
<1> QED BY <1>7 DEF T

\* A packet is sent or skipped; with the first one of a PES it is known whether
\* the demuxer has the tables.
LEMMA SenderAdvances ==
    ASSUME NEW t, NEW S \in Seq(SampleRecords), S # <<>>, NEW p \in Nat,
           NEW M \in SUBSET (Nat \X Nat), NEW tb, SenderOK(t, S, p, M, tb),
           NEW c \in Nat \ {0}, p + c <= PesSize(t, S[Len(S)]),
           NEW T, T = IF p = 0 THEN [S EXCEPT ![Len(S)].known = (tb = "pmt")] ELSE S,
           NEW N, N = M \/ N = M \cup {<<Len(S), p>>}
    PROVE  SenderOK(t, T, p + c, N, tb)
<1> DEFINE n == Len(S)
           b == tb = "pmt"
<1>1. n \in Nat \ {0} /\ S[n] \in SampleRecords
    OBVIOUS
<1>2. b \in BOOLEAN
    OBVIOUS
<1>3. /\ T \in Seq(SampleRecords) /\ Len(T) = n /\ T # <<>>
      /\ PesSize(t, T[n]) = PesSize(t, S[n])
      /\ p = 0 => (T[n].known = b)
      /\ p # 0 => T = S
      /\ \A k \in 1 .. n : k # n => T[k] = S[k]
  <2>1. CASE p = 0
    <3>1. T = [S EXCEPT ![Len(S)].known = b]
        BY <2>1
    <3> HIDE DEF b
    <3>2. IsMarked(t, S, [S EXCEPT ![Len(S)].known = b], b)
        BY <1>2, Marked
    <3>3. IsMarked(t, S, T, b)
        BY <3>1, <3>2
    <3>4. /\ T \in Seq(SampleRecords) /\ Len(T) = Len(S) /\ T[Len(S)].known = b
          /\ \A k \in 1 .. Len(S) : /\ k # Len(S) => T[k] = S[k]
                                   /\ PesSize(t, T[k]) = PesSize(t, S[k])
        BY <3>3, Zenon DEF IsMarked
    <3>5. T # <<>> /\ Len(S) \in 1 .. Len(S)
        BY <1>1, <3>4
    <3> QED BY <2>1, <3>5, <3>4, Zenon
  <2>2. CASE p # 0
      BY <1>1, <2>2
  <2> QED BY <2>1, <2>2
<1>4. p + c <= PesSize(t, T[Len(T)])
    BY <1>3
<1>5. \A m \in N : m[1] \in 1 .. n /\ (m[1] = n => m[2] < p + c)
  <2>1. \A m \in M : m[1] \in 1 .. n /\ m[2] \in Nat /\ (m[1] = n => m[2] < p)
      BY DEF SenderOK
  <2>2. \A m \in M : m[1] \in 1 .. n /\ (m[1] = n => m[2] < p + c)
      BY <2>1
  <2>3. <<n, p>>[1] \in 1 .. n /\ <<n, p>>[2] < p + c
      BY <1>1
  <2> QED BY <2>2, <2>3
<1>6. ASSUME NEW k \in 1 .. n, T[k].known PROVE tb = "pmt"
  <2>1. CASE p = 0 /\ k = n
      BY <1>3, <1>6, <2>1
  <2>2. CASE ~ (p = 0 /\ k = n)
    <3>1. S[k].known
        BY <1>3, <1>6, <2>2
    <3> QED BY <3>1 DEF SenderOK
  <2> QED BY <2>1, <2>2
<1>7. ASSUME NEW j \in 1 .. n, NEW k \in 1 .. n, j < k, T[j].known PROVE T[k].known
  <2>1. S[j].known /\ tb = "pmt"
      BY <1>1, <1>3, <1>6, <1>7
  <2>2. CASE p = 0 /\ k = n
    <3>1. T[n].known = b /\ b
        BY <1>3, <2>1, <2>2
    <3> QED BY <2>2, <3>1
  <2>3. CASE ~ (p = 0 /\ k = n)
    <3>1. S[k].known
        BY <1>7, <2>1, <2>3 DEF SenderOK
    <3> QED BY <1>3, <2>3, <3>1
  <2> QED BY <2>2, <2>3
<1>8. p + c > 0
    OBVIOUS
<1> HIDE DEF n, b
<1> QED BY <1>3, <1>4, <1>5, <1>6, <1>7, <1>8 DEF SenderOK

\* What the demuxer learns of the tables later it did not know before.
LEMMA SenderTables ==
    ASSUME NEW t, NEW S, NEW p, NEW M, NEW tb, NEW tb2, SenderOK(t, S, p, M, tb),
           tb = "pmt" => tb2 = "pmt"
    PROVE  SenderOK(t, S, p, M, tb2)
BY DEF SenderOK

-----------------------------------------------------------------------------
(* What the demuxer does with it *)

\* Output that is in order and unmixed stays so when more is sent or skipped.
LEMMA OutKept ==
    ASSUME NEW t, NEW S \in Seq(SampleRecords), NEW T \in Seq(SampleRecords), Len(S) <= Len(T),
           NEW M, NEW N, M \subseteq N, NEW P \in Seq(PesPackets), OutOK(t, S, M, P)
    PROVE  OutOK(t, T, N, P)
<1>1. \A i \in 1 .. Len(P) : P[i].pes \in 1 .. Len(T)
    BY DEF OutOK
<1>2. \A i \in 1 .. Len(P) : Unmixed(P[i].data, P[i].pes, N)
    BY DEF OutOK, Unmixed
<1> QED BY <1>1, <1>2 DEF OutOK

\* The next sample: the demuxer has seen all of the PES before it.
LEMMA DemuxStarts ==
    ASSUME NEW t, NEW S \in Seq(SampleRecords), NEW p \in Nat, NEW M \in SUBSET (Nat \X Nat),
           NEW st \in BOOLEAN, NEW h \in Nat, NEW B \in Seq(Pieces), NEW P \in Seq(PesPackets),
           NEW s \in SampleRecords, ~ s.known,
           DemuxOK(t, S, p, M, st, h, B, P), S # <<>> => p = PesSize(t, S[Len(S)])
    PROVE  DemuxOK(t, Append(S, s), 0, M, st, h, B, P)
<1> DEFINE T == Append(S, s)
           n == Len(S)
<1>1. /\ T \in Seq(SampleRecords) /\ Len(T) = n + 1 /\ n \in Nat
      /\ T[n + 1] = s /\ \A k \in 1 .. n : T[k] = S[k]
    OBVIOUS
<1> HIDE DEF T
<1>2. \A k \in 1 .. n : /\ Begun(T, M, k) <=> Begun(S, M, k)
                        /\ AllOf(t, T, k) = AllOf(t, S, k)
    BY <1>1 DEF Begun, AllOf
<1>3. ~ Begun(T, M, n + 1)
    BY <1>1 DEF Begun
<1>4. ~ st => h = 0 /\ B = <<>> /\ P = <<>>
    BY DEF DemuxOK
<1>5. st => /\ h \in 1 .. n + 1 /\ h \in 1 .. n /\ Begun(T, M, h) /\ B # <<>>
            /\ PiecesOK(B, T) /\ Unmixed(B, h, M)
    BY <1>1, <1>2 DEF DemuxOK, PiecesOK
<1>6. OutOK(t, T, M, P) /\ \A i \in 1 .. Len(P) : P[i].pes \in 1 .. n /\ P[i].pes < h
  <2>1. OutOK(t, S, M, P)
      BY DEF DemuxOK
  <2>2. OutOK(t, T, M, P)
      BY <1>1, <2>1, OutKept
  <2> QED BY <2>1, <2>2 DEF DemuxOK, OutOK
<1>7. \A k \in 1 .. n + 1 : Begun(T, M, k) => k = h \/ \E i \in 1 .. Len(P) : P[i].pes = k
  <2> SUFFICES ASSUME NEW k \in 1 .. n + 1, Begun(T, M, k)
               PROVE  k = h \/ \E i \in 1 .. Len(P) : P[i].pes = k
      OBVIOUS
  <2>1. k \in 1 .. n
      BY <1>1, <1>3
  <2> QED BY <1>2, <2>1 DEF DemuxOK
<1>8. \A i \in 1 .. Len(P) : Clean(M, P[i].pes) /\ <<P[i].pes + 1, 0>> \notin M =>
                                 P[i].data = <<AllOf(t, T, P[i].pes)>>
    BY <1>2, <1>6 DEF DemuxOK
<1>9. ASSUME st, Clean(M, h)
      PROVE  /\ h # n + 1
             /\ h + 1 = n + 1 => B = << AllOf(t, T, h) >>
  <2>1. h \in 1 .. n
      BY <1>5, <1>9
  <2>2. CASE h = n
    <3>1. B = << [pes |-> h, from |-> HeaderSize(S[h]), to |-> p] >>
        BY <1>9, <2>2 DEF DemuxOK
    <3>2. p = PesSize(t, S[h])
        BY <2>1, <2>2
    <3>3. B = << AllOf(t, S, h) >>
        BY <3>1, <3>2 DEF AllOf
    <3> QED BY <1>2, <2>1, <3>3
  <2>3. CASE h # n
      BY <2>1, <2>3
  <2> QED BY <2>2, <2>3
<1> HIDE DEF n
<1>10. DemuxOK(t, T, 0, M, st, h, B, P)
    BY <1>1, <1>4, <1>5, <1>6, <1>7, <1>8, <1>9 DEF DemuxOK
<1> QED BY <1>10 DEF T

\* What the demuxer has collected when the start of a later PES comes, or the end:
\* a PES none of whose packets was skipped is whole.
LEMMA Collects ==
    ASSUME NEW t, NEW S \in Seq(SampleRecords), NEW p \in Nat, NEW M \in SUBSET (Nat \X Nat),
           NEW st \in BOOLEAN, NEW h \in Nat, NEW B \in Seq(Pieces), NEW P \in Seq(PesPackets),
           NEW tb, SenderOK(t, S, p, M, tb), DemuxOK(t, S, p, M, st, h, B, P), st
    PROVE  /\ Append(P, [pes |-> h, data |-> B]) \in Seq(PesPackets)
           /\ OutWhole(t, S, p, M, Append(P, [pes |-> h, data |-> B]))
<1> DEFINE q == [pes |-> h, data |-> B]
           Q == Append(P, q)
           n == Len(S)
           l == Len(P)
<1>1. /\ q \in PesPackets /\ Q \in Seq(PesPackets) /\ Len(Q) = l + 1 /\ l \in Nat /\ n \in Nat
      /\ Q[l + 1] = q /\ \A i \in 1 .. l : Q[i] = P[i]
    BY DEF PesPackets
<1>2. q.pes = h /\ q.data = B
    OBVIOUS
<1> HIDE DEF q, Q
<1>3. /\ h \in 1 .. n /\ Begun(S, M, h) /\ Unmixed(B, h, M)
      /\ \A i \in 1 .. l : P[i].pes < h
      /\ OutOK(t, S, M, P)
    BY DEF DemuxOK
<1>4. \A i \in 1 .. l : P[i].pes \in 1 .. n /\ Unmixed(P[i].data, P[i].pes, M)
    BY <1>3 DEF OutOK
<1>5. InOrder(Q)
  <2> SUFFICES ASSUME NEW i \in 1 .. l + 1, NEW j \in 1 .. l + 1, i < j
               PROVE  Q[i].pes < Q[j].pes
      BY <1>1 DEF InOrder
  <2>1. i \in 1 .. l /\ Q[i] = P[i]
      BY <1>1
  <2>2. CASE j = l + 1
      BY <1>1, <1>2, <1>3, <2>1, <2>2
  <2>3. CASE j # l + 1
    <3>1. j \in 1 .. l /\ Q[j] = P[j]
        BY <1>1, <2>3
    <3> QED BY <1>3, <2>1, <3>1 DEF OutOK, InOrder
  <2> QED BY <2>2, <2>3
<1>6. OutOK(t, S, M, Q)
  <2> SUFFICES ASSUME NEW i \in 1 .. l + 1
               PROVE  Q[i].pes \in 1 .. n /\ Unmixed(Q[i].data, Q[i].pes, M)
      BY <1>1, <1>5 DEF OutOK
  <2>1. CASE i = l + 1
      BY <1>1, <1>2, <1>3, <2>1
  <2>2. CASE i # l + 1
    <3>1. i \in 1 .. l /\ Q[i] = P[i]
        BY <1>1, <2>2
    <3> QED BY <1>4, <3>1
  <2> QED BY <2>1, <2>2
<1>7. ASSUME NEW k \in 1 .. n, Begun(S, M, k) PROVE \E i \in 1 .. l + 1 : Q[i].pes = k
  <2>1. CASE k = h
      BY <1>1, <1>2, <2>1, l + 1 \in 1 .. l + 1
  <2>2. CASE k # h
    <3>1. PICK i \in 1 .. l : P[i].pes = k
        BY <1>7, <2>2 DEF DemuxOK
    <3>2. i \in 1 .. l + 1 /\ Q[i] = P[i]
        BY <1>1
    <3> QED BY <3>1, <3>2
  <2> QED BY <2>1, <2>2
<1>8. ASSUME Clean(M, h), h < n => <<h + 1, 0>> \notin M, h = n => p = PesSize(t, S[h])
      PROVE  B = << AllOf(t, S, h) >>
  <2>1. CASE h = n
    <3>1. B = << [pes |-> h, from |-> HeaderSize(S[h]), to |-> p] >>
        BY <1>8, <2>1 DEF DemuxOK
    <3> QED BY <1>8, <2>1, <3>1 DEF AllOf
  <2>2. CASE h # n
    <3>1. h + 1 \in 1 .. n /\ <<h + 1, 0>> \notin M
        BY <1>1, <1>3, <1>8, <2>2
    <3>2. CASE h + 1 = n /\ p = 0
        BY <1>8, <3>2 DEF DemuxOK
    <3>3. CASE ~ (h + 1 = n /\ p = 0)
      <4>1. S[h].known
          BY <1>3 DEF Begun
      <4>2. S[h + 1].known
          BY <1>1, <1>3, <3>1, <3>3, <4>1 DEF SenderOK
      <4>3. Begun(S, M, h + 1)
          BY <3>1, <4>2 DEF Begun
      <4>4. PICK i \in 1 .. l : P[i].pes = h + 1
          BY <1>3, <3>1, <4>3 DEF DemuxOK
      <4> QED BY <1>3, <4>4
    <3> QED BY <3>2, <3>3
  <2> QED BY <2>1, <2>2
<1>9. ASSUME NEW i \in 1 .. l + 1, NEW k, k = Q[i].pes, Clean(M, k),
             k < n => <<k + 1, 0>> \notin M, k = n => p = PesSize(t, S[k])
      PROVE  Q[i].data = << AllOf(t, S, k) >>
  <2>1. CASE i = l + 1
    <3>1. k = h
        BY <1>1, <1>2, <1>9, <2>1
    <3> QED BY <1>1, <1>2, <1>8, <1>9, <2>1, <3>1
  <2>2. CASE i # l + 1
    <3>4. i \in 1 .. l
      <4>1. l \in Nat
          BY <1>1
      <4> QED BY <2>2, <4>1
    <3>1. i \in 1 .. l /\ Q[i] = P[i]
        BY <1>1, <3>4
    <3>2. k \in 1 .. n /\ k < h
        BY <1>3, <1>4, <1>9, <3>1
    <3>3. k < n
        BY <1>1, <1>3, <3>2
    <3> QED BY <1>9, <3>1, <3>3 DEF DemuxOK
  <2> QED BY <2>1, <2>2
<1>10. OutWhole(t, S, p, M, Q)
  <2> HIDE DEF n, l
  <2> QED BY <1>1, <1>6, <1>7, <1>9 DEF OutWhole, n
<1> QED BY <1>1, <1>10 DEF Q, q

\* What has come out once the PES that was being collected is out.
TakenOut(st, h, B, P) == IF st THEN Append(P, [pes |-> h, data |-> B]) ELSE P

\* What is collected of a PES of which one run of bytes has come.
OnePiece(k, from, to) == << [pes |-> k, from |-> from, to |-> to] >>

LEMMA TakenTyped ==
    ASSUME NEW st \in BOOLEAN, NEW h \in Nat, NEW B \in Seq(Pieces), NEW P \in Seq(PesPackets)
    PROVE  TakenOut(st, h, B, P) \in Seq(PesPackets)
<1>1. [pes |-> h, data |-> B] \in PesPackets
    BY DEF PesPackets
<1> QED BY <1>1 DEF TakenOut

LEMMA OnePieceTyped ==
    ASSUME NEW k \in Nat, NEW from \in Nat, NEW to \in Nat
    PROVE  OnePiece(k, from, to) \in Seq(Pieces)
BY DEF OnePiece, Pieces

\* The start of a PES: what was collected comes out, and the new PES begins behind
\* its header (handle_video_packet, handle_audio_packet).
LEMMA DemuxBegins ==
    ASSUME NEW t, NEW S \in Seq(SampleRecords), S # <<>>, NEW M \in SUBSET (Nat \X Nat),
           NEW st \in BOOLEAN, NEW h \in Nat, NEW B \in Seq(Pieces), NEW P \in Seq(PesPackets),
           NEW tb, SenderOK(t, S, 0, M, tb), DemuxOK(t, S, 0, M, st, h, B, P),
           NEW v \in BOOLEAN, v, NEW T, IsMarked(t, S, T, v), NEW c \in Nat, HeaderSize(S[Len(S)]) < c,
           NEW C, C = OnePiece(Len(S), HeaderSize(S[Len(S)]), c),
           NEW Q, Q = TakenOut(st, h, B, P)
    PROVE  DemuxOK(t, T, c, M, v, Len(S), C, Q)
<1> DEFINE n == Len(S)
           q == [pes |-> h, data |-> B]
           w == [pes |-> n, from |-> HeaderSize(S[n]), to |-> c]
<1>1. n \in Nat \ {0} /\ S[n] \in SampleRecords /\ n \in 1 .. n
    OBVIOUS
<1>2. /\ T \in Seq(SampleRecords) /\ Len(T) = n /\ T[n].known
      /\ \A k \in 1 .. n : /\ k # n => T[k] = S[k]
                           /\ HeaderSize(T[k]) = HeaderSize(S[k])
                           /\ AllOf(t, T, k) = AllOf(t, S, k)
    BY <1>1 DEF IsMarked
<1>3. HeaderSize(S[n]) \in Nat /\ w \in Pieces
  <2>1. HeaderSize(S[n]) \in {14, 19}
      BY <1>1, PesSizes
  <2>2. HeaderSize(S[n]) \in Nat
      BY <2>1
  <2> QED BY <1>1, <2>2 DEF Pieces
<1>4. C = <<w>> /\ C \in Seq(Pieces) /\ C # <<>> /\ Len(C) = 1 /\ C[1] = w
    BY <1>3 DEF OnePiece
<1>5. w.pes = n /\ w.from = HeaderSize(S[n]) /\ w.to = c
    OBVIOUS
<1> HIDE DEF w
<1>6. ~ S[n].known /\ <<n, 0>> \notin M
  <2>1. ~ S[n].known
      BY <1>1 DEF SenderOK
  <2>2. ASSUME <<n, 0>> \in M PROVE FALSE
    <3>1. \A m \in M : m[1] = n => m[2] < 0
        BY DEF SenderOK
    <3>2. <<n, 0>>[1] = n /\ <<n, 0>>[2] = 0 /\ ~ (0 < 0)
        OBVIOUS
    <3> QED BY <2>2, <3>1, <3>2
  <2> QED BY <2>1, <2>2
<1>7. Begun(T, M, n) /\ ~ Begun(S, M, n)
    BY <1>2, <1>6 DEF Begun
<1>8. PiecesOK(C, T) /\ Unmixed(C, n, M)
    BY <1>1, <1>2, <1>3, <1>4, <1>5 DEF PiecesOK, Unmixed
<1>9. /\ Q \in Seq(PesPackets) /\ OutOK(t, S, M, Q)
      /\ \A i \in 1 .. Len(Q) : Q[i].pes < n
      /\ \A k \in 1 .. n : Begun(S, M, k) => \E i \in 1 .. Len(Q) : Q[i].pes = k
      /\ \A i \in 1 .. Len(Q) : Clean(M, Q[i].pes) /\ <<Q[i].pes + 1, 0>> \notin M =>
                                   Q[i].data = << AllOf(t, S, Q[i].pes) >>
  <2>1. CASE st
    <3>1. Q = Append(P, [pes |-> h, data |-> B])
        BY <2>1 DEF TakenOut
    <3>7. Append(P, [pes |-> h, data |-> B]) \in Seq(PesPackets)
          /\ OutWhole(t, S, 0, M, Append(P, [pes |-> h, data |-> B]))
        BY <2>1, Collects, 0 \in Nat
    <3>8. Q \in Seq(PesPackets) /\ OutWhole(t, S, 0, M, Q)
        BY <3>1, <3>7
    <3>2. /\ Q \in Seq(PesPackets) /\ OutOK(t, S, M, Q)
          /\ \A k \in 1 .. n : Begun(S, M, k) => \E i \in 1 .. Len(Q) : Q[i].pes = k
        BY <3>8 DEF OutWhole
    <3>3. \A i \in 1 .. Len(Q) :
              /\ Clean(M, Q[i].pes) /\ (Q[i].pes < n => <<Q[i].pes + 1, 0>> \notin M)
              /\ (Q[i].pes = n => 0 = PesSize(t, S[Q[i].pes]))
              => Q[i].data = << AllOf(t, S, Q[i].pes) >>
        BY <3>8 DEF OutWhole
    <3>4. h \in 1 .. n /\ h # n /\ \A i \in 1 .. Len(P) : P[i].pes < h /\ P[i].pes \in 1 .. n
        BY <1>7, <2>1 DEF DemuxOK, OutOK
    <3>5. ASSUME NEW i \in 1 .. Len(Q) PROVE Q[i].pes < n
      <4>1. q \in PesPackets /\ q.pes = h
          BY DEF PesPackets
      <4> HIDE DEF q
      <4>2. CASE i = Len(P) + 1
          BY <1>1, <3>1, <3>4, <4>1, <4>2
      <4>3. CASE i # Len(P) + 1
        <5>1. i \in 1 .. Len(P) /\ Q[i] = P[i]
            BY <3>1, <4>1, <4>3
        <5> QED BY <1>1, <3>4, <5>1
      <4> QED BY <4>2, <4>3
    <3>6. ASSUME NEW i \in 1 .. Len(Q), Clean(M, Q[i].pes), <<Q[i].pes + 1, 0>> \notin M
          PROVE  Q[i].data = << AllOf(t, S, Q[i].pes) >>
      <4>1. Q[i].pes # n
          BY <1>1, <3>5
      <4> QED BY <3>3, <3>6, <4>1
    <3> QED BY <3>2, <3>5, <3>6
  <2>2. CASE ~ st
    <3>1. Q = <<>> /\ Q = P /\ h = 0
        BY <2>2 DEF DemuxOK, TakenOut
    <3>2. OutOK(t, S, M, Q)
        BY <3>1 DEF DemuxOK
    <3>3. \A k \in 1 .. n : ~ Begun(S, M, k)
        BY <3>1 DEF DemuxOK
    <3> QED BY <3>1, <3>2, <3>3
  <2> QED BY <2>1, <2>2
<1>10. OutOK(t, T, M, Q)
  <2>1. Len(S) <= Len(T) /\ M \subseteq M
      BY <1>1, <1>2
  <2> HIDE DEF n
  <2> QED BY <1>2, <1>9, <2>1, OutKept
<1>11. \A k \in 1 .. n : Begun(T, M, k) => k = n \/ \E i \in 1 .. Len(Q) : Q[i].pes = k
  <2> SUFFICES ASSUME NEW k \in 1 .. n, Begun(T, M, k), k # n
               PROVE  \E i \in 1 .. Len(Q) : Q[i].pes = k
      OBVIOUS
  <2>1. Begun(S, M, k)
      BY <1>2 DEF Begun
  <2> QED BY <1>9, <2>1
<1>12. \A i \in 1 .. Len(Q) : Clean(M, Q[i].pes) /\ <<Q[i].pes + 1, 0>> \notin M =>
                                   Q[i].data = << AllOf(t, T, Q[i].pes) >>
    BY <1>2, <1>9 DEF OutOK
<1>13. /\ HeaderSize(T[n]) = HeaderSize(S[n])
       /\ ~ (n + 1 = Len(T))
    BY <1>1, <1>2
<1>15. C = << [pes |-> n, from |-> HeaderSize(S[n]), to |-> c] >>
    BY DEF OnePiece
<1> HIDE DEF n
<1>14. DemuxOK(t, T, c, M, v, n, C, Q)
    BY <1>1, <1>2, <1>4, <1>7, <1>8, <1>9, <1>10, <1>11, <1>12, <1>13, <1>15 DEF DemuxOK
<1> QED BY <1>14 DEF n

\* The start of a PES before the tables are known: nothing is done with it.
LEMMA DemuxIgnores ==
    ASSUME NEW t, NEW S \in Seq(SampleRecords), S # <<>>, NEW M \in SUBSET (Nat \X Nat),
           NEW st \in BOOLEAN, NEW h \in Nat, NEW B \in Seq(Pieces), NEW P \in Seq(PesPackets),
           NEW tb, SenderOK(t, S, 0, M, tb), DemuxOK(t, S, 0, M, st, h, B, P), tb # "pmt",
           NEW T, IsMarked(t, S, T, FALSE), NEW c
    PROVE  ~ st /\ DemuxOK(t, T, c, M, st, h, B, P)
<1>1. \A k \in 1 .. Len(S) : ~ Begun(S, M, k)
    BY DEF SenderOK, Begun
<1>2. ~ st
    BY <1>1 DEF DemuxOK
<1>3. h = 0 /\ B = <<>> /\ P = <<>>
    BY <1>2 DEF DemuxOK
<1>4. \A k \in 1 .. Len(T) : ~ Begun(T, M, k)
    BY <1>1 DEF Begun, IsMarked
<1>5. OutOK(t, T, M, P)
    BY <1>3 DEF OutOK, InOrder
<1>6. DemuxOK(t, T, c, M, st, h, B, P)
    BY <1>2, <1>3, <1>4, <1>5 DEF DemuxOK
<1> QED BY <1>2, <1>6

\* C goes on where the one piece of B ended.
Follows(B, C, k, from, to) ==
    \A f \in Nat : B = << [pes |-> k, from |-> f, to |-> from] >> =>
                       C = << [pes |-> k, from |-> f, to |-> to] >>

\* Bytes that follow the last piece extend it, others are a piece of their own.
LEMMA Extended ==
    ASSUME NEW S, NEW B \in Seq(Pieces), PiecesOK(B, S), NEW M, NEW h, NEW k \in 1 .. Len(S),
           NEW from \in Nat, NEW to \in Nat, from < to, Len(S) \in Nat,
           Unmixed(B, h, M), k # h => k > h /\ <<k, 0>> \in M,
           NEW C, C = Extend(B, k, from, to)
    PROVE  /\ C \in Seq(Pieces) /\ C # <<>> /\ PiecesOK(C, S) /\ Unmixed(C, h, M)
           /\ Follows(B, C, k, from, to)
<1>1. CASE B # <<>> /\ Last(B).pes = k /\ Last(B).to = from
  <2> DEFINE n == Len(B)
             e == [pes |-> k, from |-> B[n].from, to |-> to]
  <2>1. n \in 1 .. n /\ B[n] \in Pieces /\ B[n].pes = k /\ B[n].to = from /\ n \in Nat
      BY <1>1 DEF Last
  <2>2. B[n].from < from /\ B[n].from \in Nat
      BY <2>1 DEF PiecesOK, Pieces
  <2>3. [B[n] EXCEPT !.to = to] = e
      BY <2>1 DEF Pieces
  <2>4. C = [B EXCEPT ![n].to = to]
      BY <1>1 DEF Extend
  <2>5. C = [B EXCEPT ![n] = e]
      BY <2>1, <2>3, <2>4
  <2>6. e \in Pieces /\ e.pes = k /\ e.from < e.to
      BY <2>2 DEF Pieces
  <2>7. C \in Seq(Pieces) /\ Len(C) = n /\ C[n] = e /\ \A i \in 1 .. n : i # n => C[i] = B[i]
    <3> HIDE DEF e
    <3> QED BY <2>1, <2>5, <2>6
  <2>8. PiecesOK(C, S) /\ Unmixed(C, h, M)
    <3> HIDE DEF e, n
    <3> QED BY <2>6, <2>7 DEF PiecesOK, Unmixed, n
  <2>9. ASSUME NEW f \in Nat, B = << [pes |-> k, from |-> f, to |-> from] >>
        PROVE  C = << [pes |-> k, from |-> f, to |-> to] >>
    <3>1. n = 1 /\ e = [pes |-> k, from |-> f, to |-> to]
        BY <2>9
    <3> HIDE DEF e, n
    <3>2. C = <<e>>
        BY <2>7, <3>1
    <3> QED BY <3>1, <3>2
  <2>10. C # <<>>
      BY <2>1, <2>7
  <2> QED BY <2>7, <2>8, <2>9, <2>10 DEF Follows
<1>2. CASE ~ (B # <<>> /\ Last(B).pes = k /\ Last(B).to = from)
  <2> DEFINE n == Len(B)
             e == [pes |-> k, from |-> from, to |-> to]
  <2>1. C = Append(B, e)
      BY <1>2 DEF Extend
  <2>2. e \in Pieces /\ e.pes = k /\ e.from < e.to
      BY DEF Pieces
  <2> HIDE DEF e
  <2>3. /\ C \in Seq(Pieces) /\ Len(C) = n + 1 /\ n \in Nat /\ C[n + 1] = e
        /\ \A i \in 1 .. n : C[i] = B[i]
      BY <2>1, <2>2
  <2>4. PiecesOK(C, S) /\ Unmixed(C, h, M)
    <3> HIDE DEF n
    <3>1. ASSUME NEW i \in 1 .. Len(C)
          PROVE  /\ C[i].pes \in 1 .. Len(S) /\ C[i].from < C[i].to
                 /\ C[i].pes # h => C[i].pes > h /\ <<C[i].pes, 0>> \in M
      <4>1. CASE i = n + 1
          BY <2>2, <2>3, <4>1
      <4>2. CASE i # n + 1
        <5>1. i \in 1 .. n /\ C[i] = B[i]
            BY <2>3, <4>2
        <5> QED BY <5>1 DEF PiecesOK, Unmixed, n
      <4> QED BY <4>1, <4>2
    <3> QED BY <3>1 DEF PiecesOK, Unmixed
  <2>5. ASSUME NEW f \in Nat, B = << [pes |-> k, from |-> f, to |-> from] >> PROVE FALSE
      BY <1>2, <2>5 DEF Last
  <2>6. C # <<>>
      BY <2>3
  <2> QED BY <2>3, <2>4, <2>5, <2>6 DEF Follows
<1> QED BY <1>1, <1>2

\* Any other packet: its bytes follow what was collected (the code appends the
\* payload to the buffer once a start was seen).
LEMMA DemuxContinues ==
    ASSUME NEW t, NEW S \in Seq(SampleRecords), S # <<>>, NEW p \in Nat, p # 0, NEW M \in SUBSET (Nat \X Nat),
           NEW st \in BOOLEAN, NEW h \in Nat, NEW B \in Seq(Pieces), NEW P \in Seq(PesPackets),
           NEW tb, SenderOK(t, S, p, M, tb), DemuxOK(t, S, p, M, st, h, B, P),
           NEW r \in Nat, p < r, NEW C, st => C = Extend(B, Len(S), p, r), ~ st => C = B
    PROVE  C \in Seq(Pieces) /\ DemuxOK(t, S, r, M, st, h, C, P)
<1> DEFINE n == Len(S)
<1>1. n \in Nat \ {0} /\ n \in 1 .. n /\ p < r /\ r \in Nat /\ r # 0
    OBVIOUS
<1>2. CASE ~ st
  <2>1. C = B
      BY <1>2
  <2> QED BY <1>2, <2>1 DEF DemuxOK
<1>3. CASE st
  <2>1. /\ h \in 1 .. n /\ Begun(S, M, h) /\ PiecesOK(B, S) /\ Unmixed(B, h, M)
        /\ \A i \in 1 .. Len(P) : P[i].pes < h
      BY <1>3 DEF DemuxOK
  <2>2. n # h => n > h /\ <<n, 0>> \in M
    <3> SUFFICES ASSUME n # h PROVE n > h /\ <<n, 0>> \in M
        OBVIOUS
    <3>1. h < n
        BY <1>1, <2>1
    <3>2. S[n].known
        BY <1>1, <2>1, <3>1 DEF SenderOK, Begun
    <3>3. ASSUME <<n, 0>> \notin M PROVE FALSE
      <4>1. Begun(S, M, n)
          BY <3>2, <3>3 DEF Begun
      <4>2. PICK i \in 1 .. Len(P) : P[i].pes = n
          BY <1>1, <3>1, <4>1 DEF DemuxOK
      <4> QED BY <2>1, <3>1, <4>2
    <3> QED BY <3>1, <3>3
  <2>3. C = Extend(B, n, p, r)
      BY <1>3
  <2>4. /\ C \in Seq(Pieces) /\ C # <<>> /\ PiecesOK(C, S) /\ Unmixed(C, h, M)
        /\ Follows(B, C, n, p, r)
    <3> HIDE DEF n
    <3>1. n = Len(S)
        BY DEF n
    <3>2. n \in 1 .. Len(S) /\ Len(S) \in Nat
        BY <1>1, <3>1
    <3> QED BY <2>1, <2>2, <2>3, <3>2, Extended
  <2>5. HeaderSize(S[n]) \in Nat
    <3>1. S[n] \in SampleRecords
        BY <1>1
    <3>2. HeaderSize(S[n]) \in {14, 19}
        BY <3>1, PesSizes
    <3> QED BY <3>2
  <2>6. Clean(M, h) /\ h = n => C = << [pes |-> h, from |-> HeaderSize(S[h]), to |-> r] >>
    <3> SUFFICES ASSUME Clean(M, h), h = n
                 PROVE  C = << [pes |-> h, from |-> HeaderSize(S[h]), to |-> r] >>
        OBVIOUS
    <3>1. B = << [pes |-> h, from |-> HeaderSize(S[h]), to |-> p] >>
        BY <1>3 DEF DemuxOK
    <3> QED BY <2>4, <2>5, <3>1 DEF Follows
  <2>7. /\ OutOK(t, S, M, P)
        /\ \A k \in 1 .. n : Begun(S, M, k) => k = h \/ \E i \in 1 .. Len(P) : P[i].pes = k
        /\ \A i \in 1 .. Len(P) : Clean(M, P[i].pes) /\ <<P[i].pes + 1, 0>> \notin M =>
                                      P[i].data = <<AllOf(t, S, P[i].pes)>>
      BY DEF DemuxOK
  <2>8. DemuxOK(t, S, r, M, st, h, C, P)
    <3>1. n = Len(S)
        OBVIOUS
    <3> HIDE DEF n
    <3> QED BY <1>1, <1>3, <2>1, <2>4, <2>6, <2>7, <3>1 DEF DemuxOK
  <2> QED BY <2>4, <2>8
<1> QED BY <1>2, <1>3

\* A packet is skipped: the demuxer has nothing, and its PES is no longer clean.
LEMMA DemuxSkips ==
    ASSUME NEW t, NEW S \in Seq(SampleRecords), S # <<>>, NEW p \in Nat, NEW M \in SUBSET (Nat \X Nat),
           NEW st \in BOOLEAN, NEW h \in Nat, NEW B \in Seq(Pieces), NEW P \in Seq(PesPackets),
           NEW tb, SenderOK(t, S, p, M, tb), DemuxOK(t, S, p, M, st, h, B, P),
           NEW T, p = 0 => \E b \in BOOLEAN : IsMarked(t, S, T, b), p # 0 => T = S,
           NEW r \in Nat, r # 0, NEW N, N = M \cup {<<Len(S), p>>}
    PROVE  DemuxOK(t, T, r, N, st, h, B, P)
<1> DEFINE n == Len(S)
<1>1. n \in Nat \ {0} /\ n \in 1 .. n /\ r # 0
    OBVIOUS
<1>2. /\ T \in Seq(SampleRecords) /\ Len(T) = n
      /\ \A k \in 1 .. n : /\ k # n => T[k] = S[k]
                           /\ AllOf(t, T, k) = AllOf(t, S, k)
      /\ p # 0 => T = S
  <2>1. CASE p = 0
      BY <2>1 DEF IsMarked
  <2>2. CASE p # 0
      BY <2>2
  <2> QED BY <2>1, <2>2
<1>3. M \subseteq N /\ <<n, p>> \in N
    OBVIOUS
<1>4. ASSUME NEW k \in 1 .. n PROVE Begun(T, N, k) <=> Begun(S, M, k)
  <2>1. CASE k # n
    <3>1. <<k, 0>> # <<n, p>>
        BY <2>1
    <3>2. T[k] = S[k] /\ (<<k, 0>> \in N <=> <<k, 0>> \in M)
        BY <1>2, <2>1, <3>1
    <3> QED BY <3>2 DEF Begun
  <2>2. CASE k = n /\ p = 0
    <3>1. ~ S[n].known
        BY <1>1, <2>2 DEF SenderOK
    <3> QED BY <1>3, <2>2, <3>1 DEF Begun
  <2>3. CASE k = n /\ p # 0
    <3>1. <<k, 0>> # <<n, p>> /\ T = S
        BY <1>2, <2>3
    <3> QED BY <3>1 DEF Begun
  <2> QED BY <2>1, <2>2, <2>3
<1>5. ~ st => h = 0 /\ B = <<>> /\ P = <<>>
    BY DEF DemuxOK
<1>6. st => /\ h \in 1 .. n /\ Begun(T, N, h) /\ B # <<>>
            /\ PiecesOK(B, T) /\ Unmixed(B, h, N)
    BY <1>2, <1>3, <1>4 DEF DemuxOK, PiecesOK, Unmixed
<1>7. OutOK(t, T, N, P) /\ \A i \in 1 .. Len(P) : P[i].pes < h /\ P[i].pes \in 1 .. n
  <2>1. OutOK(t, S, M, P)
      BY DEF DemuxOK
  <2>2. Len(S) <= Len(T)
      BY <1>1, <1>2
  <2>3. OutOK(t, T, N, P)
    <3> HIDE DEF n
    <3> QED BY <1>2, <1>3, <2>1, <2>2, OutKept
  <2> QED BY <2>1, <2>3 DEF DemuxOK, OutOK
<1>8. \A k \in 1 .. n : Begun(T, N, k) => k = h \/ \E i \in 1 .. Len(P) : P[i].pes = k
    BY <1>4 DEF DemuxOK
<1>9. \A i \in 1 .. Len(P) : Clean(N, P[i].pes) /\ <<P[i].pes + 1, 0>> \notin N =>
                                 P[i].data = <<AllOf(t, T, P[i].pes)>>
  <2> SUFFICES ASSUME NEW i \in 1 .. Len(P), Clean(N, P[i].pes), <<P[i].pes + 1, 0>> \notin N
               PROVE  P[i].data = <<AllOf(t, T, P[i].pes)>>
      OBVIOUS
  <2>1. Clean(M, P[i].pes) /\ <<P[i].pes + 1, 0>> \notin M
      BY <1>3 DEF Clean
  <2>2. P[i].data = <<AllOf(t, S, P[i].pes)>>
      BY <2>1 DEF DemuxOK
  <2> QED BY <1>2, <1>7, <2>2
<1>10. ~ (Clean(N, h) /\ h = n)
  <2>1. <<n, p>>[1] = n
      OBVIOUS
  <2> QED BY <1>3, <2>1 DEF Clean
<1> HIDE DEF n
<1> QED BY <1>1, <1>2, <1>5, <1>6, <1>7, <1>8, <1>9, <1>10 DEF DemuxOK

\* The segment ends: what was collected comes out (flush).
LEMMA DemuxEnds ==
    ASSUME NEW t, NEW S \in Seq(SampleRecords), NEW p \in Nat, NEW M \in SUBSET (Nat \X Nat),
           NEW st \in BOOLEAN, NEW h \in Nat, NEW B \in Seq(Pieces), NEW P \in Seq(PesPackets),
           NEW tb, SenderOK(t, S, p, M, tb), DemuxOK(t, S, p, M, st, h, B, P),
           NEW Q, Q = TakenOut(st, h, B, P)
    PROVE  Q \in Seq(PesPackets) /\ DoneOK(t, S, p, M, 0, <<>>, Q)
<1>1. CASE st
  <2>1. Append(P, [pes |-> h, data |-> B]) \in Seq(PesPackets)
        /\ OutWhole(t, S, p, M, Append(P, [pes |-> h, data |-> B]))
      BY <1>1, Collects
  <2>2. Q \in Seq(PesPackets) /\ OutWhole(t, S, p, M, Q)
      BY <1>1, <2>1 DEF TakenOut
  <2> QED BY <2>2 DEF DoneOK
<1>2. CASE ~ st
  <2>1. Q = <<>> /\ P = <<>> /\ h = 0 /\ OutOK(t, S, M, P)
      BY <1>2 DEF DemuxOK, TakenOut
  <2>2. \A k \in 1 .. Len(S) : ~ Begun(S, M, k)
      BY <2>1 DEF DemuxOK
  <2>3. OutWhole(t, S, p, M, Q)
      BY <2>1, <2>2 DEF OutWhole
  <2> QED BY <2>1, <2>3 DEF DoneOK
<1> QED BY <1>1, <1>2

-----------------------------------------------------------------------------
(* The invariant is inductive *)

\* Nothing is sent and the demuxer is new (TsDemuxer::new).
LEMMA TransportInit == Init => TransportInv
<1> SUFFICES ASSUME Init PROVE TransportInv
    OBVIOUS
<1>1. TypeInv
    BY BoundsAssumption DEF Init, TypeInv, NoHeader
<1>2. ASSUME NEW t \in Tracks PROVE TrackOK(t)
  <2>1. /\ sent[t] = <<>> /\ position[t] = 0 /\ malformed[t] = {} /\ phase = "sending"
        /\ started[t] = FALSE /\ header[t] = 0 /\ buffer[t] = <<>> /\ packets[t] = <<>>
      BY DEF Init, NoHeader
  <2>2. SenderOK(t, <<>>, 0, {}, tables) /\ TimesOK(<<>>)
      BY DEF SenderOK, TimesOK
  <2>3. DemuxOK(t, <<>>, 0, {}, FALSE, 0, <<>>, <<>>)
      BY DEF DemuxOK, OutOK, InOrder
  <2> QED BY <2>1, <2>2, <2>3 DEF TrackOK
<1> QED BY <1>1, <1>2 DEF TransportInv

\* No step of another track, and no table, disturbs what holds of a track.
LEMMA TrackKept ==
    ASSUME NEW t \in Tracks, TrackOK(t), phase' = phase, tables = "pmt" => tables' = "pmt",
           sent'[t] = sent[t], position'[t] = position[t], malformed'[t] = malformed[t],
           started'[t] = started[t], header'[t] = header[t], buffer'[t] = buffer[t],
           packets'[t] = packets[t]
    PROVE  TrackOK(t)'
<1>1. SenderOK(t, sent[t], position[t], malformed[t], tables')
    BY SenderTables DEF TrackOK
<1> QED BY <1>1 DEF TrackOK

\* The types of a track's fields.
LEMMA TrackTyped ==
    ASSUME TypeInv, NEW t \in Tracks
    PROVE  /\ sent[t] \in Seq(SampleRecords) /\ position[t] \in Nat
           /\ malformed[t] \in SUBSET (Nat \X Nat) /\ started[t] \in BOOLEAN
           /\ header[t] \in Nat /\ buffer[t] \in Seq(Pieces) /\ packets[t] \in Seq(PesPackets)
BY DEF TypeInv

\* A table comes.
LEMMA TablesStep ==
    ASSUME TransportInv, PushPat \/ PushPmt
    PROVE  TransportInv'
<1>1. /\ phase' = phase /\ tableCount' = tableCount + 1 /\ tableCount < MaxTables
      /\ tables' \in {"none", "pat", "pmt"} /\ (tables = "pmt" => tables' = "pmt")
      /\ UNCHANGED <<senderVars, demuxVars>>
    BY DEF PushPat, PushPmt, TransportInv, TypeInv
<1>2. /\ sent' = sent /\ position' = position /\ malformed' = malformed
      /\ started' = started /\ header' = header /\ buffer' = buffer /\ packets' = packets
    BY <1>1 DEF senderVars, demuxVars
<1>3. TypeInv'
    BY <1>1, <1>2, BoundsAssumption DEF TransportInv, TypeInv
<1>4. ASSUME NEW t \in Tracks PROVE TrackOK(t)'
    BY <1>1, <1>2, TrackKept DEF TransportInv
<1> QED BY <1>3, <1>4 DEF TransportInv

\* The next sample of the loop of mux_to_ts.
LEMMA StartStep ==
    ASSUME TransportInv, NEW t \in Tracks, StartSample(t)
    PROVE  TransportInv'
<1> DEFINE S == sent[t]
           p == position[t]
           M == malformed[t]
<1>1. TypeInv /\ TrackOK(t)
    BY DEF TransportInv
<1>2. /\ S \in Seq(SampleRecords) /\ p \in Nat /\ M \in SUBSET (Nat \X Nat)
      /\ started[t] \in BOOLEAN /\ header[t] \in Nat /\ buffer[t] \in Seq(Pieces)
      /\ packets[t] \in Seq(PesPackets)
    BY <1>1, TrackTyped
<1>3. /\ phase = "sending" /\ phase' = phase /\ tables' = tables /\ tableCount' = tableCount
      /\ malformed' = malformed /\ started' = started /\ header' = header
      /\ buffer' = buffer /\ packets' = packets /\ position' = [position EXCEPT ![t] = 0]
      /\ AllSent(t)
    BY DEF StartSample, demuxVars
<1> DEFINE time == IF S = <<>> THEN 0 ELSE Last(S).time + Last(S).duration
<1>4. PICK size \in Sizes, idr \in BOOLEAN, reordered \in BOOLEAN, duration \in SampleDurations(t) :
          sent' = [sent EXCEPT ![t] = Append(S, [size |-> size, idr |-> idr, reordered |-> reordered,
                                                 time |-> time, duration |-> duration, known |-> FALSE])]
    BY DEF StartSample
<1> DEFINE s == [size |-> size, idr |-> idr, reordered |-> reordered,
                 time |-> time, duration |-> duration, known |-> FALSE]
<1>5. time \in Nat
  <2>1. CASE S = <<>>
      BY <2>1
  <2>2. CASE S # <<>>
    <3>1. S[Len(S)] \in SampleRecords
        BY <1>2, <2>2
    <3>2. S[Len(S)].time \in Nat /\ S[Len(S)].duration \in Durations \cup {1024}
        BY <3>1 DEF SampleRecords
    <3>3. Durations \subseteq Nat /\ 1024 \in Nat
        BY SizesAssumption
    <3>4. S[Len(S)].duration \in Nat
      <4> DEFINE d == S[Len(S)].duration
      <4>1. d \in Durations \cup {1024}
          BY <3>2
      <4> HIDE DEF d
      <4>2. d \in Nat
          BY <3>3, <4>1
      <4> QED BY <4>2 DEF d
    <3> QED BY <2>2, <3>2, <3>4 DEF Last
  <2> QED BY <2>1, <2>2
<1>6. s \in SampleRecords /\ ~ s.known /\ s.time = time
  <2>1. duration \in Durations \cup {1024}
      BY DEF SampleDurations
  <2> HIDE DEF time
  <2> QED BY <1>5, <2>1 DEF SampleRecords
<1> HIDE DEF s
<1>7. sent' = [sent EXCEPT ![t] = Append(S, s)]
    BY <1>4 DEF s
<1>8. sent'[t] = Append(S, s) /\ \A u \in Tracks : u # t => sent'[u] = sent[u]
    BY <1>1, <1>7 DEF TypeInv
<1>9. position'[t] = 0 /\ \A u \in Tracks : u # t => position'[u] = position[u]
    BY <1>1, <1>3 DEF TypeInv
<1>10. TypeInv'
  <2>1. sent' \in [Tracks -> Seq(SampleRecords)]
    <3>1. Append(S, s) \in Seq(SampleRecords)
        BY <1>2, <1>6
    <3> QED BY <1>1, <1>7, <3>1 DEF TypeInv
  <2>2. position' \in [Tracks -> Nat]
      BY <1>1, <1>3 DEF TypeInv
  <2> QED BY <1>1, <1>3, <2>1, <2>2 DEF TypeInv
<1>11. S # <<>> => p = PesSize(t, S[Len(S)])
    BY <1>3 DEF AllSent, Last
<1>12. SenderOK(t, Append(S, s), 0, M, tables)
  <2>1. SenderOK(t, S, p, M, tables)
      BY <1>1 DEF TrackOK
  <2> HIDE DEF S, p, M
  <2> QED BY <1>2, <1>6, <1>11, <2>1, SenderStarts
<1>13. TimesOK(Append(S, s))
  <2>1. TimesOK(S)
      BY <1>1 DEF TrackOK
  <2>2. /\ Len(Append(S, s)) = Len(S) + 1 /\ Append(S, s)[Len(S) + 1] = s /\ Len(S) \in Nat
        /\ \A k \in 1 .. Len(S) : Append(S, s)[k] = S[k]
      BY <1>2
  <2>3. Append(S, s)[1].time = 0
    <3>1. CASE S = <<>>
        BY <1>6, <2>2, <3>1
    <3>2. CASE S # <<>>
        BY <1>2, <2>1, <2>2, <3>2 DEF TimesOK
    <3> QED BY <3>1, <3>2
  <2>4. ASSUME NEW k \in 2 .. Len(S) + 1
        PROVE  Append(S, s)[k].time = Append(S, s)[k - 1].time + Append(S, s)[k - 1].duration
    <3>1. k - 1 \in 1 .. Len(S) /\ Append(S, s)[k - 1] = S[k - 1]
        BY <2>2
    <3>2. CASE k = Len(S) + 1
      <4>1. S # <<>> /\ k - 1 = Len(S)
          BY <2>2, <3>1, <3>2
      <4> QED BY <1>6, <2>2, <3>1, <3>2, <4>1 DEF Last
    <3>3. CASE k # Len(S) + 1
      <4>1. k \in 2 .. Len(S) /\ k \in 1 .. Len(S)
          BY <2>2, <3>3
      <4> QED BY <2>1, <2>2, <3>1, <4>1 DEF TimesOK
    <3> QED BY <3>2, <3>3
  <2> HIDE DEF S
  <2> QED BY <2>2, <2>3, <2>4 DEF TimesOK
<1>14. DemuxOK(t, Append(S, s), 0, M, started[t], header[t], buffer[t], packets[t])
  <2>1. DemuxOK(t, S, p, M, started[t], header[t], buffer[t], packets[t])
      BY <1>1, <1>3 DEF TrackOK
  <2> HIDE DEF S, p, M
  <2> QED BY <1>2, <1>6, <1>11, <2>1, DemuxStarts
<1>15. TrackOK(t)'
    BY <1>3, <1>8, <1>9, <1>12, <1>13, <1>14 DEF TrackOK
<1>16. ASSUME NEW u \in Tracks, u # t PROVE TrackOK(u)'
    BY <1>3, <1>8, <1>9, <1>16, TrackKept DEF TransportInv
<1> QED BY <1>10, <1>15, <1>16 DEF TransportInv

\* The mark of the first packet leaves the times of the samples alone.
LEMMA TimesMarked ==
    ASSUME NEW t, NEW S \in Seq(SampleRecords), NEW T, NEW b, IsMarked(t, S, T, b), TimesOK(S)
    PROVE  TimesOK(T)
<1>1. /\ T \in Seq(SampleRecords) /\ Len(T) = Len(S)
      /\ \A k \in 1 .. Len(S) : T[k].time = S[k].time /\ T[k].duration = S[k].duration
    BY DEF IsMarked
<1>2. ASSUME NEW k \in 2 .. Len(T) PROVE T[k].time = T[k - 1].time + T[k - 1].duration
  <2>1. k \in 2 .. Len(S) /\ k \in 1 .. Len(S) /\ k - 1 \in 1 .. Len(S)
      BY <1>1
  <2> QED BY <1>1, <2>1 DEF TimesOK
<1>3. T # <<>> => T[1].time = 0
  <2> SUFFICES ASSUME T # <<>> PROVE T[1].time = 0
      OBVIOUS
  <2>1. S # <<>> /\ 1 \in 1 .. Len(S)
      BY <1>1
  <2> QED BY <1>1, <2>1 DEF TimesOK
<1> QED BY <1>2, <1>3 DEF TimesOK

\* The next packet of a track: how far it reaches, where it is read, and what is
\* marked of its sample.
LEMMA NextPacket ==
    ASSUME TransportInv, NEW t \in Tracks, ~ AllSent(t)
    PROVE  LET S == sent[t]
               p == position[t]
               l == NextLayout(t)
               b == tables = "pmt"
           IN  /\ S # <<>> /\ Len(S) \in Nat \ {0}
               /\ l.count \in Nat \ {0} /\ p + l.count <= PesSize(t, S[Len(S)])
               /\ l.at \in Nat /\ PayloadOffset(l) = l.at /\ PacketSize - l.at = l.count
               /\ p = 0 => HeaderSize(S[Len(S)]) < l.count
               /\ MarkKnown(t) \in [Tracks -> Seq(SampleRecords)]
               /\ \A u \in Tracks : u # t => MarkKnown(t)[u] = sent[u]
               /\ p = 0 => IsMarked(t, S, MarkKnown(t)[t], b)
               /\ MarkKnown(t)[t] = IF p = 0 THEN [S EXCEPT ![Len(S)].known = b] ELSE S
<1> DEFINE S == sent[t]
           p == position[t]
           n == Len(S)
           l == NextLayout(t)
           b == tables = "pmt"
<1>1. TypeInv /\ TrackOK(t)
    BY DEF TransportInv
<1>2. S \in Seq(SampleRecords) /\ p \in Nat
    BY <1>1, TrackTyped
<1>3. S # <<>> /\ p # PesSize(t, S[n])
    BY DEF AllSent, Last
<1>4. n \in Nat \ {0} /\ S[n] \in SampleRecords
    BY <1>2, <1>3
<1>5. p <= PesSize(t, S[n])
    BY <1>1, <1>3 DEF TrackOK, SenderOK
<1>6. /\ HeaderSize(S[n]) \in {14, 19} /\ PesSize(t, S[n]) \in Nat
      /\ HeaderSize(S[n]) < PesSize(t, S[n])
    BY <1>4, PesSizes
<1> DEFINE rai == p = 0 /\ S[n].idr
           rest == PesSize(t, S[n]) - p
<1>7. l = Layout(rai, rest)
    BY DEF NextLayout, Remaining, Last
<1>8. rai \in BOOLEAN /\ rest \in Nat \ {0}
  <2>1. S[n].idr \in BOOLEAN
      BY <1>4 DEF SampleRecords
  <2>2. rest \in Nat \ {0}
      BY <1>2, <1>3, <1>5, <1>6
  <2> QED BY <2>1, <2>2
<1>9. /\ l.at \in Nat /\ PayloadOffset(l) = l.at /\ PacketSize - l.at = l.count /\ l.count \in 1 .. rest
      /\ \A size \in {14, 19} : size < rest => size < l.count
  <2> HIDE DEF rai, rest, l
  <2> QED BY <1>7, <1>8, LayoutRead
<1>10. /\ l.count \in Nat \ {0} /\ p + l.count <= PesSize(t, S[n])
       /\ p = 0 => HeaderSize(S[n]) < l.count
  <2>1. l.count \in Nat \ {0} /\ l.count <= rest
      BY <1>8, <1>9
  <2>2. p + l.count <= PesSize(t, S[n])
      BY <1>2, <1>6, <2>1
  <2>3. p = 0 => HeaderSize(S[n]) < l.count
      BY <1>6, <1>9
  <2> QED BY <2>1, <2>2, <2>3
<1> HIDE DEF l, rai, rest
<1>11. b \in BOOLEAN
    OBVIOUS
<1>12. /\ MarkKnown(t) \in [Tracks -> Seq(SampleRecords)]
       /\ \A u \in Tracks : u # t => MarkKnown(t)[u] = sent[u]
       /\ p = 0 => IsMarked(t, S, MarkKnown(t)[t], b)
       /\ MarkKnown(t)[t] = IF p = 0 THEN [S EXCEPT ![n].known = b] ELSE S
  <2>1. CASE p = 0
    <3> DEFINE T == [S EXCEPT ![n].known = b]
    <3>1. MarkKnown(t) = [sent EXCEPT ![t] = T]
        BY <1>1, <2>1 DEF MarkKnown, Pes, TypeInv
    <3>2. IsMarked(t, S, T, b)
        BY <1>2, <1>3, <1>11, Marked
    <3> HIDE DEF T
    <3>3. T \in Seq(SampleRecords)
        BY <3>2 DEF IsMarked
    <3>4. /\ MarkKnown(t) \in [Tracks -> Seq(SampleRecords)] /\ MarkKnown(t)[t] = T
          /\ \A u \in Tracks : u # t => MarkKnown(t)[u] = sent[u]
        BY <1>1, <3>1, <3>3 DEF TypeInv
    <3> QED BY <2>1, <3>2, <3>4 DEF T
  <2>2. CASE p # 0
      BY <1>1, <2>2 DEF MarkKnown, TypeInv
  <2> QED BY <2>1, <2>2
<1> QED BY <1>3, <1>4, <1>9, <1>10, <1>12 DEF l

\* A packet is skipped for want of its sync byte (demux_segment).
LEMMA SkipStep ==
    ASSUME TransportInv, NEW t \in Tracks, SkipPacket(t)
    PROVE  TransportInv'
<1> DEFINE S == sent[t]
           p == position[t]
           M == malformed[t]
           c == NextLayout(t).count
           T == MarkKnown(t)[t]
           N == M \cup {<<Len(S), p>>}
           b == tables = "pmt"
<1>1. TypeInv /\ TrackOK(t)
    BY DEF TransportInv
<1>2. /\ S \in Seq(SampleRecords) /\ p \in Nat /\ M \in SUBSET (Nat \X Nat)
      /\ started[t] \in BOOLEAN /\ header[t] \in Nat /\ buffer[t] \in Seq(Pieces)
      /\ packets[t] \in Seq(PesPackets)
    BY <1>1, TrackTyped
<1>3. /\ ~ AllSent(t) /\ phase = "sending" /\ phase' = phase /\ tables' = tables
      /\ tableCount' = tableCount /\ sent' = MarkKnown(t)
      /\ malformed' = [malformed EXCEPT ![t] = N] /\ position' = [position EXCEPT ![t] = p + c]
      /\ started' = started /\ header' = header /\ buffer' = buffer /\ packets' = packets
    BY DEF SkipPacket, demuxVars, Pes
<1>4. /\ S # <<>> /\ c \in Nat \ {0} /\ p + c <= PesSize(t, S[Len(S)]) /\ Len(S) \in Nat
      /\ MarkKnown(t) \in [Tracks -> Seq(SampleRecords)]
      /\ \A u \in Tracks : u # t => MarkKnown(t)[u] = sent[u]
      /\ T = IF p = 0 THEN [S EXCEPT ![Len(S)].known = b] ELSE S
    BY <1>3, NextPacket
<1>5. p = 0 => IsMarked(t, S, T, b)
    BY <1>3, NextPacket
<1>6. N \in SUBSET (Nat \X Nat) /\ p + c \in Nat
    BY <1>2, <1>4
<1>7. TypeInv'
    BY <1>1, <1>3, <1>4, <1>6 DEF TypeInv
<1>8. /\ position'[t] = p + c /\ malformed'[t] = N /\ sent'[t] = T
      /\ \A u \in Tracks : u # t =>
            position'[u] = position[u] /\ malformed'[u] = malformed[u] /\ sent'[u] = sent[u]
    BY <1>1, <1>3, <1>4 DEF TypeInv
<1>9. SenderOK(t, S, p, M, tables) /\ TimesOK(S)
      /\ DemuxOK(t, S, p, M, started[t], header[t], buffer[t], packets[t])
    BY <1>1, <1>3 DEF TrackOK
<1> HIDE DEF S, p, M, c, T
<1>10. SenderOK(t, T, p + c, N, tables)
    BY <1>2, <1>4, <1>9, SenderAdvances
<1>11. TimesOK(T)
  <2>1. CASE p = 0
      BY <1>2, <1>5, <1>9, <2>1, TimesMarked
  <2>2. CASE p # 0
      BY <1>4, <1>9, <2>2
  <2> QED BY <2>1, <2>2
<1>12. DemuxOK(t, T, p + c, N, started[t], header[t], buffer[t], packets[t])
  <2>1. b \in BOOLEAN
      OBVIOUS
  <2>2. (p = 0 => \E a \in BOOLEAN : IsMarked(t, S, T, a)) /\ (p # 0 => T = S)
      BY <1>4, <1>5, <2>1
  <2>3. N = M \cup {<<Len(S), p>>}
      OBVIOUS
  <2>4. started[t] \in BOOLEAN /\ header[t] \in Nat /\ buffer[t] \in Seq(Pieces)
        /\ packets[t] \in Seq(PesPackets)
      BY <1>2
  <2> DEFINE st == started[t]
             h == header[t]
             B == buffer[t]
             P == packets[t]
  <2>5. /\ st \in BOOLEAN /\ h \in Nat /\ B \in Seq(Pieces) /\ P \in Seq(PesPackets)
        /\ DemuxOK(t, S, p, M, st, h, B, P)
      BY <1>9, <2>4
  <2> HIDE DEF b, N, st, h, B, P
  <2> DEFINE r == p + c
  <2>6. r \in Nat /\ r # 0
      BY <1>2, <1>4
  <2> HIDE DEF r
  <2>7. /\ S \in Seq(SampleRecords) /\ S # <<>> /\ p \in Nat /\ M \in SUBSET (Nat \X Nat)
        /\ SenderOK(t, S, p, M, tables)
      BY <1>2, <1>4, <1>9
  <2>8. DemuxOK(t, T, r, N, st, h, B, P)
      BY <2>2, <2>3, <2>5, <2>6, <2>7, DemuxSkips, ZenonT(60)
  <2> QED BY <2>8 DEF st, h, B, P, r
<1>13. TrackOK(t)'
  <2>1. phase' = "sending" /\ tables' = tables
      BY <1>3
  <2>2. started'[t] = started[t] /\ header'[t] = header[t] /\ buffer'[t] = buffer[t]
        /\ packets'[t] = packets[t]
      BY <1>3
  <2> HIDE DEF N
  <2> QED BY <1>8, <1>10, <1>11, <1>12, <2>1, <2>2 DEF TrackOK
<1>14. ASSUME NEW u \in Tracks, u # t PROVE TrackOK(u)'
    BY <1>3, <1>8, <1>14, TrackKept DEF TransportInv
<1> QED BY <1>7, <1>13, <1>14 DEF TransportInv

\* What the demuxer does with a packet that reaches from p to r (push_packet): its
\* fields of the other tracks stay, and those of this track go on being right.
PushedOK(t, T, r, M) ==
    /\ started' \in [Tracks -> BOOLEAN] /\ header' \in [Tracks -> Nat]
    /\ buffer' \in [Tracks -> Seq(Pieces)] /\ packets' \in [Tracks -> Seq(PesPackets)]
    /\ \A u \in Tracks : u # t => /\ started'[u] = started[u] /\ header'[u] = header[u]
                                 /\ buffer'[u] = buffer[u] /\ packets'[u] = packets[u]
    /\ DemuxOK(t, T, r, M, started'[t], header'[t], buffer'[t], packets'[t])

\* A packet of a PID without meaning yet.
LEMMA PushIgnored ==
    ASSUME TypeInv, NEW t \in Tracks, NEW S \in Seq(SampleRecords), S # <<>>, NEW p \in Nat,
           NEW M \in SUBSET (Nat \X Nat), SenderOK(t, S, p, M, tables),
           DemuxOK(t, S, p, M, started[t], header[t], buffer[t], packets[t]),
           tables # "pmt", NEW T, p = 0 => IsMarked(t, S, T, FALSE), p # 0 => T = S,
           NEW r \in Nat, p < r, UNCHANGED demuxVars
    PROVE  PushedOK(t, T, r, M)
<1> DEFINE st == started[t]
           h == header[t]
           B == buffer[t]
           P == packets[t]
<1>1. /\ S \in Seq(SampleRecords) /\ p \in Nat /\ M \in SUBSET (Nat \X Nat)
      /\ st \in BOOLEAN /\ h \in Nat /\ B \in Seq(Pieces) /\ P \in Seq(PesPackets)
    BY TrackTyped
<1>2. started' = started /\ header' = header /\ buffer' = buffer /\ packets' = packets
    BY DEF demuxVars
<1>3. DemuxOK(t, S, p, M, st, h, B, P)
    OBVIOUS
<1> HIDE DEF st, h, B, P
<1>4. DemuxOK(t, T, r, M, st, h, B, P)
  <2>1. CASE p = 0
    <3>1. SenderOK(t, S, 0, M, tables) /\ DemuxOK(t, S, 0, M, st, h, B, P)
        BY <1>3, <2>1
    <3> QED BY <1>1, <2>1, <3>1, DemuxIgnores
  <2>2. CASE p # 0
    <3>1. ~ st
        BY <1>3 DEF SenderOK, DemuxOK, Begun
    <3>2. (st => B = Extend(B, Len(S), p, r)) /\ (~ st => B = B)
        BY <3>1
    <3>3. DemuxOK(t, S, r, M, st, h, B, P)
        BY <1>1, <1>3, <2>2, <3>2, DemuxContinues
    <3> QED BY <2>2, <3>3
  <2> QED BY <2>1, <2>2
<1>5. DemuxOK(t, T, r, M, started'[t], header'[t], buffer'[t], packets'[t])
    BY <1>2, <1>4 DEF st, h, B, P
<1> QED BY <1>2, <1>5 DEF PushedOK, TypeInv

\* A packet that goes on with a PES.
LEMMA PushContinued ==
    ASSUME TypeInv, NEW t \in Tracks, NEW S \in Seq(SampleRecords), S # <<>>, NEW p \in Nat,
           NEW M \in SUBSET (Nat \X Nat), SenderOK(t, S, p, M, tables),
           DemuxOK(t, S, p, M, started[t], header[t], buffer[t], packets[t]),
           p # 0, NEW r \in Nat, p < r, PushContinuation(t, Len(S), p, r)
    PROVE  PushedOK(t, S, r, M)
<1> DEFINE st == started[t]
           h == header[t]
           B == buffer[t]
           P == packets[t]
           C == IF st THEN Extend(B, Len(S), p, r) ELSE B
<1>1. /\ S \in Seq(SampleRecords) /\ p \in Nat /\ M \in SUBSET (Nat \X Nat)
      /\ st \in BOOLEAN /\ h \in Nat /\ B \in Seq(Pieces) /\ P \in Seq(PesPackets)
    BY TrackTyped
<1>2. /\ started' = started /\ header' = header /\ packets' = packets
      /\ buffer' = [buffer EXCEPT ![t] = C]
    BY DEF PushContinuation
<1>3. DemuxOK(t, S, p, M, st, h, B, P) /\ (st => C = Extend(B, Len(S), p, r)) /\ (~ st => C = B)
    OBVIOUS
<1> HIDE DEF st, h, B, P, C
<1>4. C \in Seq(Pieces) /\ DemuxOK(t, S, r, M, st, h, C, P)
    BY <1>1, <1>3, DemuxContinues
<1>5. /\ buffer' \in [Tracks -> Seq(Pieces)] /\ buffer'[t] = C
      /\ \A u \in Tracks : u # t => buffer'[u] = buffer[u]
    BY <1>2, <1>4 DEF TypeInv
<1>6. DemuxOK(t, S, r, M, started'[t], header'[t], buffer'[t], packets'[t])
    BY <1>2, <1>4, <1>5 DEF st, h, P
<1> QED BY <1>2, <1>5, <1>6 DEF PushedOK, TypeInv

\* The first packet of a PES.
LEMMA PushStarted ==
    ASSUME TypeInv, NEW t \in Tracks, NEW S \in Seq(SampleRecords), S # <<>>,
           NEW M \in SUBSET (Nat \X Nat), SenderOK(t, S, 0, M, tables),
           DemuxOK(t, S, 0, M, started[t], header[t], buffer[t], packets[t]),
           NEW v \in BOOLEAN, v, NEW T, IsMarked(t, S, T, v), NEW r \in Nat, HeaderSize(S[Len(S)]) < r,
           HeaderSize(sent[t][Len(S)]) = HeaderSize(S[Len(S)]),
           PushStart(t, Len(S), 0, r)
    PROVE  PushedOK(t, T, r, M)
<1> DEFINE st == started[t]
           h == header[t]
           B == buffer[t]
           P == packets[t]
           n == Len(S)
           size == HeaderSize(S[n])
           q == [pes |-> h, data |-> B]
           Q == IF st THEN Append(P, q) ELSE P
           C == << [pes |-> n, from |-> size, to |-> r] >>
<1>1. /\ S \in Seq(SampleRecords) /\ M \in SUBSET (Nat \X Nat)
      /\ st \in BOOLEAN /\ h \in Nat /\ B \in Seq(Pieces) /\ P \in Seq(PesPackets)
    BY TrackTyped
<1>2. n \in Nat \ {0} /\ size \in {14, 19}
  <2>1. S[n] \in SampleRecords /\ n \in Nat \ {0}
      BY <1>1
  <2> QED BY <2>1, PesSizes
<1>3. DemuxOK(t, S, 0, M, st, h, B, P)
    OBVIOUS
<1>4. Complete(t) <=> st
  <2>1. st => B # <<>> /\ h # 0
      BY <1>3 DEF DemuxOK
  <2> QED BY <2>1 DEF Complete, NoHeader
<1>5. ~ st => B = <<>>
    BY <1>3 DEF DemuxOK
<1>6. (IF Complete(t) THEN <<>> ELSE buffer[t]) = <<>>
    BY <1>4, <1>5
<1>7. size \in Nat /\ 9 <= size /\ size < r
    BY <1>2
<1>8. (0 = 0 /\ r - 0 >= 9) /\ ~ (size >= r)
  <2> HIDE DEF size
  <2> QED BY <1>7
<1>9. Extend(<<>>, n, size, r) = C
    BY DEF Extend
<1>10. /\ started' = [started EXCEPT ![t] = TRUE]
       /\ header' = [header EXCEPT ![t] = n]
       /\ buffer' = [buffer EXCEPT ![t] = C]
       /\ packets' = [packets EXCEPT ![t] = Q]
  <2>1. started' = [started EXCEPT ![t] = TRUE]
      BY DEF PushStart
  <2>2. header' = [header EXCEPT ![t] = n]
      BY <1>8 DEF PushStart
  <2>3. buffer' = [buffer EXCEPT ![t] = Extend(<<>>, n, size, r)]
      BY <1>6, <1>8 DEF PushStart
  <2>4. packets' = [packets EXCEPT ![t] = Q]
      BY <1>4 DEF PushStart, Collected
  <2> QED BY <1>9, <2>1, <2>2, <2>3, <2>4
<1>11. Q = TakenOut(st, h, B, P)
    BY DEF TakenOut
<1>12. C = OnePiece(Len(S), HeaderSize(S[Len(S)]), r)
    BY DEF OnePiece
<1>19. /\ r \in Nat /\ SenderOK(t, S, 0, M, tables) /\ S # <<>>
       /\ IsMarked(t, S, T, v) /\ v \in BOOLEAN /\ v /\ HeaderSize(S[Len(S)]) < r
    OBVIOUS
<1> HIDE DEF st, h, B, P, Q, C, n, size
<1>13. C \in Seq(Pieces) /\ Q \in Seq(PesPackets) /\ DemuxOK(t, T, r, M, v, Len(S), C, Q)
  <2>1. Q \in Seq(PesPackets)
      BY <1>1, <1>11, TakenTyped
  <2>2. C \in Seq(Pieces)
      BY <1>2, <1>7, <1>12, OnePieceTyped DEF n, size
  <2>3. DemuxOK(t, T, r, M, v, Len(S), C, Q)
      BY <1>1, <1>3, <1>11, <1>12, <1>19, DemuxBegins
  <2> QED BY <2>1, <2>2, <2>3
<1>14. /\ started' \in [Tracks -> BOOLEAN] /\ started'[t] = v
       /\ \A u \in Tracks : u # t => started'[u] = started[u]
    BY <1>10 DEF TypeInv
<1>15. /\ header' \in [Tracks -> Nat] /\ header'[t] = n
       /\ \A u \in Tracks : u # t => header'[u] = header[u]
    BY <1>2, <1>10 DEF TypeInv
<1>16. /\ buffer' \in [Tracks -> Seq(Pieces)] /\ buffer'[t] = C
       /\ \A u \in Tracks : u # t => buffer'[u] = buffer[u]
    BY <1>10, <1>13 DEF TypeInv
<1>17. /\ packets' \in [Tracks -> Seq(PesPackets)] /\ packets'[t] = Q
       /\ \A u \in Tracks : u # t => packets'[u] = packets[u]
    BY <1>10, <1>13 DEF TypeInv
<1>18. DemuxOK(t, T, r, M, started'[t], header'[t], buffer'[t], packets'[t])
    BY <1>13, <1>14, <1>15, <1>16, <1>17 DEF n
<1> QED BY <1>14, <1>15, <1>16, <1>17, <1>18 DEF PushedOK

\* A packet is written, read and pushed.
LEMMA SendStep ==
    ASSUME TransportInv, NEW t \in Tracks, SendPacket(t)
    PROVE  TransportInv'
<1> DEFINE S == sent[t]
           p == position[t]
           M == malformed[t]
           l == NextLayout(t)
           c == l.count
           r == p + c
           T == MarkKnown(t)[t]
           b == tables = "pmt"
           skew == PayloadOffset(l) - l.at
           from == p + skew
           to == p + PacketSize - l.at
<1>1. TypeInv /\ TrackOK(t)
    BY DEF TransportInv
<1>2. S \in Seq(SampleRecords) /\ p \in Nat /\ M \in SUBSET (Nat \X Nat)
    BY <1>1, TrackTyped
<1>3. /\ ~ AllSent(t) /\ phase = "sending" /\ phase' = phase /\ tables' = tables
      /\ tableCount' = tableCount /\ sent' = MarkKnown(t) /\ malformed' = malformed
      /\ position' = [position EXCEPT ![t] = r]
    BY DEF SendPacket
<1>4. PushPacket(t, Len(S), p = 0, from, to)
    BY DEF SendPacket, Pes
<1>5. /\ S # <<>> /\ c \in Nat \ {0} /\ r <= PesSize(t, S[Len(S)]) /\ Len(S) \in Nat
      /\ l.at \in Nat /\ PayloadOffset(l) = l.at /\ PacketSize - l.at = c
      /\ p = 0 => HeaderSize(S[Len(S)]) < c
      /\ MarkKnown(t) \in [Tracks -> Seq(SampleRecords)]
      /\ \A u \in Tracks : u # t => MarkKnown(t)[u] = sent[u]
      /\ T = IF p = 0 THEN [S EXCEPT ![Len(S)].known = b] ELSE S
    BY <1>3, NextPacket
<1>6. p = 0 => IsMarked(t, S, T, b)
    BY <1>3, NextPacket
<1>7. from = p /\ to = r
  <2> HIDE DEF l, c, p
  <2> QED BY <1>2, <1>5 DEF PacketSize
<1>8. PushPacket(t, Len(S), p = 0, p, r)
    BY <1>4, <1>7
<1>9. SenderOK(t, S, p, M, tables) /\ TimesOK(S)
      /\ DemuxOK(t, S, p, M, started[t], header[t], buffer[t], packets[t])
    BY <1>1, <1>3 DEF TrackOK
<1>10. r \in Nat /\ p < r /\ b \in BOOLEAN
    BY <1>2, <1>5
<1>11. /\ position'[t] = r /\ sent'[t] = T /\ malformed'[t] = M
       /\ \A u \in Tracks : u # t => position'[u] = position[u] /\ sent'[u] = sent[u]
    BY <1>1, <1>3, <1>5 DEF TypeInv
<1>12. SenderOK(t, T, r, M, tables)
  <2> HIDE DEF S, p, M, c, T
  <2> QED BY <1>2, <1>5, <1>9, SenderAdvances
<1> HIDE DEF from, to, skew, l, c
<1>13. TimesOK(T)
  <2>1. CASE p = 0
    <3> HIDE DEF S, T, b
    <3> QED BY <1>2, <1>6, <1>9, <2>1, TimesMarked
  <2>2. CASE p # 0
      BY <1>5, <1>9, <2>2
  <2> QED BY <2>1, <2>2
<1>14. PushedOK(t, T, r, M)
  <2>1. CASE tables # "pmt"
    <3>1. UNCHANGED demuxVars
        BY <1>8, <2>1 DEF PushPacket
    <3>2. (p = 0 => IsMarked(t, S, T, FALSE)) /\ (p # 0 => T = S)
      <4>1. b = FALSE
          BY <2>1
      <4>2. p # 0 => T = S
          BY <1>5
      <4> HIDE DEF S, T, b
      <4> QED BY <1>6, <4>1, <4>2
    <3> HIDE DEF S, p, M, T, r
    <3> QED BY <1>1, <1>2, <1>5, <1>9, <1>10, <2>1, <3>1, <3>2, PushIgnored
  <2>2. CASE tables = "pmt" /\ p # 0
    <3>1. PushContinuation(t, Len(S), p, r)
        BY <1>8, <2>2 DEF PushPacket
    <3>2. T = S
        BY <1>5, <2>2
    <3> HIDE DEF S, p, M, T, r
    <3>3. PushedOK(t, S, r, M)
        BY <1>1, <1>2, <1>5, <1>9, <1>10, <2>2, <3>1, PushContinued
    <3> QED BY <3>2, <3>3
  <2>3. CASE tables = "pmt" /\ p = 0
    <3>1. PushStart(t, Len(S), 0, r)
        BY <1>8, <2>3 DEF PushPacket
    <3>2. IsMarked(t, S, T, b) /\ b
        BY <1>6, <2>3
    <3>3. HeaderSize(S[Len(S)]) < r
        BY <1>2, <1>5, <2>3
    <3>4. SenderOK(t, S, 0, M, tables)
          /\ DemuxOK(t, S, 0, M, started[t], header[t], buffer[t], packets[t])
        BY <1>9, <2>3
    <3>5. HeaderSize(sent[t][Len(S)]) = HeaderSize(S[Len(S)])
        OBVIOUS
    <3>6. b \in BOOLEAN
        BY <1>10
    <3> HIDE DEF S, p, M, T, r, b
    <3> QED BY <1>1, <1>2, <1>5, <1>10, <3>1, <3>2, <3>3, <3>4, <3>5, <3>6, PushStarted
  <2> QED BY <2>1, <2>2, <2>3
<1>15. TypeInv'
    BY <1>1, <1>3, <1>5, <1>10, <1>14 DEF TypeInv, PushedOK
<1>16. TrackOK(t)'
  <2>1. phase' = "sending" /\ tables' = tables
      BY <1>3
  <2>2. DemuxOK(t, T, r, M, started'[t], header'[t], buffer'[t], packets'[t])
      BY <1>14 DEF PushedOK
  <2> HIDE DEF S, p, M, T, r
  <2> QED BY <1>11, <1>12, <1>13, <2>1, <2>2 DEF TrackOK
<1>17. ASSUME NEW u \in Tracks, u # t PROVE TrackOK(u)'
  <2>1. /\ started'[u] = started[u] /\ header'[u] = header[u]
        /\ buffer'[u] = buffer[u] /\ packets'[u] = packets[u]
      BY <1>14, <1>17 DEF PushedOK
  <2>2. sent'[u] = sent[u] /\ position'[u] = position[u] /\ malformed'[u] = malformed[u]
      BY <1>3, <1>11, <1>17
  <2> QED BY <1>3, <2>1, <2>2, TrackKept DEF TransportInv
<1> QED BY <1>15, <1>16, <1>17 DEF TransportInv

\* The segment ends (flush).
LEMMA FlushStep ==
    ASSUME TransportInv, Flush
    PROVE  TransportInv'
<1>1. TypeInv
    BY DEF TransportInv
<1>2. /\ phase = "sending" /\ phase' = "done" /\ tables' = tables /\ tableCount' = tableCount
      /\ sent' = sent /\ position' = position /\ malformed' = malformed /\ started' = started
      /\ packets' = [t \in Tracks |-> IF Complete(t) THEN Append(packets[t], Collected(t))
                                      ELSE packets[t]]
      /\ buffer' = [t \in Tracks |-> <<>>] /\ header' = [t \in Tracks |-> 0]
    BY DEF Flush, senderVars, NoHeader
<1>3. ASSUME NEW t \in Tracks
      PROVE  packets'[t] \in Seq(PesPackets) /\ TrackOK(t)'
  <2> DEFINE S == sent[t]
             p == position[t]
             M == malformed[t]
             st == started[t]
             h == header[t]
             B == buffer[t]
             P == packets[t]
             Q == packets'[t]
  <2>1. TrackOK(t)
      BY DEF TransportInv
  <2>2. /\ S \in Seq(SampleRecords) /\ p \in Nat /\ M \in SUBSET (Nat \X Nat)
        /\ st \in BOOLEAN /\ h \in Nat /\ B \in Seq(Pieces) /\ P \in Seq(PesPackets)
      BY <1>1, TrackTyped
  <2>3. SenderOK(t, S, p, M, tables) /\ TimesOK(S) /\ DemuxOK(t, S, p, M, st, h, B, P)
      BY <1>2, <2>1 DEF TrackOK
  <2>4. Complete(t) <=> st
    <3>1. st => B # <<>> /\ h # 0
        BY <2>3 DEF DemuxOK
    <3> QED BY <3>1 DEF Complete, NoHeader
  <2>5. Q = TakenOut(st, h, B, P)
      BY <1>2, <2>4 DEF TakenOut, Collected
  <2>6. /\ buffer'[t] = <<>> /\ header'[t] = 0 /\ sent'[t] = S /\ position'[t] = p
        /\ malformed'[t] = M
      BY <1>2
  <2> HIDE DEF S, p, M, st, h, B, P, Q
  <2>7. Q \in Seq(PesPackets)
      BY <2>2, <2>5, TakenTyped
  <2>8. DoneOK(t, S, p, M, 0, <<>>, Q)
      BY <2>2, <2>3, <2>5, DemuxEnds
  <2>9. TrackOK(t)'
      BY <1>2, <2>3, <2>6, <2>8 DEF TrackOK, Q
  <2> QED BY <2>7, <2>9 DEF Q
<1>4. TypeInv'
  <2>1. packets' \in [Tracks -> Seq(PesPackets)]
      BY <1>2, <1>3
  <2>2. buffer' \in [Tracks -> Seq(Pieces)] /\ header' \in [Tracks -> Nat]
      BY <1>2
  <2> QED BY <1>1, <1>2, <2>1, <2>2 DEF TypeInv
<1> QED BY <1>3, <1>4 DEF TransportInv

\* Whatever order packets of the tracks and tables come in, and whichever are
\* skipped, the demuxer's fields of each track follow what was sent of it
\* (TsDemuxer::push_packet, flush).
THEOREM TransportInvariant == Spec => []TransportInv
<1>1. Init => TransportInv
    BY TransportInit
<1>2. TransportInv /\ [Next]_vars => TransportInv'
  <2> SUFFICES ASSUME TransportInv, [Next]_vars PROVE TransportInv'
      OBVIOUS
  <2>1. CASE UNCHANGED vars
      BY <2>1 DEF vars, senderVars, demuxVars, TransportInv, TypeInv, TrackOK
  <2>2. ASSUME NEW t \in Tracks, StartSample(t) PROVE TransportInv'
      BY <2>2, StartStep
  <2>3. ASSUME NEW t \in Tracks, SendPacket(t) PROVE TransportInv'
      BY <2>3, SendStep
  <2>4. ASSUME NEW t \in Tracks, SkipPacket(t) PROVE TransportInv'
      BY <2>4, SkipStep
  <2>5. CASE PushPat \/ PushPmt
      BY <2>5, TablesStep
  <2>6. CASE Flush
      BY <2>6, FlushStep
  <2> QED BY <2>1, <2>2, <2>3, <2>4, <2>5, <2>6 DEF Next
<1> QED BY <1>1, <1>2, PTL DEF Spec

-----------------------------------------------------------------------------
(* What follows from it *)

\* What has come out of a track is in order and unmixed at all times.
LEMMA OutAlways ==
    ASSUME TransportInv, NEW t \in Tracks
    PROVE  OutOK(t, sent[t], malformed[t], packets[t])
<1>1. TypeInv /\ TrackOK(t)
    BY DEF TransportInv
<1>2. CASE phase = "sending"
    BY <1>1, <1>2 DEF TrackOK, DemuxOK
<1>3. CASE phase = "done"
    BY <1>1, <1>3 DEF TrackOK, DoneOK, OutWhole
<1> QED BY <1>1, <1>2, <1>3 DEF TypeInv

LEMMA TypesHold == TransportInv => TypeOK
<1> SUFFICES ASSUME TransportInv PROVE TypeOK
    OBVIOUS
<1>1. TypeInv
    BY DEF TransportInv
<1>2. ASSUME NEW t \in Tracks
      PROVE  /\ sent[t] \in Seq(SampleRecords)
             /\ sent[t] # <<>> => position[t] \in 0 .. PesSize(t, Last(sent[t]))
             /\ malformed[t] \subseteq (1 .. Pes(t)) \X Nat
             /\ started[t] \in BOOLEAN /\ header[t] \in 0 .. Pes(t)
             /\ \A i \in 1 .. Len(buffer[t]) :
                 /\ buffer[t][i].pes \in 1 .. Pes(t)
                 /\ buffer[t][i].from < buffer[t][i].to
             /\ \A i \in 1 .. Len(packets[t]) : packets[t][i].pes \in 1 .. Pes(t)
  <2> DEFINE S == sent[t]
             p == position[t]
             M == malformed[t]
             st == started[t]
             h == header[t]
             B == buffer[t]
             P == packets[t]
  <2>1. /\ S \in Seq(SampleRecords) /\ p \in Nat /\ M \in SUBSET (Nat \X Nat)
        /\ st \in BOOLEAN /\ h \in Nat /\ B \in Seq(Pieces) /\ P \in Seq(PesPackets)
      BY <1>1, TrackTyped
  <2>2. TrackOK(t)
      BY DEF TransportInv
  <2>3. SenderOK(t, S, p, M, tables)
      BY <2>2 DEF TrackOK
  <2>4. S # <<>> => p \in 0 .. PesSize(t, Last(S))
    <3> SUFFICES ASSUME S # <<>> PROVE p \in 0 .. PesSize(t, Last(S))
        OBVIOUS
    <3>1. S[Len(S)] \in SampleRecords
        BY <2>1
    <3>2. PesSize(t, S[Len(S)]) \in Nat
        BY <3>1, PesSizes
    <3>3. p <= PesSize(t, S[Len(S)])
        BY <2>3 DEF SenderOK
    <3> QED BY <2>1, <3>2, <3>3 DEF Last
  <2>5. M \subseteq (1 .. Len(S)) \X Nat
    <3>1. \A m \in M : m[1] \in 1 .. Len(S)
        BY <2>3 DEF SenderOK
    <3> QED BY <2>1, <3>1
  <2>6. Len(S) \in Nat
      BY <2>1
  <2>7. h \in 0 .. Len(S) /\ PiecesOK(B, S)
    <3>1. CASE phase = "sending"
      <4>1. DemuxOK(t, S, p, M, st, h, B, P)
          BY <2>2, <3>1 DEF TrackOK
      <4>2. (st => h \in 1 .. Len(S) /\ PiecesOK(B, S)) /\ (~ st => h = 0 /\ B = <<>>)
          BY <4>1 DEF DemuxOK
      <4> HIDE DEF S, h, B, st
      <4>3. CASE st
          BY <2>6, <4>2, <4>3
      <4>4. CASE ~ st
          BY <2>6, <4>2, <4>4 DEF PiecesOK
      <4> QED BY <4>3, <4>4
    <3>2. CASE phase = "done"
      <4>1. h = 0 /\ B = <<>>
          BY <2>2, <3>2 DEF TrackOK, DoneOK
      <4> HIDE DEF S, h, B
      <4> QED BY <2>6, <4>1 DEF PiecesOK
    <3> QED BY <1>1, <3>1, <3>2 DEF TypeInv
  <2>8. \A i \in 1 .. Len(P) : P[i].pes \in 1 .. Len(S)
      BY OutAlways DEF OutOK
  <2> QED BY <2>1, <2>4, <2>5, <2>7, <2>8 DEF Pes, PiecesOK
<1> QED BY <1>1, <1>2 DEF TypeOK, TypeInv

\* The type invariant of the run, for samples and durations of every size, any
\* number of them and of tables and skipped packets.
THEOREM TransportTypeCorrect == Spec => []TypeOK
BY TransportInvariant, TypesHold, PTL

\* A PES none of whose packets was lost, nor the start of the next, comes out whole.
LEMMA ComesOutWhole ==
    ASSUME TransportInv, phase = "done", NEW t \in Tracks,
           NEW k \in 1 .. Pes(t), Undamaged(t, k)
    PROVE  \E i \in 1 .. Len(packets[t]) : packets[t][i] = Whole(t, k)
<1> DEFINE S == sent[t]
           p == position[t]
           M == malformed[t]
           P == packets[t]
<1>1. TypeInv /\ TrackOK(t)
    BY DEF TransportInv
<1>2. S \in Seq(SampleRecords) /\ M \in SUBSET (Nat \X Nat) /\ P \in Seq(PesPackets)
    BY <1>1, TrackTyped
<1>3. OutWhole(t, S, p, M, P)
    BY <1>1 DEF TrackOK, DoneOK
<1>4. /\ S[k].known /\ Clean(M, k) /\ (k < Len(S) => <<k + 1, 0>> \notin M)
      /\ k \in 1 .. Len(S)
    BY DEF Undamaged, Clean, StartLost, Pes
<1>5. k = Len(S) => p = PesSize(t, S[k])
  <2> SUFFICES ASSUME k = Len(S) PROVE p = PesSize(t, S[k])
      OBVIOUS
  <2>1. AllSent(t) /\ S # <<>>
      BY <1>2, <1>4 DEF Undamaged, Pes
  <2> QED BY <2>1 DEF AllSent, Last
<1>6. <<k, 0>> \notin M
  <2>1. <<k, 0>>[1] = k
      OBVIOUS
  <2> QED BY <1>4, <2>1 DEF Clean
<1> HIDE DEF S, p, M, P
<1>7. Begun(S, M, k)
    BY <1>4, <1>6 DEF Begun
<1>8. PICK i \in 1 .. Len(P) : P[i].pes = k
    BY <1>3, <1>4, <1>7 DEF OutWhole
<1>9. P[i].data = << AllOf(t, S, k) >>
    BY <1>3, <1>4, <1>5, <1>8 DEF OutWhole
<1>10. P[i] = [pes |-> k, data |-> << AllOf(t, S, k) >>]
  <2>1. P[i] \in PesPackets
      BY <1>2
  <2> QED BY <1>8, <1>9, <2>1 DEF PesPackets
<1> QED BY <1>10 DEF Whole, AllOf, S, P

LEMMA Reassembled == TransportInv => PesReassembled
<1> SUFFICES ASSUME TransportInv PROVE PesReassembled
    OBVIOUS
<1>1. NothingMixed
  <2> SUFFICES ASSUME NEW t \in Tracks, NEW i \in 1 .. Len(packets[t]),
                      NEW n \in 1 .. Len(packets[t][i].data),
                      packets[t][i].data[n].pes # packets[t][i].pes
               PROVE  /\ packets[t][i].data[n].pes > packets[t][i].pes
                      /\ StartLost(t, packets[t][i].data[n].pes)
      BY DEF NothingMixed
  <2>1. Unmixed(packets[t][i].data, packets[t][i].pes, malformed[t])
      BY OutAlways DEF OutOK
  <2> QED BY <2>1 DEF Unmixed, StartLost
<1>2. ASSUME phase = "done", NEW t \in Tracks, NEW k \in 1 .. Pes(t), Undamaged(t, k)
      PROVE  Cardinality({i \in 1 .. Len(packets[t]) : packets[t][i] = Whole(t, k)}) = 1
  <2> DEFINE P == packets[t]
             W == {i \in 1 .. Len(P) : P[i] = Whole(t, k)}
  <2>1. PICK i \in 1 .. Len(P) : P[i] = Whole(t, k)
      BY <1>2, ComesOutWhole
  <2>2. InOrder(P)
      BY OutAlways DEF OutOK
  <2>3. ASSUME NEW j \in W PROVE j = i
    <3>1. P[i].pes = k /\ P[j].pes = k
        BY <2>1 DEF Whole
    <3>2. ~ (i < j) /\ ~ (j < i)
        BY <2>2, <3>1 DEF InOrder
    <3> QED BY <3>2
  <2>4. W = {i}
      BY <2>1, <2>3
  <2>5. Cardinality({i}) = 1
      BY FS_Singleton
  <2> QED BY <2>4, <2>5
<1>3. ASSUME NEW t \in Tracks
      PROVE  \A i, j \in 1 .. Len(packets[t]) : i < j => packets[t][i].pes < packets[t][j].pes
    BY OutAlways DEF OutOK, InOrder
<1> QED BY <1>1, <1>2, <1>3 DEF PesReassembled

\* However packets of the tracks and the tables are interleaved, and whichever are
\* skipped: every undamaged PES comes out whole, once and in the order sent, and no
\* bytes under the header of another (push_packet, flush).
THEOREM PesAlwaysReassembled == Spec => []PesReassembled
BY TransportInvariant, Reassembled, PTL

-----------------------------------------------------------------------------
(* The fragment made of what came out *)

\* Numbers that grow, lie in 1 .. n and leave none of it out are 1, 2, ... n.
LEMMA OrderedOnto ==
    ASSUME NEW n \in Nat, NEW P, NEW l \in Nat, l = Len(P),
           \A i \in 1 .. l : P[i].pes \in 1 .. n,
           InOrder(P), \A k \in 1 .. n : \E i \in 1 .. l : P[i].pes = k
    PROVE  l = n /\ \A i \in 1 .. l : P[i].pes = i
<1> DEFINE Off == {i \in 1 .. l : P[i].pes # i}
<1>1. ASSUME Off # {} PROVE FALSE
  <2>1. Off \subseteq Nat
      OBVIOUS
  <2>2. PICK i \in Off : \A j \in Off : i <= j
    <3> HIDE DEF Off
    <3> QED BY <1>1, <2>1, LeastNatural
  <2>3. i \in 1 .. l /\ P[i].pes # i /\ P[i].pes \in 1 .. n
      OBVIOUS
  <2>4. ASSUME NEW j \in 1 .. l, j < i PROVE P[j].pes = j
    <3>1. ~ (i <= j)
        BY <2>3, <2>4
    <3>2. j \notin Off
        BY <2>2, <3>1
    <3> QED BY <3>2
  <2>5. CASE P[i].pes < i
    <3> DEFINE v == P[i].pes
    <3>1. v \in 1 .. l /\ v < i
        BY <2>3, <2>5
    <3>2. P[v].pes = v
        BY <2>4, <3>1
    <3>3. P[v].pes < P[i].pes
        BY <2>3, <3>1 DEF InOrder
    <3> QED BY <2>3, <3>2, <3>3
  <2>6. CASE P[i].pes > i
    <3>1. i \in 1 .. n
        BY <2>3, <2>6
    <3>2. PICK j \in 1 .. l : P[j].pes = i
        BY <3>1
    <3>3. ~ (j < i)
        BY <2>3, <2>4, <3>2
    <3>4. j # i
        BY <2>3, <3>2
    <3>5. i < j
        BY <2>3, <3>3, <3>4
    <3>6. P[i].pes < P[j].pes
        BY <2>3, <3>5 DEF InOrder
    <3> QED BY <2>3, <2>6, <3>2, <3>6
  <2> QED BY <2>3, <2>5, <2>6
<1>2. \A i \in 1 .. l : P[i].pes = i
    BY <1>1
<1>3. l = n
  <2>1. CASE l > n
    <3>1. n + 1 \in 1 .. l
        BY <2>1
    <3> QED BY <1>2, <3>1
  <2>2. CASE l < n
    <3>1. PICK j \in 1 .. l : P[j].pes = n
        BY <2>2
    <3> QED BY <1>2, <2>2, <3>1
  <2> QED BY <2>1, <2>2
<1> QED BY <1>2, <1>3

\* When nothing was skipped and the tables came first, what came out is what was
\* sent, PES by PES.
LEMMA AllOut ==
    ASSUME TransportInv, phase = "done", NEW t \in Tracks, Intact(t)
    PROVE  /\ Len(packets[t]) = Pes(t)
           /\ \A i \in 1 .. Pes(t) : packets[t][i] = Whole(t, i)
<1> DEFINE P == packets[t]
           n == Pes(t)
<1>1. TypeInv
    BY DEF TransportInv
<1>2. sent[t] \in Seq(SampleRecords) /\ P \in Seq(PesPackets)
    BY <1>1, TrackTyped
<1>3. n \in Nat /\ Len(P) \in Nat
    BY <1>2 DEF Pes
<1>4. \A k \in 1 .. n : Undamaged(t, k)
    BY DEF Intact, Undamaged, StartLost
<1>5. \A k \in 1 .. n : \E i \in 1 .. Len(P) : P[i] = Whole(t, k)
    BY <1>4, ComesOutWhole
<1>6. \A k : Whole(t, k).pes = k
    BY DEF Whole
<1>7. InOrder(P) /\ \A i \in 1 .. Len(P) : P[i].pes \in 1 .. n
    BY OutAlways DEF OutOK, Pes
<1>8. \A k \in 1 .. n : \E i \in 1 .. Len(P) : P[i].pes = k
    BY <1>5, <1>6
<1>9. Len(P) = n /\ \A i \in 1 .. Len(P) : P[i].pes = i
  <2> HIDE DEF P, n
  <2> QED BY <1>3, <1>7, <1>8, OrderedOnto
<1>10. ASSUME NEW i \in 1 .. n PROVE P[i] = Whole(t, i)
  <2>1. PICK j \in 1 .. Len(P) : P[j] = Whole(t, i)
      BY <1>5
  <2>2. P[j].pes = i /\ P[j].pes = j
      BY <1>6, <1>9, <2>1
  <2> QED BY <2>1, <2>2
<1> QED BY <1>9, <1>10

\* The bytes of a PES that came out whole, without what build_video_fragment and
\* build_audio_fragment take away, are those of the sample.
LEMMA WholeSize ==
    ASSUME TypeInv, NEW t \in Tracks, t \in {"video", "audio"}, NEW k \in 1 .. Pes(t)
    PROVE  SampleSize(t, Whole(t, k)) = sent[t][k].size
<1> DEFINE s == sent[t][k]
           p == Whole(t, k)
           bytes == [i \in 1 .. Len(p.data) |-> p.data[i].to - p.data[i].from]
           a == HeaderSize(s)
           z == PesSize(t, s)
<1>1. s \in SampleRecords
    BY TrackTyped DEF Pes
<1>2. a \in Nat /\ z \in Nat /\ a < z
  <2>1. a \in {14, 19} /\ z \in Nat /\ a < z
      BY <1>1, PesSizes
  <2> QED BY <2>1
<1>3. /\ p.pes = k /\ Len(p.data) = 1
      /\ p.data[1].to = z /\ p.data[1].from = a
    BY DEF Whole
<1>4. z - a = StreamSize(t, s)
  <2>1. s.size \in Nat
    <3>1. s.size \in Sizes
        BY <1>1 DEF SampleRecords
    <3> QED BY <3>1, SizesAssumption
  <2>2. StreamSize(t, s) \in Nat
      BY <2>1, BoundsAssumption DEF StreamSize, AdtsHeader
  <2> HIDE DEF s
  <2> QED BY <1>2, <2>2 DEF PesSize
<1> HIDE DEF p, a, z
<1>5. DOMAIN bytes = 1 .. 1 /\ bytes[1] = z - a
    BY <1>3
<1>6. SumUpTo(bytes, 1) = z - a
  <2> DEFINE f == [i \in 0 .. 1 |-> IF i = 0 THEN 0 ELSE z - a]
  <2> HIDE DEF bytes
  <2>1. z - a \in Nat
      BY <1>2
  <2>2. IsSum(f, bytes, 1)
      BY <1>5, <2>1 DEF IsSum
  <2>3. f[1] = z - a
      OBVIOUS
  <2> HIDE DEF f
  <2> QED BY <2>2, <2>3, SumUpToIsSum
<1>7. SampleSize(t, p) = (z - a) - (IF t = "audio" THEN AdtsHeader
                                     ELSE IF s.idr THEN ParamSetSize ELSE 0)
    BY <1>3, <1>6 DEF SampleSize
<1>8. s.size \in Nat /\ ParamSetSize \in Nat
  <2>1. s.size \in Sizes
      BY <1>1 DEF SampleRecords
  <2> QED BY <2>1, SizesAssumption, BoundsAssumption
<1> HIDE DEF s
<1>9. SampleSize(t, p) = s.size
    BY <1>4, <1>7, <1>8 DEF StreamSize, AdtsHeader
<1> QED BY <1>9 DEF p, s

LEMMA SamplesSame == TransportInv => SamplesKept
<1> SUFFICES ASSUME TransportInv, phase = "done", NEW t \in Tracks, Intact(t)
             PROVE  /\ Len(packets[t]) = Pes(t)
                    /\ \A i \in 1 .. Pes(t) :
                        /\ FragmentSamples(t)[i].size = sent[t][i].size
                        /\ FragmentSamples(t)[i].sync = sent[t][i].idr
    BY DEF SamplesKept
<1>1. TypeInv
    BY DEF TransportInv
<1>2. Len(packets[t]) = Pes(t) /\ \A i \in 1 .. Pes(t) : packets[t][i] = Whole(t, i)
    BY AllOut
<1>3. ASSUME NEW i \in 1 .. Pes(t)
      PROVE  FragmentSamples(t)[i].size = sent[t][i].size
             /\ FragmentSamples(t)[i].sync = sent[t][i].idr
  <2>1. /\ FragmentSamples(t)[i].size = SampleSize(t, packets[t][i])
        /\ FragmentSamples(t)[i].sync = sent[t][packets[t][i].pes].idr
      BY <1>2 DEF FragmentSamples
  <2>2. packets[t][i] = Whole(t, i) /\ packets[t][i].pes = i
      BY <1>2 DEF Whole
  <2>3. t \in {"video", "audio"}
      BY TracksAssumption
  <2>4. SampleSize(t, packets[t][i]) = sent[t][i].size
      BY <1>1, <2>2, <2>3, WholeSize
  <2> QED BY <2>1, <2>2, <2>4
<1> QED BY <1>2, <1>3

\* A fragment that went to TS whole and back has as many samples, of the same sizes
\* and with the same sync samples (transmux_to_cmaf).
THEOREM SamplesAlwaysKept == Spec => []SamplesKept
BY TransportInvariant, SamplesSame, PTL

\* Times of samples that follow each other do not decrease.
LEMMA TimesGrow ==
    ASSUME NEW S \in Seq(SampleRecords), TimesOK(S)
    PROVE  \A k \in 1 .. Len(S) : S[k].time <= S[Len(S)].time
<1> DEFINE n == Len(S)
           Late == {j \in 1 .. n : ~ (S[n - j + 1].time <= S[n].time)}
<1>1. n \in Nat
    OBVIOUS
<1>2. \A k \in 1 .. n : S[k].time \in Nat /\ S[k].duration \in Nat
  <2> SUFFICES ASSUME NEW k \in 1 .. n PROVE S[k].time \in Nat /\ S[k].duration \in Nat
      OBVIOUS
  <2>1. S[k] \in SampleRecords
      OBVIOUS
  <2> DEFINE d == S[k].duration
  <2>2. S[k].time \in Nat /\ d \in Durations \cup {1024}
      BY <2>1 DEF SampleRecords
  <2>3. Durations \subseteq Nat
      BY SizesAssumption
  <2> HIDE DEF d
  <2>4. d \in Nat
      BY <2>2, <2>3
  <2> QED BY <2>2, <2>4 DEF d
<1>3. ASSUME Late # {} PROVE FALSE
  <2>1. Late \subseteq Nat
      OBVIOUS
  <2>2. PICK j \in Late : \A i \in Late : j <= i
    <3> HIDE DEF Late
    <3> QED BY <1>3, <2>1, LeastNatural
  <2>3. j \in 1 .. n /\ ~ (S[n - j + 1].time <= S[n].time)
      OBVIOUS
  <2>4. j # 1
    <3> SUFFICES ASSUME j = 1 PROVE FALSE
        OBVIOUS
    <3>1. n - j + 1 = n /\ n \in 1 .. n
        BY <1>1, <2>3
    <3>2. S[n].time \in Nat
        BY <1>2, <3>1
    <3> HIDE DEF n
    <3> QED BY <2>3, <3>1, <3>2
  <2>5. j - 1 \in 1 .. n /\ ~ (j <= j - 1) /\ n - (j - 1) + 1 = n - j + 2
      BY <1>1, <2>3, <2>4
  <2>6. S[n - j + 2].time <= S[n].time
      BY <2>2, <2>5
  <2>7. n - j + 2 \in 2 .. n /\ (n - j + 2) - 1 = n - j + 1 /\ n - j + 1 \in 1 .. n
        /\ n - j + 2 \in 1 .. n /\ n \in 1 .. n
      BY <1>1, <2>3, <2>4
  <2>8. S[n - j + 2].time = S[n - j + 1].time + S[n - j + 1].duration
      BY <2>7 DEF TimesOK
  <2>9. /\ S[n - j + 1].time \in Nat /\ S[n - j + 1].duration \in Nat
        /\ S[n].time \in Nat /\ S[n - j + 2].time \in Nat
      BY <1>2, <2>7
  <2> DEFINE a == S[n - j + 1].time
             b == S[n - j + 1].duration
             c == S[n - j + 2].time
             z == S[n].time
  <2>10. ~(a <= z) /\ c <= z /\ c = a + b /\ a \in Nat /\ b \in Nat /\ c \in Nat /\ z \in Nat
      BY <2>3, <2>6, <2>8, <2>9
  <2> HIDE DEF a, b, c, z, Late, n
  <2> QED BY <2>10
<1>4. ASSUME NEW k \in 1 .. n PROVE S[k].time <= S[n].time
  <2>1. n - k + 1 \in 1 .. n /\ n - (n - k + 1) + 1 = k
      BY <1>1
  <2>2. n - k + 1 \notin Late
      BY <1>3
  <2> QED BY <2>1, <2>2
<1> QED BY <1>4

\* Rounding to another clock keeps the order of times (rescale_time).
LEMMA RescaleMonotone ==
    ASSUME NEW a \in Nat, NEW b \in Nat, a <= b
    PROVE  /\ RescaleTime(a) \in Nat /\ RescaleTime(b) \in Nat
           /\ RescaleTime(a) <= RescaleTime(b)
<1> DEFINE x == a * Clock
           y == b * Clock
           p == x \div Timescale
           q == y \div Timescale
<1>1. Clock \in Nat \ {0} /\ Timescale \in Nat \ {0}
    BY TimeAssumption
<1>2. x \in Nat /\ y \in Nat /\ x <= y
  <2>1. b - a \in Nat /\ (b - a) * Clock \in Nat /\ b * Clock = a * Clock + (b - a) * Clock
      BY <1>1
  <2>2. x \in Nat
      BY <1>1
  <2> QED BY <2>1, <2>2
<1> HIDE DEF x, y
<1>3. p \in Nat /\ q \in Nat /\ p <= q
  <2>1. x \div Timescale \in Nat /\ y \div Timescale \in Nat
      BY <1>1, <1>2
  <2>2. /\ Timescale * (x \div Timescale) <= x
        /\ y < Timescale * (y \div Timescale) + Timescale
      BY <1>1, <1>2
  <2>3. ASSUME q + 1 <= p PROVE FALSE
    <3>1. Timescale * (q + 1) <= Timescale * p
      <4>1. p - (q + 1) \in Nat
          BY <2>1, <2>3
      <4>2. Timescale * (p - (q + 1)) \in Nat
          BY <1>1, <4>1
      <4>3. Timescale * p = Timescale * (q + 1) + Timescale * (p - (q + 1))
          BY <1>1, <2>1
      <4>4. Timescale * (q + 1) \in Nat
          BY <1>1, <2>1
      <4> QED BY <4>2, <4>3, <4>4
    <3>2. Timescale * (q + 1) = Timescale * q + Timescale
        BY <1>1, <2>1
    <3> QED BY <1>1, <1>2, <2>1, <2>2, <3>1, <3>2
  <2> QED BY <2>1, <2>3
<1> QED BY <1>3 DEF RescaleTime, x, y

LEMMA RescaleZero == RescaleTime(0) = 0
BY TimeAssumption DEF RescaleTime

LEMMA TimesSame == TransportInv => DecodeTimesKept
<1> SUFFICES ASSUME TransportInv, phase = "done", "video" \in Tracks, Intact("video"),
                    NEW i \in 1 .. Pes("video"),
                    RescaleTime(Last(sent["video"]).time) < TimeModulus
             PROVE  FragmentTime(i) = RescaleTime(sent["video"][i].time)
    BY DEF DecodeTimesKept
<1> DEFINE S == sent["video"]
           P == packets["video"]
           n == Len(S)
           r(k) == RescaleTime(S[k].time)
           e == [k \in 1 .. i - 1 |-> FragmentSamples("video")[k].duration]
<1>1. TypeInv /\ TrackOK("video") /\ S \in Seq(SampleRecords)
    BY TrackTyped DEF TransportInv
<1>2. n \in Nat /\ i \in 1 .. n /\ Pes("video") = n
    BY <1>1 DEF Pes
<1>3. TimesOK(S)
    BY <1>1 DEF TrackOK
<1>4. Len(P) = n /\ \A k \in 1 .. n : P[k].pes = k
  <2>1. Len(P) = Pes("video") /\ \A k \in 1 .. Pes("video") : P[k] = Whole("video", k)
      BY AllOut
  <2>2. \A k : Whole("video", k).pes = k
      BY DEF Whole
  <2> HIDE DEF P, n
  <2> QED BY <1>2, <2>1, <2>2
<1>5. \A k \in 1 .. n : S[k].time \in Nat /\ S[k].duration \in Nat
  <2> SUFFICES ASSUME NEW k \in 1 .. n PROVE S[k].time \in Nat /\ S[k].duration \in Nat
      OBVIOUS
  <2>1. S[k] \in SampleRecords
      BY <1>1
  <2> DEFINE d == S[k].duration
  <2>2. S[k].time \in Nat /\ d \in Durations \cup {1024}
      BY <2>1 DEF SampleRecords
  <2>3. Durations \subseteq Nat
      BY SizesAssumption
  <2> HIDE DEF d
  <2>4. d \in Nat
      BY <2>2, <2>3
  <2> QED BY <2>2, <2>4 DEF d
<1>6. \A k \in 1 .. n : r(k) \in Nat /\ DecodeTime("video", k) = r(k)
  <2> SUFFICES ASSUME NEW k \in 1 .. n PROVE r(k) \in Nat /\ DecodeTime("video", k) = r(k)
      OBVIOUS
  <2>1. S[k].time <= S[n].time /\ r(n) < TimeModulus /\ n \in 1 .. n
      BY <1>1, <1>2, <1>3, TimesGrow DEF Last
  <2> DEFINE x == r(k)
  <2>2. x \in Nat /\ x < TimeModulus /\ TimeModulus \in Nat \ {0}
    <3>1. r(k) \in Nat /\ r(n) \in Nat /\ r(k) <= r(n)
        BY <1>5, <2>1, RescaleMonotone
    <3> HIDE DEF r
    <3> QED BY <2>1, <3>1, TimeAssumption
  <2> HIDE DEF x
  <2>3. x % TimeModulus = x
      BY <2>2
  <2> QED BY <2>2, <2>3 DEF x, DecodeTime
<1>7. ASSUME NEW k \in 1 .. i - 1
      PROVE  r(k) \in Nat /\ r(k + 1) \in Nat /\ e[k] \in Nat /\ r(k + 1) = r(k) + e[k]
  <2>1. k \in 1 .. n /\ k + 1 \in 2 .. n /\ k + 1 \in 1 .. n /\ (k + 1) - 1 = k /\ k < n
      BY <1>2
  <2>2. S[k + 1].time = S[k].time + S[k].duration
      BY <1>3, <2>1 DEF TimesOK
  <2>3. e[k] = VideoDuration(P, k)
      BY <1>4, <2>1 DEF FragmentSamples
  <2>4. VideoDuration(P, k) = Minus(r(k + 1), r(k))
      BY <1>4, <1>6, <2>1 DEF VideoDuration
  <2>5. S[k].time \in Nat /\ S[k].duration \in Nat
      BY <1>5, <2>1
  <2>6. r(k) \in Nat /\ r(k + 1) \in Nat /\ r(k) <= r(k + 1)
    <3>1. S[k + 1].time \in Nat /\ S[k].time <= S[k + 1].time
        BY <2>2, <2>5
    <3> QED BY <2>5, <3>1, RescaleMonotone
  <2> HIDE DEF r
  <2>7. Minus(r(k + 1), r(k)) \in Nat /\ r(k + 1) = r(k) + Minus(r(k + 1), r(k))
      BY <2>6 DEF Minus
  <2> QED BY <2>3, <2>4, <2>6, <2>7
<1> DEFINE f == [k \in 0 .. i - 1 |-> r(k + 1)]
<1>8. IsSum(f, e, i - 1)
  <2>1. i - 1 \in Nat
      BY <1>2
  <2>2. f \in [0 .. i - 1 -> Nat]
    <3>1. ASSUME NEW k \in 0 .. i - 1 PROVE r(k + 1) \in Nat
        BY <1>2, <1>6, k + 1 \in 1 .. n
    <3> QED BY <3>1
  <2>3. f[0] = 0
    <3>1. S # <<>> /\ f[0] = r(1)
        BY <1>1, <1>2
    <3> QED BY <1>3, <3>1, RescaleZero DEF TimesOK
  <2>4. ASSUME NEW k \in 1 .. i - 1 PROVE f[k] = f[k - 1] + e[k]
    <3>1. f[k] = r(k + 1) /\ f[k - 1] = r(k)
        BY <1>2
    <3> QED BY <1>7, <3>1
  <2> HIDE DEF f, e
  <2> QED BY <2>2, <2>3, <2>4 DEF IsSum
<1>9. f[i - 1] = r(i)
    BY <1>2
<1>10. SumUpTo(e, i - 1) = r(i)
  <2>1. i - 1 \in Nat
      BY <1>2
  <2> HIDE DEF f, e
  <2> QED BY <1>8, <1>9, <2>1, SumUpToIsSum
<1>11. DecodeTime("video", P[1].pes) = 0
  <2>1. 1 \in 1 .. n /\ P[1].pes = 1 /\ S # <<>>
      BY <1>1, <1>2, <1>4
  <2> QED BY <1>3, <1>6, <2>1, RescaleZero DEF TimesOK
<1>12. r(i) \in Nat
    BY <1>2, <1>6
<1>13. FragmentTime(i) = 0 + SumUpTo(e, i - 1)
    BY <1>11 DEF FragmentTime
<1> QED BY <1>10, <1>12, <1>13

\* Each video sample is decoded when it was, its time rounded to the clock of the
\* stream (rescale_time), as long as the 33-bit clock does not
\* wrap inside the segment: the durations are differences of decode times, and
\* tfdt and the durations before a sample add up to its own (build_video_fragment).
THEOREM DecodeTimesAlwaysKept == Spec => []DecodeTimesKept
BY TransportInvariant, TimesSame, PTL

=============================================================================
