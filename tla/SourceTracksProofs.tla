------------------------- MODULE SourceTracksProofs -------------------------
(***************************************************************************)
(* Proofs about the tracks of a source that ManifestReader takes apart.    *)
(* The variants and renditions of a master playlist are those it lists,    *)
(* where RFC 3986 has them.  Of an MPD, which sandbox.rs takes apart as    *)
(* text, the searches find the elements as they were written; each set is  *)
(* taken for what it is; and the manifest made for a track is that of an   *)
(* MPD with the one set, so that the parser reads it (ManifestReaderProofs)*)
(* and its absolute URLs are those the set's files have in the source.     *)
(***************************************************************************)
EXTENDS ManifestReaderProofs

-----------------------------------------------------------------------------
(* Lists that grow by one *)

\* Two lists that agree but for one item more at the end.
GrowsByOne(u, v, n) ==
    /\ n \in Nat /\ u = [i \in 1..n |-> u[i]] /\ v = [i \in 1..n + 1 |-> v[i]]
    /\ \A i \in 1..n : v[i] = u[i]

\* The list with one item more is the one it had, and the item.
LEMMA OneMore == ASSUME NEW u, NEW v, NEW n, GrowsByOne(u, v, n) PROVE v = Append(u, v[n + 1])
<1> USE DEF GrowsByOne
<1> DEFINE y == v[n + 1]
           w == Append(u, y)
<1> HIDE DEF y
<1>1. IsList(u) /\ Len(u) = n
    BY FunctionIsList
<1>2. IsList(w) /\ Len(w) = n + 1 /\ w[n + 1] = y /\ \A i \in 1..n : w[i] = u[i]
    BY <1>1, AppendIsList
<1> HIDE DEF w
<1>3. w = [i \in 1..n + 1 |-> w[i]]
    BY <1>1, <1>2 DEF IsList
<1>4. ASSUME NEW i \in 1..n + 1 PROVE v[i] = w[i]
  <2>1. CASE i \in 1..n
      BY <1>2, <2>1
  <2>2. CASE i = n + 1
      BY <1>2, <2>2 DEF y
  <2> QED BY <2>1, <2>2
<1>5. v = w
    BY <1>3, <1>4
<1> QED BY <1>5 DEF w, y

\* The largest of a list, and the last of them: max_by_key.
LEMMA LargestExists ==
    ASSUME NEW n \in Nat, NEW b, \A i \in 1..n : b[i] \in Nat
    PROVE  n # 0 => \E i \in 1..n : \A j \in 1..n : b[j] <= b[i]
<1> DEFINE T == {k \in 0..n : k # 0 => \E i \in 1..k : \A j \in 1..k : b[j] <= b[i]}
<1>1. 0 \in T
    OBVIOUS
<1>2. ASSUME NEW k \in 0..n, k < n, k \in T PROVE k + 1 \in T
  <2>1. k + 1 \in 1..n /\ 1..k + 1 = (1..k) \union {k + 1} /\ b[k + 1] \in Nat
      BY <1>2
  <2>2. CASE k = 0
      BY <2>1, <2>2
  <2>3. CASE k # 0
    <3>1. PICK i \in 1..k : \A j \in 1..k : b[j] <= b[i]
        BY <1>2, <2>3
    <3>2. b[i] \in Nat /\ \A j \in 1..k : b[j] \in Nat
        BY <2>1, <3>1
    <3>3. CASE b[k + 1] <= b[i]
        BY <2>1, <3>1, <3>3
    <3>4. CASE b[i] <= b[k + 1]
        BY <2>1, <3>1, <3>2, <3>4
    <3> QED BY <2>1, <3>2, <3>3, <3>4
  <2> QED BY <2>2, <2>3
<1> HIDE DEF T
<1>3. \A k \in 0..n : k \in T
    BY <1>1, <1>2, CountUp
<1> QED BY <1>3 DEF T

\* max_by_key over the variants.
LEMMA PrimaryIsLargest ==
    ASSUME NEW variants, IsList(variants), variants # <<>>,
           \A i \in 1..Len(variants) : variants[i].bandwidth \in Nat
    PROVE  /\ Primary(variants) \in 1..Len(variants)
           /\ Largest(variants[Primary(variants)], variants)
<1> DEFINE n == Len(variants)
           b == [i \in 1..n |-> variants[i].bandwidth]
           best == {i \in 1..n : \A j \in 1..n : variants[j].bandwidth <= variants[i].bandwidth}
<1>1. n \in Nat /\ n # 0
    BY DEF IsList
<1>2. best # {}
  <2>1. \A i \in 1..n : b[i] \in Nat
      OBVIOUS
  <2>2. \E i \in 1..n : \A j \in 1..n : b[j] <= b[i]
    <3> HIDE DEF b, n
    <3> QED BY <1>1, <2>1, LargestExists
  <2> QED BY <2>2
<1>3. \E i \in best : \A j \in best : j <= i
  <2>1. best \subseteq 0..n
      BY <1>1
  <2> HIDE DEF best
  <2>2. Max(best) \in best /\ \A k \in best : k <= Max(best)
      BY <1>1, <1>2, <2>1, MaxOfBounded
  <2> QED BY <2>2
<1>4. Primary(variants) = CHOOSE i \in best : \A j \in best : j <= i
    BY DEF Primary
<1>5. Primary(variants) \in best
  <2> HIDE DEF best
  <2> QED BY <1>3, <1>4
<1> QED BY <1>5 DEF Largest

-----------------------------------------------------------------------------
(* The renditions of a master playlist *)

\* The URLs of those that have one.
Present(renditions) == Chosen(renditions, {r \in 1..Len(renditions) : renditions[r].present})
UrlsOf(renditions) == [r \in 1..Len(Present(renditions)) |-> Present(renditions)[r].url]
\* The URLs a playlist's renditions of some types have by RFC 3986.
RenditionUrls(base, lines, types) ==
    [r \in 1..Len(Renditions(lines, types)) |-> Rfc(base, Renditions(lines, types)[r].uri.url)]

LEMMA UrlsNext ==
    ASSUME NEW S, NEW renditions \in Seq(S), NEW x \in S
    PROVE  UrlsOf(Append(renditions, x)) =
               IF x.present THEN Append(UrlsOf(renditions), x.url) ELSE UrlsOf(renditions)
<1> DEFINE r == Append(renditions, x)
           I == {i \in 1..Len(renditions) : renditions[i].present}
           J == {i \in 1..Len(r) : r[i].present}
           s == Chosen(renditions, I)
<1>1. /\ Len(renditions) \in Nat /\ Len(r) = Len(renditions) + 1 /\ r[Len(renditions) + 1] = x
      /\ \A i \in 1..Len(renditions) : r[i] = renditions[i]
    OBVIOUS
<1>2. Present(renditions) = s /\ Present(r) = Chosen(r, J)
    BY DEF Present
<1>3. Chosen(r, J) = IF Len(renditions) + 1 \in J THEN Append(Chosen(renditions, J), x) ELSE Chosen(renditions, J)
  <2> HIDE DEF J
  <2> QED BY ChosenOfAppend
<1>4. \A i \in 1..Len(renditions) : i \in J <=> i \in I
    BY <1>1
<1>5. Len(renditions) + 1 \in J <=> x.present
    BY <1>1
<1>6. s \in Seq(S)
  <2> HIDE DEF I
  <2> QED BY ChosenType
<1> HIDE DEF I, J
<1>7. Chosen(renditions, J) = s
    BY <1>4, ChosenAgree
<1> HIDE DEF s, r
<1>8. CASE x.present
  <2>1. Present(r) = Append(s, x)
      BY <1>2, <1>3, <1>5, <1>7, <1>8
  <2> DEFINE u == UrlsOf(renditions)
             v == UrlsOf(r)
             w == Append(s, x)
             n == Len(s)
  <2>2. n \in Nat /\ w[n + 1] = x /\ Len(w) = n + 1 /\ \A i \in 1..n : w[i] = s[i]
      BY <1>6
  <2>3. u = [i \in 1..n |-> u[i]] /\ \A i \in 1..n : u[i] = s[i].url
      BY <1>2 DEF UrlsOf
  <2>4. v = [i \in 1..Len(w) |-> v[i]] /\ \A i \in 1..Len(w) : v[i] = w[i].url
      BY <2>1 DEF UrlsOf
  <2> HIDE DEF u, v, w, n
  <2>5. v[n + 1] = x.url
    <3>1. n + 1 \in 1..Len(w)
        BY <2>2
    <3> QED BY <2>2, <2>4, <3>1
  <2>6. ASSUME NEW i \in 1..n PROVE v[i] = u[i]
    <3>1. i \in 1..Len(w)
        BY <2>2
    <3> QED BY <2>2, <2>3, <2>4, <3>1
  <2>7. GrowsByOne(u, v, n)
      BY <2>2, <2>3, <2>4, <2>6 DEF GrowsByOne
  <2>8. v = Append(u, v[n + 1])
      BY <2>7, OneMore
  <2> QED BY <1>8, <2>5, <2>8 DEF u, v, r
<1>9. CASE ~ x.present
  <2>1. Present(r) = Present(renditions)
      BY <1>2, <1>3, <1>5, <1>7, <1>9
  <2> QED BY <1>9, <2>1 DEF UrlsOf, r
<1> QED BY <1>8, <1>9

IsListed(x, types) == x.tag = "MEDIA" /\ x.type \in types /\ x.uri.present

LEMMA RenditionsNext ==
    ASSUME NEW S, NEW lines \in Seq(S), NEW x \in S, NEW base, NEW types
    PROVE  RenditionUrls(base, Append(lines, x), types) =
               IF IsListed(x, types) THEN Append(RenditionUrls(base, lines, types), Rfc(base, x.uri.url))
               ELSE RenditionUrls(base, lines, types)
<1> DEFINE r == Append(lines, x)
           I == {i \in 1..Len(lines) : lines[i].tag = "MEDIA" /\ lines[i].type \in types /\ lines[i].uri.present}
           J == {i \in 1..Len(r) : r[i].tag = "MEDIA" /\ r[i].type \in types /\ r[i].uri.present}
           s == Chosen(lines, I)
<1>1. /\ Len(lines) \in Nat /\ Len(r) = Len(lines) + 1 /\ r[Len(lines) + 1] = x
      /\ \A i \in 1..Len(lines) : r[i] = lines[i]
    OBVIOUS
<1>2. Renditions(lines, types) = s /\ Renditions(r, types) = Chosen(r, J)
    BY DEF Renditions
<1>3. Chosen(r, J) = IF Len(lines) + 1 \in J THEN Append(Chosen(lines, J), x) ELSE Chosen(lines, J)
  <2> HIDE DEF J
  <2> QED BY ChosenOfAppend
<1>4. \A i \in 1..Len(lines) : i \in J <=> i \in I
    BY <1>1
<1>5. Len(lines) + 1 \in J <=> IsListed(x, types)
    BY <1>1 DEF IsListed
<1>6. s \in Seq(S)
  <2> HIDE DEF I
  <2> QED BY ChosenType
<1> HIDE DEF I, J
<1>7. Chosen(lines, J) = s
    BY <1>4, ChosenAgree
<1> HIDE DEF s, r
<1> DEFINE u == RenditionUrls(base, lines, types)
           v == RenditionUrls(base, r, types)
<1>8. CASE IsListed(x, types)
  <2>1. Renditions(r, types) = Append(s, x)
      BY <1>2, <1>3, <1>5, <1>7, <1>8
  <2>2. Len(s) \in Nat /\ Append(s, x)[Len(s) + 1] = x /\ Len(Append(s, x)) = Len(s) + 1
        /\ \A i \in 1..Len(s) : Append(s, x)[i] = s[i]
      BY <1>6
  <2>3. u = [i \in 1..Len(s) |-> u[i]] /\ \A i \in 1..Len(s) : u[i] = Rfc(base, s[i].uri.url)
      BY <1>2 DEF RenditionUrls
  <2>4. /\ v = [i \in 1..Len(Append(s, x)) |-> v[i]]
        /\ \A i \in 1..Len(Append(s, x)) : v[i] = Rfc(base, Append(s, x)[i].uri.url)
      BY <2>1 DEF RenditionUrls
  <2> HIDE DEF u, v
  <2>5. v[Len(s) + 1] = Rfc(base, x.uri.url) /\ \A i \in 1..Len(s) : v[i] = u[i]
      BY <2>2, <2>3, <2>4
  <2>6. GrowsByOne(u, v, Len(s))
      BY <2>2, <2>3, <2>4, <2>5 DEF GrowsByOne
  <2>7. v = Append(u, v[Len(s) + 1])
      BY <2>6, OneMore
  <2> QED BY <1>8, <2>5, <2>7 DEF u, v, r
<1>9. CASE ~ IsListed(x, types)
  <2>1. Renditions(r, types) = Renditions(lines, types)
      BY <1>2, <1>3, <1>5, <1>7, <1>9
  <2> QED BY <1>9, <2>1 DEF RenditionUrls, r
<1> QED BY <1>8, <1>9

-----------------------------------------------------------------------------
(* The variants of a master playlist *)

\* The variants with the URLs they have by RFC 3986.
VariantUrls(base, lines) ==
    [v \in 1..Len(MasterVariants(lines)) |->
        [bandwidth |-> MasterVariants(lines)[v].bandwidth, url |-> Rfc(base, MasterVariants(lines)[v].uri)]]
IsIntroduced(lines, i) == \E e \in 1..i - 1 : Introduces(lines, e, i)
IsIntroducer(lines, b) == \E e \in 1..Len(lines) : Introduces(lines, e, Len(lines) + 1) /\ lines[e].bandwidth = b

\* Only the last STREAM-INF introduces.
LEMMA OneIntroducer ==
    ASSUME NEW lines, NEW i \in Nat, NEW d \in 1..i - 1, NEW e \in 1..i - 1,
           Introduces(lines, d, i), Introduces(lines, e, i)
    PROVE  d = e
<1>1. CASE d < e
  <2>1. e \in d + 1..i - 1
      BY <1>1
  <2> QED BY <2>1 DEF Introduces
<1>2. CASE e < d
  <2>1. d \in e + 1..i - 1
      BY <1>2
  <2> QED BY <2>1 DEF Introduces
<1> QED BY <1>1, <1>2

\* One more line.
IntroducedAlike(r, lines) ==
    \A i \in 1..Len(lines) + 1 : \A e \in 1..i - 1 : Introduces(r, e, i) <=> Introduces(lines, e, i)

LEMMA IntroducedKept ==
    ASSUME NEW lines, NEW r, NEW x, Extends(r, lines, x)
    PROVE  IntroducedAlike(r, lines)
<1> SUFFICES ASSUME NEW i \in 1..Len(lines) + 1, NEW e \in 1..i - 1
             PROVE  Introduces(r, e, i) <=> Introduces(lines, e, i)
    BY DEF IntroducedAlike
<1>1. \A j \in 1..i - 1 : r[j] = lines[j]
    BY DEF Extends
<1>2. \A k \in e + 1..i - 1 : k \in 1..i - 1
    BY DEF Extends
<1> QED BY <1>1, <1>2 DEF Introduces

IntroducesNow(r, lines, x) ==
    \A b : /\ x.tag \notin {"STREAM-INF", "URI"} => (IsIntroducer(r, b) <=> IsIntroducer(lines, b))
           /\ x.tag = "STREAM-INF" => (IsIntroducer(r, b) <=> b = x.bandwidth)
           /\ x.tag = "URI" => ~ IsIntroducer(r, b)

LEMMA IntroducerNext ==
    ASSUME NEW lines, NEW r, NEW x, Extends(r, lines, x)
    PROVE  IntroducesNow(r, lines, x)
<1> DEFINE n == Len(lines)
           Ends(s, e, m) == /\ s[e].tag = "STREAM-INF"
                            /\ \A k \in e + 1..m : s[k].tag \notin {"STREAM-INF", "URI"}
<1> SUFFICES ASSUME NEW b
             PROVE  /\ x.tag \notin {"STREAM-INF", "URI"} => (IsIntroducer(r, b) <=> IsIntroducer(lines, b))
                    /\ x.tag = "STREAM-INF" => (IsIntroducer(r, b) <=> b = x.bandwidth)
                    /\ x.tag = "URI" => ~ IsIntroducer(r, b)
    BY DEF IntroducesNow
<1>1. n \in Nat /\ Len(r) = n + 1 /\ r[n + 1] = x /\ \A j \in 1..n : r[j] = lines[j]
    BY DEF Extends
<1>2. IsIntroducer(lines, b) <=> \E e \in 1..n : Ends(lines, e, n) /\ lines[e].bandwidth = b
  <2>1. (n + 1) - 1 = n
      BY <1>1
  <2> QED BY <2>1 DEF IsIntroducer, Introduces
<1>3. IsIntroducer(r, b) <=> \E e \in 1..n + 1 : Ends(r, e, n + 1) /\ r[e].bandwidth = b
  <2>1. (Len(r) + 1) - 1 = n + 1
      BY <1>1
  <2> QED BY <1>1, <2>1 DEF IsIntroducer, Introduces
<1>4. Ends(r, n + 1, n + 1) <=> x.tag = "STREAM-INF"
  <2>1. (n + 1) + 1..n + 1 = {}
      BY <1>1
  <2> QED BY <1>1, <2>1
<1>5. ASSUME NEW e \in 1..n
      PROVE  /\ Ends(r, e, n + 1) <=> Ends(lines, e, n) /\ x.tag \notin {"STREAM-INF", "URI"}
             /\ r[e] = lines[e]
  <2>1. e + 1..n + 1 = (e + 1..n) \union {n + 1} /\ \A k \in e + 1..n : r[k] = lines[k]
      BY <1>1
  <2>2. r[e] = lines[e]
      BY <1>1
  <2> HIDE DEF n
  <2> QED BY <1>1, <2>1, <2>2
<1>6. 1..n + 1 = (1..n) \union {n + 1}
    BY <1>1
<1> HIDE DEF n, Ends
<1>7. IsIntroducer(r, b) <=> \/ x.tag = "STREAM-INF" /\ x.bandwidth = b
                             \/ IsIntroducer(lines, b) /\ x.tag \notin {"STREAM-INF", "URI"}
    BY <1>1, <1>2, <1>3, <1>4, <1>5, <1>6
<1> QED BY <1>7

LEMMA VariantBandwidth ==
    ASSUME NEW lines, NEW i \in Nat, NEW e \in 1..i - 1, Introduces(lines, e, i)
    PROVE  VariantAt(lines, i) = [bandwidth |-> lines[e].bandwidth, uri |-> lines[i].uri]
<1> DEFINE d == CHOOSE d \in 1..i - 1 : Introduces(lines, d, i)
<1>1. d \in 1..i - 1 /\ Introduces(lines, d, i)
    OBVIOUS
<1>2. VariantAt(lines, i) = [bandwidth |-> lines[d].bandwidth, uri |-> lines[i].uri]
    BY DEF VariantAt
<1> HIDE DEF d
<1>3. d = e
    BY <1>1, OneIntroducer
<1> QED BY <1>2, <1>3

VariantIn(lines, i) == IF IsVariant(lines, i) THEN << VariantAt(lines, i) >> ELSE <<>>

LEMMA VariantsAlike ==
    ASSUME NEW lines, NEW r, NEW x, Extends(r, lines, x), NEW i \in 1..Len(lines)
    PROVE  VariantIn(r, i) = VariantIn(lines, i)
<1>1. \A e \in 1..i - 1 : Introduces(r, e, i) <=> Introduces(lines, e, i)
  <2>1. i \in 1..Len(lines) + 1
      BY DEF Extends
  <2> QED BY <2>1, IntroducedKept DEF IntroducedAlike
<1>2. i \in Nat /\ r[i] = lines[i] /\ \A e \in 1..i - 1 : r[e] = lines[e]
    BY DEF Extends
<1>3. IsVariant(r, i) <=> IsVariant(lines, i)
    BY <1>1, <1>2 DEF IsVariant
<1>4. CASE IsVariant(lines, i)
  <2>1. PICK e \in 1..i - 1 : Introduces(lines, e, i)
      BY <1>4 DEF IsVariant
  <2>2. VariantAt(lines, i) = [bandwidth |-> lines[e].bandwidth, uri |-> lines[i].uri]
      BY <1>2, <2>1, VariantBandwidth
  <2>3. VariantAt(r, i) = [bandwidth |-> r[e].bandwidth, uri |-> r[i].uri]
      BY <1>1, <1>2, <2>1, VariantBandwidth
  <2> QED BY <1>2, <1>3, <2>1, <2>2, <2>3 DEF VariantIn
<1>5. CASE ~ IsVariant(lines, i)
    BY <1>3, <1>5 DEF VariantIn
<1> QED BY <1>4, <1>5

LEMMA VariantsNext ==
    ASSUME NEW lines, NEW r, NEW x, Extends(r, lines, x)
    PROVE  /\ IsList(MasterVariants(lines))
           /\ MasterVariants(r) = Joined(MasterVariants(lines), VariantIn(r, Len(lines) + 1))
<1> DEFINE n == Len(lines)
           S == {VariantAt(r, i) : i \in 1..n + 1}
           ss == [i \in 1..n |-> VariantIn(lines, i)]
           tt == [i \in 1..n + 1 |-> VariantIn(r, i)]
<1>1. n \in Nat /\ Len(r) = n + 1
    BY DEF Extends
<1>2. ASSUME NEW i \in 1..n + 1 PROVE VariantIn(r, i) \in Seq(S)
  <2> DEFINE v == VariantAt(r, i)
  <2>1. v \in S
      OBVIOUS
  <2> HIDE DEF v, S
  <2>2. << v >> \in Seq(S) /\ <<>> \in Seq(S)
      BY <2>1
  <2> QED BY <2>2 DEF VariantIn, v
<1>3. \A i \in 1..n : VariantIn(r, i) = VariantIn(lines, i)
    BY VariantsAlike
<1>4. MasterVariants(lines) = FlattenSeq(ss) /\ MasterVariants(r) = FlattenSeq(tt)
    BY <1>1 DEF MasterVariants, VariantIn
<1> HIDE DEF S
<1>5. ss \in Seq(Seq(S)) /\ tt[n + 1] \in Seq(S)
    BY <1>1, <1>2, <1>3
<1>6. GrowsByOne(ss, tt, n)
    BY <1>1, <1>3 DEF GrowsByOne
<1>7. tt[n + 1] = VariantIn(r, n + 1)
    BY <1>1
<1> HIDE DEF ss, tt
<1>8. tt = Append(ss, tt[n + 1])
    BY <1>6, OneMore
<1>9. MasterVariants(r) = Joined(FlattenSeq(ss), tt[n + 1])
    BY <1>4, <1>5, <1>8, FlattenOfAppend
<1>10. IsList(FlattenSeq(ss))
  <2>1. FlattenSeq(ss) \in Seq(S)
      BY <1>5, FlattenType
  <2> QED BY <2>1, SeqIsList, Zenon
<1> QED BY <1>4, <1>7, <1>9, <1>10

VariantUrlsNow(base, r, lines, x) ==
    /\ x.tag # "URI" => VariantUrls(base, r) = VariantUrls(base, lines)
    /\ x.tag = "URI" /\ (\A b : ~ IsIntroducer(lines, b)) => VariantUrls(base, r) = VariantUrls(base, lines)
    /\ \A b : x.tag = "URI" /\ IsIntroducer(lines, b) =>
          /\ IsVariant(r, Len(r))
          /\ VariantUrls(base, r) = Append(VariantUrls(base, lines), [bandwidth |-> b, url |-> Rfc(base, x.uri)])

LEMMA VariantUrlsNext ==
    ASSUME NEW base, NEW lines, NEW r, NEW x, Extends(r, lines, x)
    PROVE  VariantUrlsNow(base, r, lines, x)
<1> DEFINE n == Len(lines)
           a == MasterVariants(lines)
           z == MasterVariants(r)
           part == VariantIn(r, n + 1)
<1>1. n \in Nat /\ Len(r) = n + 1 /\ r[n + 1] = x /\ \A i \in 1..n : r[i] = lines[i]
    BY DEF Extends
<1>2. IsList(a) /\ z = Joined(a, part)
    BY VariantsNext
<1>3. \A e \in 1..n : Introduces(r, e, n + 1) <=> Introduces(lines, e, n + 1)
  <2>1. (n + 1) - 1 = n /\ n + 1 \in 1..n + 1
      BY <1>1
  <2> QED BY <2>1, IntroducedKept DEF IntroducedAlike
<1>4. IsVariant(r, n + 1) <=> x.tag = "URI" /\ \E b : IsIntroducer(lines, b)
  <2>1. (n + 1) - 1 = n
      BY <1>1
  <2> QED BY <1>1, <1>3, <2>1 DEF IsVariant, IsIntroducer
<1>5. CASE ~ IsVariant(r, n + 1)
  <2>1. part = <<>>
      BY <1>5 DEF VariantIn
  <2>2. Joined(a, <<>>) = a
    <3>1. a \in Seq(Range(a))
        BY <1>2 DEF IsList
    <3> QED BY <3>1 DEF Joined
  <2>3. z = a
      BY <1>2, <2>1, <2>2
  <2> HIDE DEF part
  <2>4. VariantUrls(base, r) = VariantUrls(base, lines)
      BY <2>3 DEF VariantUrls
  <2> QED BY <1>4, <1>5, <2>4 DEF VariantUrlsNow
<1>6. ASSUME NEW b, x.tag = "URI", IsIntroducer(lines, b)
      PROVE  VariantUrls(base, r) = Append(VariantUrls(base, lines), [bandwidth |-> b, url |-> Rfc(base, x.uri)])
  <2>1. PICK e \in 1..n : Introduces(lines, e, n + 1) /\ lines[e].bandwidth = b
      BY <1>6 DEF IsIntroducer
  <2>2. VariantAt(r, n + 1) = [bandwidth |-> b, uri |-> x.uri]
    <3>1. n + 1 \in Nat /\ e \in 1..(n + 1) - 1 /\ Introduces(r, e, n + 1) /\ r[e].bandwidth = b
        BY <1>1, <1>3, <2>1
    <3>2. VariantAt(r, n + 1) = [bandwidth |-> r[e].bandwidth, uri |-> r[n + 1].uri]
        BY <3>1, VariantBandwidth
    <3> QED BY <1>1, <3>1, <3>2
  <2> DEFINE v == VariantAt(r, n + 1)
  <2>3. part = << v >>
      BY <1>4, <1>6 DEF VariantIn
  <2> HIDE DEF a, part, v
  <2>4. IsList(part) /\ Len(part) = 1 /\ part[1] = v
    <3>1. IsList(<< v >>)
        BY ShortLists, Zenon
    <3> QED BY <2>3, <3>1
  <2>5. IsJoin(z, a, part)
      BY <1>2, <2>4, JoinedIsList
  <2> DEFINE m == Len(a)
  <2>6. m \in Nat /\ Len(z) = m + 1 /\ z[m + 1] = v /\ \A i \in 1..m : z[i] = a[i]
      BY <2>4, <2>5 DEF IsJoin
  <2> DEFINE u == VariantUrls(base, lines)
             w == VariantUrls(base, r)
  <2> HIDE DEF z
  <2>7. u = [i \in 1..m |-> u[i]] /\ \A i \in 1..m : u[i] = [bandwidth |-> a[i].bandwidth, url |-> Rfc(base, a[i].uri)]
      BY DEF VariantUrls, a
  <2>8. w = [i \in 1..m + 1 |-> w[i]] /\ \A i \in 1..m + 1 : w[i] = [bandwidth |-> z[i].bandwidth, url |-> Rfc(base, z[i].uri)]
      BY <2>6 DEF VariantUrls, z
  <2> HIDE DEF u, w, m
  <2>9. w[m + 1] = [bandwidth |-> b, url |-> Rfc(base, x.uri)]
      BY <2>2, <2>6, <2>8 DEF v
  <2>10. GrowsByOne(u, w, m)
    <3>1. ASSUME NEW i \in 1..m PROVE w[i] = u[i]
        BY <2>6, <2>7, <2>8
    <3> QED BY <2>6, <2>7, <2>8, <3>1, Zenon DEF GrowsByOne
  <2>11. w = Append(u, w[m + 1])
      BY <2>10, OneMore
  <2> QED BY <2>9, <2>11 DEF u, w
<1>7. CASE IsVariant(r, n + 1)
    BY <1>1, <1>4, <1>6, <1>7 DEF VariantUrlsNow
<1> QED BY <1>5, <1>7

LEMMA UrlsOfMore ==
    ASSUME NEW renditions, IsList(renditions), NEW x
    PROVE  UrlsOf(Append(renditions, x)) =
               IF x.present THEN Append(UrlsOf(renditions), x.url) ELSE UrlsOf(renditions)
<1> DEFINE S == Range(renditions) \union {x}
<1>1. renditions \in Seq(S) /\ x \in S
    BY DEF IsList
<1> HIDE DEF S
<1> QED BY <1>1, UrlsNext

-----------------------------------------------------------------------------
(* A master playlist of another origin *)

SubtitleTypes == {"SUBTITLES", "CLOSED-CAPTIONS"}
CanSelect(base, lines, i) ==
    /\ lines[i].tag = "STREAM-INF" => lines[i].bandwidth \in Nat
    /\ lines[i].tag = "MEDIA" /\ lines[i].uri.present => IsPlain(base, lines[i].uri.url)
    /\ IsVariant(lines, i) => IsPlain(base, lines[i].uri)
CanSelectAll(base, lines) == \A i \in 1..Len(lines) : CanSelect(base, lines, i)

IsMasterState(p) == DOMAIN p = {"ok", "pending", "variants", "audio", "texts"} /\ p.ok = TRUE
\* The STREAM-INF that waits for its URI.
IsPending(lines, pending) ==
    /\ pending = <<>> => \A b : ~ IsIntroducer(lines, b)
    /\ pending # <<>> => \E b \in Nat : pending = << b >> /\ IsIntroducer(lines, b)
AreVariants(variants, base, lines) ==
    /\ variants = VariantUrls(base, lines) /\ IsList(variants)
    /\ \A v \in 1..Len(variants) : variants[v].bandwidth \in Nat
AreRenditions(renditions, base, lines, types) ==
    IsList(renditions) /\ UrlsOf(renditions) = RenditionUrls(base, lines, types)

\* The state after some lines of it.
MasterSoFar(base, lines, p) ==
    /\ IsMasterState(p) /\ IsPending(lines, p.pending) /\ AreVariants(p.variants, base, lines)
    /\ AreRenditions(p.audio, base, lines, {"AUDIO"})
    /\ AreRenditions(p.texts, base, lines, SubtitleTypes)

LEMMA RenditionsGrow ==
    ASSUME NEW S, NEW lines \in Seq(S), NEW x \in S, NEW base, NEW types, NEW renditions,
           AreRenditions(renditions, base, lines, types), IsListed(x, types)
    PROVE  AreRenditions(Append(renditions, SomeUrl(Rfc(base, x.uri.url))), base, Append(lines, x), types)
<1> DEFINE y == SomeUrl(Rfc(base, x.uri.url))
           m == Append(renditions, y)
           r == Append(lines, x)
<1>1. y.present /\ y.url = Rfc(base, x.uri.url)
    BY DEF SomeUrl
<1>2. IsList(renditions) /\ UrlsOf(renditions) = RenditionUrls(base, lines, types)
    BY DEF AreRenditions
<1>3. RenditionUrls(base, r, types) = Append(RenditionUrls(base, lines, types), Rfc(base, x.uri.url))
    BY RenditionsNext
<1> HIDE DEF y, r
<1>4. UrlsOf(m) = Append(UrlsOf(renditions), y.url)
    BY <1>1, <1>2, UrlsOfMore
<1>5. IsList(m)
    BY <1>2, AppendIsList
<1> HIDE DEF m
<1>6. AreRenditions(m, base, r, types)
    BY <1>1, <1>2, <1>3, <1>4, <1>5 DEF AreRenditions
<1> QED BY <1>6 DEF m, y, r

LEMMA RenditionsStay ==
    ASSUME NEW S, NEW lines \in Seq(S), NEW x \in S, NEW base, NEW types, NEW renditions,
           AreRenditions(renditions, base, lines, types), ~ IsListed(x, types)
    PROVE  AreRenditions(renditions, base, Append(lines, x), types)
<1>1. RenditionUrls(base, Append(lines, x), types) = RenditionUrls(base, lines, types)
    BY RenditionsNext
<1> QED BY <1>1 DEF AreRenditions

\* A rendition without a URI is kept, and gives no track.
LEMMA RenditionPassed ==
    ASSUME NEW S, NEW lines \in Seq(S), NEW x \in S, NEW base, NEW types, NEW renditions,
           AreRenditions(renditions, base, lines, types), ~ IsListed(x, types)
    PROVE  AreRenditions(Append(renditions, Missing), base, Append(lines, x), types)
<1> DEFINE m == Append(renditions, Missing)
           r == Append(lines, x)
<1>1. RenditionUrls(base, r, types) = RenditionUrls(base, lines, types)
    BY RenditionsNext
<1>2. IsList(renditions) /\ UrlsOf(renditions) = RenditionUrls(base, lines, types)
    BY DEF AreRenditions
<1>3. ~ Missing.present
    BY DEF Missing
<1>4. IsList(m) /\ UrlsOf(m) = UrlsOf(renditions)
    BY <1>2, <1>3, AppendIsList, UrlsOfMore
<1> HIDE DEF m, r
<1>5. AreRenditions(m, base, r, types)
    BY <1>1, <1>2, <1>4 DEF AreRenditions
<1> QED BY <1>5 DEF m, r

LEMMA RenditionRead ==
    ASSUME NEW S, NEW base, NEW lines \in Seq(S), NEW x \in S, NEW r, r = Append(lines, x),
           x.tag = "MEDIA", x.uri.present => IsPlain(base, x.uri.url),
           NEW p, MasterSoFar(base, lines, p), NEW q, q = ReadRendition(p, x, base)
    PROVE  MasterSoFar(base, r, q)
<1> DEFINE y == IF x.uri.present THEN SomeUrl(Rfc(base, x.uri.url)) ELSE Missing
           AudioTypes == {"AUDIO"}
<1>1. Extends(r, lines, x)
    BY AppendExtends
<1>2. IsMasterState(p) /\ IsPending(lines, p.pending) /\ AreVariants(p.variants, base, lines)
    BY DEF MasterSoFar
<1>3. AreRenditions(p.audio, base, lines, AudioTypes) /\ AreRenditions(p.texts, base, lines, SubtitleTypes)
    BY DEF MasterSoFar
<1>4. IsPending(r, p.pending) /\ AreVariants(p.variants, base, r)
  <2>1. \A b : IsIntroducer(r, b) <=> IsIntroducer(lines, b)
      BY <1>1, IntroducerNext DEF IntroducesNow
  <2>2. VariantUrls(base, r) = VariantUrls(base, lines)
      BY <1>1, VariantUrlsNext DEF VariantUrlsNow
  <2> QED BY <1>2, <2>1, <2>2 DEF IsPending, AreVariants
<1>5. ASSUME NEW types, NEW renditions, AreRenditions(renditions, base, lines, types), x.type \in types
      PROVE  AreRenditions(Append(renditions, y), base, r, types)
  <2>1. CASE x.uri.present
    <3>1. IsListed(x, types)
        BY <1>5, <2>1 DEF IsListed
    <3> QED BY <1>5, <2>1, <3>1, RenditionsGrow
  <2>2. CASE ~ x.uri.present
    <3>1. ~ IsListed(x, types)
        BY <2>2 DEF IsListed
    <3> QED BY <1>5, <2>2, <3>1, RenditionPassed
  <2> QED BY <2>1, <2>2
<1>6. ASSUME NEW types, NEW renditions, AreRenditions(renditions, base, lines, types), x.type \notin types
      PROVE  AreRenditions(renditions, base, r, types)
    BY <1>6, RenditionsStay DEF IsListed
<1>7. q = CASE x.type = "AUDIO" -> [p EXCEPT !.audio = Append(@, y)]
            [] x.type \in SubtitleTypes -> [p EXCEPT !.texts = Append(@, y)]
            [] OTHER -> p
  <2>1. CASE x.uri.present
    <3>1. Join(base, x.uri.url) = Resolved(Rfc(base, x.uri.url))
        BY <2>1, PlainResolves
    <3>2. Join(base, x.uri.url).ok = TRUE /\ Join(base, x.uri.url).url = Rfc(base, x.uri.url)
        BY <3>1 DEF Resolved
    <3> QED BY <2>1, <3>2 DEF ReadRendition, SubtitleTypes
  <2>2. CASE ~ x.uri.present
      BY <2>2 DEF ReadRendition, SubtitleTypes
  <2> QED BY <2>1, <2>2
<1> HIDE DEF y, AudioTypes
<1>8. CASE x.type = "AUDIO"
  <2> DEFINE z == Append(p.audio, y)
  <2>1. x.type \in AudioTypes /\ x.type \notin SubtitleTypes
      BY <1>8 DEF SubtitleTypes, AudioTypes
  <2>2. q = [p EXCEPT !.audio = z]
      BY <1>7, <1>8, <2>1
  <2>3. AreRenditions(z, base, r, AudioTypes) /\ AreRenditions(p.texts, base, r, SubtitleTypes)
      BY <1>3, <1>5, <1>6, <2>1
  <2> HIDE DEF z
  <2>4. IsMasterState(q) /\ q.pending = p.pending /\ q.variants = p.variants /\ q.audio = z /\ q.texts = p.texts
      BY <1>2, <2>2 DEF IsMasterState
  <2> QED BY <1>4, <2>3, <2>4 DEF MasterSoFar, AudioTypes
<1>9. CASE x.type \in SubtitleTypes
  <2> DEFINE z == Append(p.texts, y)
  <2>1. x.type \notin AudioTypes
      BY <1>9 DEF SubtitleTypes, AudioTypes
  <2>2. q = [p EXCEPT !.texts = z]
      BY <1>7, <1>9, <2>1 DEF AudioTypes
  <2>3. AreRenditions(p.audio, base, r, AudioTypes) /\ AreRenditions(z, base, r, SubtitleTypes)
      BY <1>3, <1>5, <1>6, <1>9, <2>1
  <2> HIDE DEF z
  <2>4. IsMasterState(q) /\ q.pending = p.pending /\ q.variants = p.variants /\ q.texts = z /\ q.audio = p.audio
      BY <1>2, <2>2 DEF IsMasterState
  <2> QED BY <1>4, <2>3, <2>4 DEF MasterSoFar, AudioTypes
<1>10. CASE x.type # "AUDIO" /\ x.type \notin SubtitleTypes
  <2>1. q = p
      BY <1>7, <1>10
  <2>2. x.type \notin AudioTypes
      BY <1>10 DEF AudioTypes
  <2>3. AreRenditions(q.audio, base, r, AudioTypes) /\ AreRenditions(q.texts, base, r, SubtitleTypes)
      BY <1>3, <1>6, <1>10, <2>1, <2>2
  <2> QED BY <1>2, <1>4, <2>1, <2>3 DEF MasterSoFar, AudioTypes
<1> QED BY <1>8, <1>9, <1>10

\* A line that is no rendition leaves the renditions alone.
LEMMA RenditionsRest ==
    ASSUME NEW S, NEW base, NEW lines \in Seq(S), NEW x \in S, NEW r, r = Append(lines, x), x.tag # "MEDIA",
           NEW p, MasterSoFar(base, lines, p)
    PROVE  /\ AreRenditions(p.audio, base, r, {"AUDIO"})
           /\ AreRenditions(p.texts, base, r, SubtitleTypes)
<1>1. \A types : ~ IsListed(x, types)
    BY DEF IsListed
<1>2. AreRenditions(p.audio, base, lines, {"AUDIO"}) /\ AreRenditions(p.texts, base, lines, SubtitleTypes)
    BY DEF MasterSoFar
<1> QED BY <1>1, <1>2, RenditionsStay

LEMMA VariantUriRead ==
    ASSUME NEW S, NEW base, NEW lines \in Seq(S), NEW x \in S, NEW r, r = Append(lines, x),
           x.tag = "URI", IsVariant(r, Len(r)) => IsPlain(base, x.uri),
           NEW p, MasterSoFar(base, lines, p), NEW q, q = ReadVariantUri(p, x, base)
    PROVE  MasterSoFar(base, r, q)
<1>1. Extends(r, lines, x)
    BY AppendExtends
<1>2. IsMasterState(p) /\ IsPending(lines, p.pending) /\ AreVariants(p.variants, base, lines)
    BY DEF MasterSoFar
<1>3. AreRenditions(p.audio, base, r, {"AUDIO"}) /\ AreRenditions(p.texts, base, r, SubtitleTypes)
    BY RenditionsRest
<1>4. \A b : ~ IsIntroducer(r, b)
    BY <1>1, IntroducerNext DEF IntroducesNow
<1>5. VariantUrlsNow(base, r, lines, x)
    BY <1>1, VariantUrlsNext
<1>6. CASE p.pending = <<>>
  <2>1. q = p
      BY <1>6 DEF ReadVariantUri
  <2>2. VariantUrls(base, r) = VariantUrls(base, lines)
      BY <1>2, <1>5, <1>6 DEF VariantUrlsNow, IsPending
  <2>3. AreVariants(q.variants, base, r) /\ IsPending(r, q.pending)
      BY <1>2, <1>4, <1>6, <2>1, <2>2 DEF AreVariants, IsPending
  <2> QED BY <1>2, <1>3, <2>1, <2>3 DEF MasterSoFar
<1>7. CASE p.pending # <<>>
  <2>1. PICK b \in Nat : p.pending = << b >> /\ IsIntroducer(lines, b)
      BY <1>2, <1>7 DEF IsPending
  <2> DEFINE u == Rfc(base, x.uri)
             v == [bandwidth |-> b, url |-> u]
  <2>2. IsVariant(r, Len(r)) /\ VariantUrls(base, r) = Append(VariantUrls(base, lines), v)
      BY <1>5, <2>1 DEF VariantUrlsNow
  <2>3. Join(base, x.uri) = Resolved(u)
      BY <2>2, PlainResolves
  <2>4. Join(base, x.uri).ok = TRUE /\ Join(base, x.uri).url = u
      BY <2>3 DEF Resolved
  <2>5. p.pending[1] = b
      BY <2>1
  <2> DEFINE more == Append(p.variants, v)
  <2>6. q = [p EXCEPT !.pending = <<>>, !.variants = more]
      BY <1>7, <2>4, <2>5 DEF ReadVariantUri
  <2>7. v.bandwidth = b
      OBVIOUS
  <2> HIDE DEF v, more
  <2>8. /\ IsMasterState(q) /\ q.pending = <<>> /\ q.variants = more
        /\ q.audio = p.audio /\ q.texts = p.texts
      BY <1>2, <2>6 DEF IsMasterState
  <2>9. AreVariants(q.variants, base, r)
    <3> DEFINE a == p.variants
               z == Append(a, v)
    <3>1. IsList(a) /\ a = VariantUrls(base, lines) /\ \A i \in 1..Len(a) : a[i].bandwidth \in Nat
        BY <1>2 DEF AreVariants
    <3> HIDE DEF a
    <3>2. IsList(z) /\ Len(z) = Len(a) + 1 /\ Len(a) \in Nat /\ z[Len(a) + 1] = v /\ \A i \in 1..Len(a) : z[i] = a[i]
        BY <3>1, AppendIsList
    <3>3. z = VariantUrls(base, r) /\ q.variants = z
        BY <2>2, <2>8, <3>1 DEF a, more
    <3> HIDE DEF z
    <3>4. ASSUME NEW i \in 1..Len(z) PROVE z[i].bandwidth \in Nat
      <4>1. CASE i \in 1..Len(a)
          BY <3>1, <3>2, <4>1
      <4>2. CASE i = Len(a) + 1
          BY <2>7, <3>2, <4>2
      <4> QED BY <3>2, <4>1, <4>2
    <3> QED BY <3>2, <3>3, <3>4 DEF AreVariants
  <2>10. IsPending(r, q.pending)
      BY <1>4, <2>8 DEF IsPending
  <2> QED BY <1>3, <2>8, <2>9, <2>10 DEF MasterSoFar
<1> QED BY <1>6, <1>7

\* Each line keeps the state in step with the master playlist.
LEMMA MasterLineRead ==
    ASSUME NEW S, NEW base, NEW lines \in Seq(S), NEW x \in S, NEW r, r = Append(lines, x), CanSelectAll(base, r),
           NEW p, MasterSoFar(base, lines, p), NEW q, q = ReadMasterLine(p, x, base)
    PROVE  MasterSoFar(base, r, q)
<1>1. Extends(r, lines, x)
    BY AppendExtends
<1>2. /\ x.tag = "STREAM-INF" => x.bandwidth \in Nat
      /\ x.tag = "MEDIA" /\ x.uri.present => IsPlain(base, x.uri.url)
      /\ IsVariant(r, Len(r)) => IsPlain(base, x.uri)
  <2>1. Len(r) \in 1..Len(r) /\ r[Len(r)] = x
      BY <1>1 DEF Extends
  <2> QED BY <2>1 DEF CanSelectAll, CanSelect
<1>3. IsMasterState(p) /\ IsPending(lines, p.pending) /\ AreVariants(p.variants, base, lines) /\ p.ok = TRUE
    BY DEF MasterSoFar, IsMasterState
<1>4. CASE x.tag = "MEDIA"
  <2>1. q = ReadRendition(p, x, base)
      BY <1>3, <1>4 DEF ReadMasterLine
  <2> QED BY <1>2, <1>4, <2>1, RenditionRead
<1>5. CASE x.tag = "URI"
  <2>1. q = ReadVariantUri(p, x, base)
      BY <1>3, <1>5 DEF ReadMasterLine
  <2> QED BY <1>2, <1>5, <2>1, VariantUriRead
<1>6. CASE x.tag \notin {"MEDIA", "URI"}
  <2>1. AreRenditions(p.audio, base, r, {"AUDIO"}) /\ AreRenditions(p.texts, base, r, SubtitleTypes)
      BY <1>6, RenditionsRest
  <2>2. AreVariants(p.variants, base, r)
      BY <1>1, <1>3, <1>6, VariantUrlsNext DEF VariantUrlsNow, AreVariants
  <2>3. IntroducesNow(r, lines, x)
      BY <1>1, IntroducerNext
  <2>4. CASE x.tag = "STREAM-INF"
    <3> DEFINE b == x.bandwidth
    <3>1. q = [p EXCEPT !.pending = << b >>]
        BY <1>3, <2>4 DEF ReadMasterLine
    <3>2. b \in Nat /\ IsIntroducer(r, b)
        BY <1>2, <2>3, <2>4 DEF IntroducesNow
    <3> HIDE DEF b
    <3>3. /\ IsMasterState(q) /\ q.pending = << b >> /\ q.variants = p.variants
          /\ q.audio = p.audio /\ q.texts = p.texts
        BY <1>3, <3>1 DEF IsMasterState
    <3>4. IsPending(r, q.pending)
        BY <3>2, <3>3 DEF IsPending
    <3> QED BY <2>1, <2>2, <3>3, <3>4 DEF MasterSoFar
  <2>5. CASE x.tag # "STREAM-INF"
    <3>1. q = p
        BY <1>3, <1>6, <2>5 DEF ReadMasterLine
    <3>2. IsPending(r, p.pending)
        BY <1>3, <1>6, <2>3, <2>5 DEF IntroducesNow, IsPending
    <3> QED BY <1>3, <2>1, <2>2, <3>1, <3>2 DEF MasterSoFar
  <2> QED BY <2>4, <2>5
<1> QED BY <1>4, <1>5, <1>6

LEMMA SelectableAlike ==
    ASSUME NEW base, NEW lines, NEW r, NEW x, Extends(r, lines, x), CanSelectAll(base, r)
    PROVE  CanSelectAll(base, lines)
<1> SUFFICES ASSUME NEW i \in 1..Len(lines) PROVE CanSelect(base, lines, i)
    BY DEF CanSelectAll
<1>1. i \in 1..Len(r) /\ r[i] = lines[i]
    BY DEF Extends
<1>2. IsVariant(r, i) <=> IsVariant(lines, i)
  <2>1. i \in 1..Len(lines) + 1
      BY DEF Extends
  <2>2. \A e \in 1..i - 1 : Introduces(r, e, i) <=> Introduces(lines, e, i)
      BY <2>1, IntroducedKept DEF IntroducedAlike
  <2> QED BY <1>1, <2>2 DEF IsVariant
<1>3. CanSelect(base, r, i)
    BY <1>1 DEF CanSelectAll
<1> QED BY <1>1, <1>2, <1>3 DEF CanSelect

LEMMA MasterStarts == ASSUME NEW base PROVE MasterSoFar(base, <<>>, MasterStart)
<1>1. /\ IsMasterState(MasterStart) /\ MasterStart.pending = <<>> /\ MasterStart.variants = <<>>
      /\ MasterStart.audio = <<>> /\ MasterStart.texts = <<>>
    BY DEF MasterStart, IsMasterState
<1>2. \A b : ~ IsIntroducer(<<>>, b)
    BY DEF IsIntroducer
<1>3. VariantUrls(base, <<>>) = <<>>
  <2>1. MasterVariants(<<>>) = <<>>
      BY FlattenOfEmpty DEF MasterVariants
  <2> QED BY <2>1 DEF VariantUrls
<1>4. UrlsOf(<<>>) = <<>>
  <2>1. Present(<<>>) = <<>>
      BY ChosenOfEmpty DEF Present
  <2> QED BY <2>1 DEF UrlsOf
<1>5. \A types : RenditionUrls(base, <<>>, types) = <<>>
  <2> TAKE types
  <2>1. Renditions(<<>>, types) = <<>>
      BY ChosenOfEmpty DEF Renditions
  <2> QED BY <2>1 DEF RenditionUrls
<1>6. IsList(<<>>)
    BY EmptyIsList
<1> QED BY <1>1, <1>2, <1>3, <1>4, <1>5, <1>6 DEF MasterSoFar, IsPending, AreVariants, AreRenditions

\* What the parser has found after some lines.
LEMMA MasterPlaylistSoFar ==
    ASSUME NEW S, NEW base
    PROVE  \A lines \in Seq(S) : CanSelectAll(base, lines) =>
               MasterSoFar(base, lines, Run("master", base, MasterStart, lines))
<1> DEFINE run(lines) == Run("master", base, MasterStart, lines)
           T == {lines \in Seq(S) : CanSelectAll(base, lines) => MasterSoFar(base, lines, run(lines))}
<1>1. <<>> \in T
  <2>1. run(<<>>) = MasterStart
      BY RunOfEmpty
  <2> QED BY <2>1, MasterStarts
<1>2. ASSUME NEW lines \in Seq(S), NEW x \in S, lines \in T PROVE Append(lines, x) \in T
  <2> DEFINE r == Append(lines, x)
  <2>1. r \in Seq(S) /\ Extends(r, lines, x)
      BY AppendExtends
  <2> HIDE DEF r
  <2> SUFFICES ASSUME CanSelectAll(base, r) PROVE MasterSoFar(base, r, run(r))
      BY <2>1 DEF r
  <2>2. MasterSoFar(base, lines, run(lines))
      BY <1>2, <2>1, SelectableAlike
  <2>3. IsList(lines)
      BY SeqIsList, Zenon
  <2>4. run(r) = ReadMasterLine(run(lines), x, base)
      BY <2>3, RunOfAppend DEF ReadItem, r
  <2> HIDE DEF run
  <2> QED BY <2>2, <2>4, MasterLineRead DEF r
<1> HIDE DEF T
<1>3. \A lines \in Seq(S) : lines \in T
    BY <1>1, <1>2, ListInduction
<1> QED BY <1>3 DEF T

\* The parser is a run over the lines.
LEMMA MasterReading ==
    ASSUME NEW lines, Len(lines) \in Nat, NEW base
    PROVE  ParseHlsMasterPlaylist(lines, base) = Run("master", base, MasterStart, lines)
<1> DEFINE p == MasterStart
           after == CHOOSE g : g = [i \in 0 .. Len(lines) |->
                        IF i = 0 THEN p ELSE ReadMasterLine(g[i - 1], lines[i], base)]
<1> HIDE DEF p
<1>1. PICK f : IsRun(f, "master", base, p, lines)
    BY RunExists
<1>2. f = [i \in 0 .. Len(lines) |-> IF i = 0 THEN p ELSE ReadMasterLine(f[i - 1], lines[i], base)]
  <2>1. f = [i \in 0 .. Len(lines) |->
                IF i = 0 THEN p ELSE ReadItem("master", base, f[i - 1], lines[i])]
      BY <1>1, RecursionIsRun
  <2> QED BY <2>1 DEF ReadItem
<1>3. after = [i \in 0 .. Len(lines) |->
                  IF i = 0 THEN p ELSE ReadMasterLine(after[i - 1], lines[i], base)]
    BY <1>2
<1> HIDE DEF after
<1>4. IsRun(after, "master", base, p, lines)
    BY <1>3 DEF IsRun, ReadItem
<1>5. after[Len(lines)] = Run("master", base, p, lines)
    BY <1>4, RunIsLast
<1> QED BY <1>5 DEF ParseHlsMasterPlaylist, Reading, after, p

\* A variant of the playlist is a variant of the result.
LEMMA VariantListed ==
    ASSUME NEW lines, IsList(lines), NEW i \in 1..Len(lines), IsVariant(lines, i)
    PROVE  MasterVariants(lines) # <<>>
<1> DEFINE S == {VariantAt(lines, k) : k \in 1..Len(lines)}
           ss == [k \in 1..Len(lines) |-> VariantIn(lines, k)]
           n == Len(lines)
<1>1. n \in Nat
    BY DEF IsList
<1>2. ASSUME NEW k \in 1..n PROVE VariantIn(lines, k) \in Seq(S)
  <2> DEFINE v == VariantAt(lines, k)
  <2>1. v \in S
      OBVIOUS
  <2> HIDE DEF v, S
  <2>2. << v >> \in Seq(S) /\ <<>> \in Seq(S)
      BY <2>1
  <2> QED BY <2>2 DEF VariantIn, v
<1>3. MasterVariants(lines) = FlattenSeq(ss)
    BY DEF MasterVariants, VariantIn
<1> HIDE DEF S
<1>4. ss \in Seq(Seq(S)) /\ Len(ss) = n
    BY <1>1, <1>2
<1>5. Len(ss[i]) = 1
  <2>1. ss[i] = << VariantAt(lines, i) >>
      BY DEF VariantIn
  <2> QED BY <2>1
<1> HIDE DEF ss
<1>6. \A k \in 1..n : Lengths(ss)[k] \in Nat /\ Lengths(ss)[k] = Len(ss[k])
    BY <1>4 DEF Lengths
<1>7. PICK f : IsSum(f, Lengths(ss), n)
    BY <1>1, <1>6, SumExists
<1>8. FlatAt(FlattenSeq(ss), f, ss)
    BY <1>4, <1>7, FlattenPlaces
<1>9. f[i - 1] \in Nat /\ f[i] = f[i - 1] + 1 /\ f[i] <= f[n] /\ f[n] \in Nat
  <2>1. i - 1 \in 0..n /\ i \in 0..n /\ n \in 0..n /\ i <= n /\ i \in 1..n
      BY <1>1
  <2>2. f[i - 1] \in Nat /\ f[n] \in Nat /\ f[i] = f[i - 1] + Lengths(ss)[i]
      BY <1>7, <2>1 DEF IsSum
  <2>3. f[i] <= f[n]
      BY <1>1, <1>6, <1>7, <2>1, SumMonotone
  <2> QED BY <1>5, <1>6, <2>1, <2>2, <2>3
<1>10. Len(FlattenSeq(ss)) # 0
    BY <1>4, <1>8, <1>9 DEF FlatAt
<1> QED BY <1>3, <1>10

\* resolve_master_playlist on a master playlist that can be read.
LEMMA MasterResolved ==
    ASSUME NEW master, IsSelectable(master),
           NEW tracks, tracks = ResolveMasterPlaylist(master.lines, master.url)
    PROVE  HasMasterTracks(tracks, master)
<1> DEFINE lines == master.lines
           base == master.url
           p == ParseHlsMasterPlaylist(lines, base)
<1>1. IsList(lines) /\ CanSelectAll(base, lines) /\ \E i \in 1..Len(lines) : IsVariant(lines, i)
    BY DEF IsSelectable, CanSelectAll, CanSelect
<1>2. MasterSoFar(base, lines, p)
  <2>1. lines \in Seq(Range(lines)) /\ Len(lines) \in Nat
      BY <1>1 DEF IsList
  <2>2. p = Run("master", base, MasterStart, lines)
      BY <2>1, MasterReading
  <2> QED BY <1>1, <2>1, <2>2, MasterPlaylistSoFar
<1>3. /\ p.ok = TRUE /\ AreVariants(p.variants, base, lines)
      /\ UrlsOf(p.audio) = RenditionUrls(base, lines, {"AUDIO"})
      /\ UrlsOf(p.texts) = RenditionUrls(base, lines, {"SUBTITLES", "CLOSED-CAPTIONS"})
    BY <1>2 DEF MasterSoFar, IsMasterState, AreRenditions, SubtitleTypes
<1>4. /\ tracks.ok = (p.ok /\ p.variants # <<>>)
      /\ tracks.variants = p.variants /\ tracks.primary = Primary(p.variants)
      /\ tracks.audio = (IF Present(p.audio) = <<>> THEN <<>> ELSE << Present(p.audio)[1].url >>)
      /\ tracks.texts = UrlsOf(p.texts)
    BY DEF ResolveMasterPlaylist, Present, UrlsOf
<1> HIDE DEF p
<1> DEFINE variants == MasterVariants(lines)
<1>5. variants # <<>>
    BY <1>1, VariantListed
<1>6. /\ IsList(p.variants) /\ p.variants # <<>>
      /\ p.variants = [v \in 1..Len(variants) |->
                          [bandwidth |-> variants[v].bandwidth, url |-> Rfc(base, variants[v].uri)]]
      /\ \A v \in 1..Len(p.variants) : p.variants[v].bandwidth \in Nat
  <2>1. p.variants = VariantUrls(base, lines) /\ IsList(p.variants)
        /\ \A v \in 1..Len(p.variants) : p.variants[v].bandwidth \in Nat
      BY <1>3 DEF AreVariants
  <2>2. Len(variants) \in Nat /\ Len(variants) # 0
    <3>1. lines \in Seq(Range(lines))
        BY <1>1 DEF IsList
    <3>2. IsList(variants)
      <4> DEFINE r == Append(lines, lines[1])
      <4>1. lines[1] \in Range(lines)
        <5>1. 1 \in DOMAIN lines
            BY <1>1, <3>1
        <5> QED BY <5>1 DEF Range
      <4>2. Extends(r, lines, lines[1])
          BY <3>1, <4>1, AppendExtends
      <4> HIDE DEF r
      <4> QED BY <4>2, VariantsNext
    <3> QED BY <1>5, <3>2 DEF IsList
  <2>3. Len(VariantUrls(base, lines)) = Len(variants)
      BY <2>2 DEF VariantUrls
  <2> QED BY <2>1, <2>2, <2>3 DEF VariantUrls
<1>7. Largest(tracks.variants[tracks.primary], tracks.variants)
  <2> DEFINE all == p.variants
  <2>1. IsList(all) /\ all # <<>> /\ \A v \in 1..Len(all) : all[v].bandwidth \in Nat
      BY <1>6
  <2>2. tracks.variants = all /\ tracks.primary = Primary(all)
      BY <1>4
  <2> HIDE DEF all
  <2>3. Largest(all[Primary(all)], all)
      BY <2>1, PrimaryIsLargest
  <2> QED BY <2>2, <2>3
<1>8. tracks.audio = IF Renditions(lines, {"AUDIO"}) = <<>> THEN <<>>
                     ELSE << Rfc(base, Renditions(lines, {"AUDIO"})[1].uri.url) >>
  <2> DEFINE a == Present(p.audio)
             b == Renditions(lines, {"AUDIO"})
  <2>1. [i \in 1..Len(a) |-> a[i].url] = [i \in 1..Len(b) |-> Rfc(base, b[i].uri.url)]
      BY <1>3 DEF UrlsOf, RenditionUrls
  <2>2. IsList(a)
    <3>1. p.audio \in Seq(Range(p.audio))
        BY <1>2 DEF MasterSoFar, AreRenditions, IsList
    <3>2. a \in Seq(Range(p.audio))
        BY <3>1, ChosenType DEF Present
    <3> QED BY <3>2, SeqIsList, Zenon
  <2>3. IsList(b)
    <3>1. lines \in Seq(Range(lines))
        BY <1>1 DEF IsList
    <3>2. b \in Seq(Range(lines))
        BY <3>1, ChosenType DEF Renditions
    <3> QED BY <3>2, SeqIsList, Zenon
  <2>4. a \in Seq(Range(a)) /\ b \in Seq(Range(b))
      BY <2>2, <2>3 DEF IsList
  <2> HIDE DEF a, b
  <2>5. Len(a) = Len(b) /\ Len(a) \in Nat /\ \A i \in 1..Len(a) : a[i].url = Rfc(base, b[i].uri.url)
      BY <2>1, <2>4
  <2>6. (a = <<>> <=> Len(a) = 0) /\ (b = <<>> <=> Len(b) = 0)
      BY <2>4
  <2>7. b # <<>> => a[1].url = Rfc(base, b[1].uri.url)
      BY <2>5, <2>6
  <2>8. tracks.audio = IF a = <<>> THEN <<>> ELSE << a[1].url >>
      BY <1>4 DEF a
  <2> QED BY <2>5, <2>6, <2>7, <2>8 DEF b
<1>9. tracks.ok /\ tracks.texts = RenditionUrls(base, lines, {"SUBTITLES", "CLOSED-CAPTIONS"})
    BY <1>3, <1>4, <1>6
<1>10. tracks.variants = [v \in 1..Len(variants) |->
                            [bandwidth |-> variants[v].bandwidth, url |-> Rfc(base, variants[v].uri)]]
    BY <1>4, <1>6
<1> QED BY <1>7, <1>8, <1>9, <1>10 DEF HasMasterTracks, RenditionUrls

-----------------------------------------------------------------------------
(* The items of lists *)

\* Lists of the same items at the same places are the same.
LEMMA SameLists ==
    ASSUME NEW a, IsList(a), NEW b, IsList(b), Len(a) = Len(b), \A i \in 1..Len(a) : a[i] = b[i]
    PROVE  a = b
<1>1. /\ a = [i \in 1..Len(a) |-> a[i]] /\ b = [i \in 1..Len(b) |-> b[i]]
    BY DEF IsList
<1> QED BY <1>1

LEMMA ItemsInRange ==
    ASSUME NEW a, IsList(a)
    PROVE  /\ Len(a) \in Nat /\ DOMAIN a = 1..Len(a)
           /\ \A x : x \in Range(a) <=> \E i \in 1..Len(a) : a[i] = x
BY DEF IsList, Range

LEMMA RangeOfShort == ASSUME NEW e PROVE Range(<<e>>) = {e} /\ Range(<<>>) = {}
BY DEF Range

LEMMA RangeOfJoined ==
    ASSUME NEW a, IsList(a), NEW b, IsList(b)
    PROVE  IsList(Joined(a, b)) /\ Range(Joined(a, b)) = Range(a) \union Range(b)
<1> DEFINE z == Joined(a, b)
<1>1. IsJoin(z, a, b)
    BY JoinedIsList
<1> HIDE DEF z
<1>2. /\ IsList(z) /\ Len(z) = Len(a) + Len(b) /\ Len(a) \in Nat /\ Len(b) \in Nat
      /\ \A i \in 1..Len(a) : z[i] = a[i]
      /\ \A i \in 1..Len(b) : z[Len(a) + i] = b[i]
    BY <1>1 DEF IsJoin
<1>3. ASSUME NEW x \in Range(z) PROVE x \in Range(a) \union Range(b)
  <2>1. PICK i \in 1..Len(z) : z[i] = x
      BY <1>2, ItemsInRange
  <2>2. CASE i <= Len(a)
    <3>1. i \in 1..Len(a) /\ a[i] = x
        BY <1>2, <2>1, <2>2
    <3> QED BY <3>1, ItemsInRange
  <2>3. CASE i > Len(a)
    <3>1. i - Len(a) \in 1..Len(b) /\ b[i - Len(a)] = x
      <4>1. i - Len(a) \in 1..Len(b) /\ Len(a) + (i - Len(a)) = i
          BY <1>2, <2>1, <2>3
      <4> QED BY <1>2, <2>1, <4>1
    <3> QED BY <3>1, ItemsInRange
  <2> QED BY <1>2, <2>2, <2>3
<1>4. ASSUME NEW x \in Range(a) PROVE x \in Range(z)
  <2>1. PICK i \in 1..Len(a) : a[i] = x
      BY ItemsInRange
  <2>2. i \in 1..Len(z) /\ z[i] = x
      BY <1>2, <2>1
  <2> QED BY <1>2, <2>2, ItemsInRange
<1>5. ASSUME NEW x \in Range(b) PROVE x \in Range(z)
  <2>1. PICK i \in 1..Len(b) : b[i] = x
      BY ItemsInRange
  <2>2. Len(a) + i \in 1..Len(z) /\ z[Len(a) + i] = x
      BY <1>2, <2>1
  <2> QED BY <1>2, <2>2, ItemsInRange
<1> QED BY <1>2, <1>3, <1>4, <1>5 DEF z

\* Lists of lists.
LEMMA ListsOfLists ==
    ASSUME NEW lists, IsList(lists), \A i \in 1..Len(lists) : IsList(lists[i])
    PROVE  \E S : lists \in Seq(Seq(S))
<1> DEFINE S == UNION {Range(lists[i]) : i \in 1..Len(lists)}
<1>1. \A i \in 1..Len(lists) : lists[i] \in Seq(S)
  <2> SUFFICES ASSUME NEW i \in 1..Len(lists) PROVE lists[i] \in Seq(S)
      OBVIOUS
  <2>1. lists[i] \in Seq(Range(lists[i])) /\ Range(lists[i]) \subseteq S
      BY DEF IsList
  <2> HIDE DEF S
  <2> QED BY <2>1
<1>2. lists \in Seq(Seq(S))
  <2>1. lists \in Seq(Range(lists)) /\ DOMAIN lists = 1..Len(lists) /\ Len(lists) \in Nat
      BY DEF IsList
  <2> HIDE DEF S
  <2> QED BY <1>1, <2>1
<1> QED BY <1>2, Zenon

HasItems(flat, lists) ==
    \A x : x \in Range(flat) <=> \E i \in 1..Len(lists) : x \in Range(lists[i])

LEMMA RangeOfFlat ==
    ASSUME NEW S
    PROVE  \A ss \in Seq(Seq(S)) : IsList(FlattenSeq(ss)) /\ HasItems(FlattenSeq(ss), ss)
<1> DEFINE T == {ss \in Seq(Seq(S)) : IsList(FlattenSeq(ss)) /\ HasItems(FlattenSeq(ss), ss)}
<1>1. <<>> \in T
  <2>1. FlattenSeq(<<>>) = <<>> /\ IsList(<<>>) /\ <<>> \in Seq(Seq(S))
      BY FlattenOfEmpty, EmptyIsList
  <2>2. HasItems(<<>>, <<>>)
      BY DEF HasItems, Range
  <2> QED BY <2>1, <2>2
<1>2. ASSUME NEW ss \in Seq(Seq(S)), NEW e \in Seq(S), ss \in T PROVE Append(ss, e) \in T
  <2> DEFINE r == Append(ss, e)
             f == FlattenSeq(ss)
             g == FlattenSeq(r)
  <2>1. r \in Seq(Seq(S)) /\ Extends(r, ss, e)
      BY AppendExtends
  <2>2. g = Joined(f, e)
      BY FlattenOfAppend
  <2>3. IsList(f) /\ IsList(e) /\ HasItems(f, ss)
      BY <1>2, SeqIsList, Zenon
  <2> HIDE DEF r, f, g
  <2>4. IsList(g) /\ Range(g) = Range(f) \union Range(e)
      BY <2>2, <2>3, RangeOfJoined
  <2>5. HasItems(g, r)
    <3> SUFFICES ASSUME NEW x PROVE x \in Range(g) <=> \E i \in 1..Len(r) : x \in Range(r[i])
        BY DEF HasItems
    <3>1. Len(ss) \in Nat /\ Len(r) = Len(ss) + 1 /\ r[Len(ss) + 1] = e
          /\ \A i \in 1..Len(ss) : r[i] = ss[i]
        BY <2>1 DEF Extends
    <3>2. x \in Range(f) <=> \E i \in 1..Len(ss) : x \in Range(ss[i])
        BY <2>3 DEF HasItems
    <3>3. 1..Len(r) = (1..Len(ss)) \union {Len(ss) + 1}
        BY <3>1
    <3> QED BY <2>4, <3>1, <3>2, <3>3
  <2> QED BY <2>1, <2>4, <2>5 DEF r, g
<1> HIDE DEF T
<1>3. \A ss \in Seq(Seq(S)) : ss \in T
  <2> DEFINE E == Seq(S)
  <2>1. <<>> \in T /\ \A ss \in Seq(E), e \in E : ss \in T => Append(ss, e) \in T
      BY <1>1, <1>2
  <2> HIDE DEF E
  <2>2. \A ss \in Seq(E) : ss \in T
      BY <2>1, ListInduction
  <2> QED BY <2>2 DEF E
<1> QED BY <1>3 DEF T

\* The items of lists put behind each other are those of the lists.
LEMMA FlatItems ==
    ASSUME NEW lists, IsList(lists), \A i \in 1..Len(lists) : IsList(lists[i])
    PROVE  IsList(FlattenSeq(lists)) /\ HasItems(FlattenSeq(lists), lists)
BY ListsOfLists, RangeOfFlat

\* The items of an element, and where they are.
ElementAt(z, name, attributes, c) ==
    /\ IsList(z) /\ Len(z) = Len(c) + 2 /\ Len(c) \in Nat
    /\ z[1] = Start(name, attributes) /\ z[Len(z)] = End(name)
    /\ \A i \in 1..Len(c) : z[i + 1] = c[i]
ElementHas(z, name, attributes, c) == Range(z) = {Start(name, attributes), End(name)} \union Range(c)

\* The events of an element.
LEMMA ElementItems ==
    ASSUME NEW name, NEW attributes, NEW c, IsList(c)
    PROVE  /\ ElementAt(Element(name, attributes, c), name, attributes, c)
           /\ ElementHas(Element(name, attributes, c), name, attributes, c)
<1> DEFINE d == Start(name, attributes)
           e == End(name)
           body == Joined(<<d>>, c)
           z == Joined(body, <<e>>)
<1>1. Element(name, attributes, c) = z
    BY DEF Element, Joined
<1> HIDE DEF d, e
<1>2. IsList(<<d>>) /\ IsList(<<e>>) /\ Len(<<d>>) = 1 /\ <<d>>[1] = d /\ Len(<<e>>) = 1 /\ <<e>>[1] = e
    BY ShortLists, Zenon
<1> DEFINE u == <<d>>
           v == <<e>>
<1>9. IsList(u) /\ IsList(v) /\ Len(u) = 1 /\ u[1] = d /\ Len(v) = 1 /\ v[1] = e
      /\ Range(u) = {d} /\ Range(v) = {e} /\ body = Joined(u, c) /\ z = Joined(body, v)
    BY <1>2, RangeOfShort
<1> HIDE DEF u, v
<1>3. IsJoin(body, u, c) /\ Range(body) = {d} \union Range(c)
  <2> HIDE DEF body
  <2> QED BY <1>9, JoinedIsList, RangeOfJoined
<1>4. /\ IsList(body) /\ Len(body) = 1 + Len(c) /\ Len(c) \in Nat /\ body[1] = d
      /\ \A i \in 1..Len(c) : body[1 + i] = c[i]
  <2> HIDE DEF body
  <2> QED BY <1>9, <1>3 DEF IsJoin
<1> HIDE DEF body, z
<1>5. IsJoin(z, body, v) /\ Range(z) = Range(body) \union {e}
  <2>1. z = Joined(body, v) /\ IsList(body) /\ IsList(v) /\ Range(v) = {e}
      BY <1>4, <1>9
  <2> QED BY <2>1, JoinedIsList, RangeOfJoined, Zenon
<1>6. /\ IsList(z) /\ Len(z) = Len(body) + 1 /\ z[Len(body) + 1] = e
      /\ \A i \in 1..Len(body) : z[i] = body[i]
    BY <1>9, <1>5 DEF IsJoin
<1>7. ElementAt(z, name, attributes, c)
  <2>1. z[1] = d
      BY <1>4, <1>6
  <2>2. \A i \in 1..Len(c) : z[i + 1] = c[i]
      BY <1>4, <1>6
  <2> QED BY <1>4, <1>6, <2>1, <2>2 DEF ElementAt, d, e
<1>8. ElementHas(z, name, attributes, c)
    BY <1>3, <1>5 DEF ElementHas, d, e
<1> QED BY <1>1, <1>7, <1>8 DEF z

-----------------------------------------------------------------------------
(* The blocks of a document *)

\* The states of a search for blocks, one for each event.
BlocksSoFar(f, events, name) ==
    /\ f[0] = <<>>
    /\ \A i \in 1..Len(events) : f[i] = NextBlock(events, name, f[i - 1], i)
    /\ Blocks(events, name) = f[Len(events)]

\* Blocks is a run over the events.
LEMMA BlocksRun ==
    ASSUME NEW events, Len(events) \in Nat, NEW name
    PROVE  \E f : BlocksSoFar(f, events, name)
<1> DEFINE n == Len(events)
           items == [i \in 1..n |-> i]
           base == [events |-> events, name |-> name]
           after == CHOOSE g : g = [i \in 0 .. Len(items) |->
                        IF i = 0 THEN <<>> ELSE NextBlock(events, name, g[i - 1], items[i])]
<1>0. Len(items) = n /\ \A i \in 1..n : items[i] = i
    OBVIOUS
<1>9. Blocks(events, name) = after[Len(items)]
    BY DEF Blocks, Reading
<1> HIDE DEF items
<1>1. PICK f : IsRun(f, "blocks", base, <<>>, items)
    BY <1>0, RunExists
<1>2. f = [i \in 0 .. Len(items) |->
              IF i = 0 THEN <<>> ELSE NextBlock(events, name, f[i - 1], items[i])]
  <2>1. f = [i \in 0 .. Len(items) |->
                IF i = 0 THEN <<>> ELSE ReadItem("blocks", base, f[i - 1], items[i])]
      BY <1>0, <1>1, RecursionIsRun
  <2> QED BY <2>1 DEF ReadItem
<1>3. after = [i \in 0 .. Len(items) |->
                  IF i = 0 THEN <<>> ELSE NextBlock(events, name, after[i - 1], items[i])]
    BY <1>2
<1> HIDE DEF after
<1>4. after[0] = <<>> /\ \A i \in 1..n : after[i] = NextBlock(events, name, after[i - 1], i)
    BY <1>0, <1>3
<1> QED BY <1>0, <1>4, <1>9 DEF BlocksSoFar

\* What starts no block leaves them as they are, as does a start within the last.
LEMMA NoBlock ==
    ASSUME NEW events, Len(events) \in Nat, NEW name, NEW f, BlocksSoFar(f, events, name),
           NEW a \in 0..Len(events), NEW b \in a..Len(events),
           \A i \in a + 1..b : ~IsStart(events[i], name) \/ (f[a] # <<>> /\ i <= Last(f[a]).last)
    PROVE  f[b] = f[a]
<1> DEFINE T == {k \in 0..b : k < a \/ f[k] = f[a]}
<1>1. 0 \in T
    OBVIOUS
<1>2. ASSUME NEW k \in 0..b, k < b, k \in T PROVE k + 1 \in T
  <2>1. CASE k + 1 <= a
      BY <1>2, <2>1
  <2>2. CASE k + 1 > a
    <3>1. f[k] = f[a] /\ k + 1 \in a + 1..b /\ k + 1 \in 1..Len(events) /\ (k + 1) - 1 = k
        BY <1>2, <2>2
    <3>2. f[k + 1] = NextBlock(events, name, f[a], k + 1)
        BY <3>1 DEF BlocksSoFar
    <3>3. f[k + 1] = f[a]
        BY <3>1, <3>2 DEF NextBlock
    <3> QED BY <1>2, <3>3
  <2> QED BY <1>2, <2>1, <2>2
<1>3. b \in Nat /\ \A k \in 0..b : k \in T
  <2>1. b \in Nat
      OBVIOUS
  <2> HIDE DEF T
  <2> QED BY <1>1, <1>2, <2>1, CountUp, Zenon
<1>4. b \in T
    BY <1>3
<1> QED BY <1>4

IsBlockAt(events, name, a, b) ==
    /\ IsStart(events[a + 1], name) /\ IsEnd(events[b], name)
    /\ \A i \in a + 1..b - 1 : ~IsEnd(events[i], name)

\* A block behind the last is found.
LEMMA OneBlock ==
    ASSUME NEW events, Len(events) \in Nat, NEW name, NEW f, BlocksSoFar(f, events, name),
           NEW a \in 0..Len(events), NEW b \in a + 2..Len(events), IsBlockAt(events, name, a, b),
           IsList(f[a]), f[a] # <<>> => Last(f[a]).last = a
    PROVE  f[b] = Append(f[a], [first |-> a + 1, last |-> b])
<1> DEFINE n == Len(events)
           ends == {j \in a + 1..n : IsEnd(events[j], name)}
           x == [first |-> a + 1, last |-> b]
<1>1. b \in ends /\ \A j \in ends : b <= j
  <2>1. b \in ends
      BY DEF IsBlockAt
  <2>2. ASSUME NEW j \in ends, j < b PROVE FALSE
    <3>1. j \in a + 1..b - 1 /\ IsEnd(events[j], name)
        BY <2>2
    <3> QED BY <3>1 DEF IsBlockAt
  <2>3. \A j \in ends : j \in Int
      OBVIOUS
  <2> QED BY <2>1, <2>2, <2>3
<1>2. BlockEnd(events, a + 1, name) = b
  <2>1. ends # {} /\ \A j \in ends : j \in Int
      BY <1>1
  <2>2. BlockEnd(events, a + 1, name) = CHOOSE j \in ends : \A k \in ends : j <= k
      BY <2>1 DEF BlockEnd
  <2> HIDE DEF ends
  <2>3. \A j \in ends : (\A k \in ends : j <= k) => j = b
      BY <1>1, <2>1
  <2> QED BY <1>1, <2>2, <2>3
<1> HIDE DEF ends
<1>3. a + 1 \in 1..n /\ (a + 1) - 1 = a
    OBVIOUS
<1>4. f[a + 1] = Append(f[a], x)
  <2>1. f[a + 1] = NextBlock(events, name, f[a], a + 1)
      BY <1>3 DEF BlocksSoFar
  <2>2. ~ (f[a] # <<>> /\ a + 1 <= Last(f[a]).last)
      OBVIOUS
  <2>3. IsStart(events[a + 1], name)
      BY DEF IsBlockAt
  <2> QED BY <1>2, <2>1, <2>2, <2>3 DEF NextBlock
<1> DEFINE g == f[a + 1]
<1>5. g # <<>> /\ Last(g).last = b
  <2> DEFINE z == Append(f[a], x)
  <2>1. IsList(z) /\ Len(z) = Len(f[a]) + 1 /\ Len(f[a]) \in Nat /\ z[Len(f[a]) + 1] = x
    <3> HIDE DEF x
    <3> QED BY AppendIsList
  <2>2. g = z
      BY <1>4
  <2> HIDE DEF z, g
  <2>3. z # <<>> /\ Last(z) = x
      BY <2>1 DEF Last
  <2> QED BY <2>2, <2>3
<1> HIDE DEF g
<1>6. f[b] = g
  <2>1. \A i \in (a + 1) + 1..b : ~IsStart(events[i], name) \/ (g # <<>> /\ i <= Last(g).last)
      BY <1>5
  <2>2. a + 1 \in 0..n /\ b \in a + 1..n /\ g = f[a + 1]
      BY DEF g
  <2> DEFINE m == a + 1
  <2>3. f[m] = g
      BY <2>2
  <2>4. m \in 0..Len(events) /\ b \in m..Len(events)
      BY <2>2
  <2>5. \A i \in m + 1..b : ~IsStart(events[i], name) \/ (f[m] # <<>> /\ i <= Last(f[m]).last)
      BY <2>1, <2>3
  <2> HIDE DEF m, n, x
  <2>6. f[b] = f[m]
      BY <2>4, <2>5, NoBlock
  <2> QED BY <2>3, <2>6
<1> QED BY <1>4, <1>6 DEF g

\* A list that is one block.
IsOneBlock(b, name) ==
    /\ IsList(b) /\ Len(b) >= 2 /\ IsStart(b[1], name) /\ IsEnd(b[Len(b)], name)
    /\ \A i \in 1..Len(b) - 1 : ~IsEnd(b[i], name)

\* Blocks in a row behind the first p events, and no other.
InRowAt(events, name, bs, p, g) ==
    /\ p \in Nat /\ p + g[Len(bs)] <= Len(events)
    /\ \A s \in 1..Len(bs) : \A j \in 1..Len(bs[s]) : events[p + g[s - 1] + j] = bs[s][j]
    /\ \A i \in 1..p : ~IsStart(events[i], name)
    /\ \A i \in p + g[Len(bs)] + 1..Len(events) : ~IsStart(events[i], name)

BlockAt(p, g, k) == [first |-> p + g[k - 1] + 1, last |-> p + g[k]]
Found(p, g, n) == [k \in 1..n |-> BlockAt(p, g, k)]

LEMMA FoundNext ==
    ASSUME NEW p, NEW g, NEW k \in Nat
    PROVE  /\ IsList(Found(p, g, k)) /\ Append(Found(p, g, k), BlockAt(p, g, k + 1)) = Found(p, g, k + 1)
           /\ Found(p, g, k) # <<>> => k >= 1 /\ Last(Found(p, g, k)) = BlockAt(p, g, k)
           /\ Found(p, g, 0) = <<>> /\ Len(Found(p, g, k)) = k
<1> DEFINE u == Found(p, g, k)
           v == Found(p, g, k + 1)
           x == BlockAt(p, g, k + 1)
           w == Append(u, x)
<1>1. u = [i \in 1..k |-> u[i]] /\ \A i \in 1..k : u[i] = BlockAt(p, g, i)
    BY DEF Found
<1>2. v = [i \in 1..k + 1 |-> v[i]] /\ \A i \in 1..k + 1 : v[i] = BlockAt(p, g, i)
    BY DEF Found
<1>5. Found(p, g, 0) = <<>>
    BY DEF Found
<1> HIDE DEF u, v
<1>3. IsList(u) /\ Len(u) = k /\ IsList(v) /\ Len(v) = k + 1
    BY <1>1, <1>2, FunctionIsList
<1>4. w = v
  <2>1. IsList(w) /\ Len(w) = k + 1 /\ w[k + 1] = x /\ \A i \in 1..k : w[i] = u[i]
      BY <1>3, AppendIsList
  <2> HIDE DEF w
  <2>2. \A i \in 1..k + 1 : w[i] = v[i]
    <3> SUFFICES ASSUME NEW i \in 1..k + 1 PROVE w[i] = v[i]
        OBVIOUS
    <3>1. i \in 1..k \/ i = k + 1
        OBVIOUS
    <3> QED BY <1>1, <1>2, <2>1, <3>1
  <2> QED BY <1>3, <2>1, <2>2, SameLists
<1>6. u # <<>> => k >= 1 /\ Last(u) = BlockAt(p, g, k)
    BY <1>1, <1>3 DEF Last
<1> QED BY <1>3, <1>4, <1>5, <1>6 DEF u, v

\* Blocks in a row behind others are all found, and nothing else.
LEMMA BlocksInRow ==
    ASSUME NEW events, Len(events) \in Nat, NEW name, NEW bs, Len(bs) \in Nat,
           \A s \in 1..Len(bs) : IsOneBlock(bs[s], name),
           NEW p, NEW g, IsSum(g, Lengths(bs), Len(bs)), InRowAt(events, name, bs, p, g)
    PROVE  Blocks(events, name) = Found(p, g, Len(bs))
<1> DEFINE N == Len(bs)
           n == Len(events)
           o(k) == p + g[k]
<1>0. PICK f : BlocksSoFar(f, events, name)
    BY BlocksRun
<1> DEFINE T == {k \in 0..N : f[o(k)] = Found(p, g, k)}
<1>1. \A s \in 1..N : Len(bs[s]) \in Nat
    BY DEF IsOneBlock, IsList
<1>2. /\ \A k \in 0..N : g[k] \in Nat
      /\ \A i, j \in 0..N : i <= j => g[i] <= g[j]
      /\ g[0] = 0
      /\ \A s \in 1..N : g[s] = g[s - 1] + Len(bs[s])
  <2>1. \A s \in 1..N : Lengths(bs)[s] = Len(bs[s])
      BY DEF Lengths
  <2>2. \A i, j \in 0..N : i <= j => g[i] <= g[j]
    <3>1. \A s \in 1..N : Lengths(bs)[s] \in Nat
        BY <1>1, <2>1
    <3> DEFINE d == Lengths(bs)
    <3> HIDE DEF d
    <3> QED BY <3>1, SumMonotone DEF d
  <2> QED BY <2>1, <2>2 DEF IsSum
<1>3. /\ p \in Nat /\ o(N) <= n
      /\ \A i \in 1..p : ~IsStart(events[i], name)
      /\ \A i \in o(N) + 1..n : ~IsStart(events[i], name)
    BY DEF InRowAt
<1>4. \A k \in 0..N : o(k) \in 0..n
  <2> SUFFICES ASSUME NEW k \in 0..N PROVE o(k) \in 0..n
      OBVIOUS
  <2> DEFINE c == g[k]
             d == g[N]
  <2>1. c <= d /\ c \in Nat /\ d \in Nat /\ p + d <= n /\ p \in Nat /\ n \in Nat
      BY <1>2, <1>3
  <2> HIDE DEF c, d, n
  <2>2. p + c \in 0..n
      BY <2>1
  <2> QED BY <2>2 DEF c
<1>5. 0 \in T
  <2>1. o(0) = p /\ p \in 0..n /\ f[0] = <<>>
      BY <1>0, <1>2, <1>3, <1>4 DEF BlocksSoFar
  <2>2. f[p] = f[0]
      BY <1>0, <1>3, <2>1, NoBlock
  <2> QED BY <2>1, <2>2, FoundNext
<1>6. ASSUME NEW k \in 0..N, k < N, k \in T PROVE k + 1 \in T
  <2> DEFINE a == o(k)
             b == o(k + 1)
             x == bs[k + 1]
  <2>1. k + 1 \in 1..N /\ (k + 1) - 1 = k /\ k + 1 \in 0..N /\ k \in Nat
      BY <1>6
  <2>2. /\ IsOneBlock(x, name) /\ a \in 0..n /\ b \in 0..n /\ b = a + Len(x) /\ Len(x) \in Nat
        /\ \A j \in 1..Len(x) : events[a + j] = x[j]
    <3>1. b = a + Len(x)
        BY <1>1, <1>2, <1>3, <2>1
    <3>2. \A j \in 1..Len(x) : events[a + j] = x[j]
        BY <2>1 DEF InRowAt
    <3> QED BY <1>1, <1>4, <2>1, <3>1, <3>2
  <2> HIDE DEF x
  <2>3. f[a] = Found(p, g, k)
      BY <1>6
  <2>4. IsList(f[a]) /\ (f[a] # <<>> => Last(f[a]).last = a)
    <3>1. f[a] # <<>> => Last(f[a]).last = BlockAt(p, g, k).last
        BY <2>1, <2>3, FoundNext
    <3>2. BlockAt(p, g, k).last = a
        BY DEF BlockAt
    <3> QED BY <2>1, <2>3, <3>1, <3>2, FoundNext
  <2>5. BlockAt(p, g, k + 1) = [first |-> a + 1, last |-> b]
      BY <2>1 DEF BlockAt
  <2> HIDE DEF a, b
  <2>6. b \in a + 2..n /\ IsBlockAt(events, name, a, b)
    <3>1. Len(x) >= 2 /\ IsStart(x[1], name) /\ IsEnd(x[Len(x)], name)
          /\ \A i \in 1..Len(x) - 1 : ~IsEnd(x[i], name)
        BY <2>2 DEF IsOneBlock
    <3> DEFINE m == Len(x)
    <3>4. m \in Nat /\ m >= 2 /\ a \in Nat /\ b = a + m
        BY <2>2, <3>1
    <3>2. IsStart(events[a + 1], name) /\ IsEnd(events[b], name)
      <4>1. 1 \in 1..m /\ m \in 1..m
          BY <3>4
      <4> QED BY <2>2, <3>1, <3>4, <4>1
    <3>3. ASSUME NEW i \in a + 1..b - 1 PROVE ~IsEnd(events[i], name)
      <4>1. i - a \in 1..Len(x) - 1 /\ a + (i - a) = i /\ i - a \in 1..Len(x)
        <5>1. i - a \in 1..m - 1 /\ a + (i - a) = i /\ i - a \in 1..m
          <6> HIDE DEF m
          <6> QED BY <3>4
        <5> QED BY <5>1
      <4>2. events[i] = x[i - a]
          BY <2>2, <4>1
      <4> QED BY <3>1, <4>1, <4>2
    <3> QED BY <2>2, <3>1, <3>2, <3>3 DEF IsBlockAt
  <2>7. f[b] = Append(f[a], [first |-> a + 1, last |-> b])
      BY <1>0, <2>2, <2>4, <2>6, OneBlock
  <2>8. f[b] = Found(p, g, k + 1)
      BY <2>1, <2>3, <2>5, <2>7, FoundNext
  <2> QED BY <2>1, <2>8 DEF b
<1>7. N \in T
  <2>1. N \in Nat /\ N \in 0..N
      OBVIOUS
  <2> HIDE DEF T
  <2> QED BY <1>5, <1>6, <2>1, CountUp, Zenon
<1>8. f[n] = f[o(N)]
  <2>1. N \in 0..N
      OBVIOUS
  <2>2. o(N) \in 0..n /\ n \in o(N)..n /\ \A i \in o(N) + 1..n : ~IsStart(events[i], name)
      BY <1>3, <1>4, <2>1
  <2> HIDE DEF o
  <2> QED BY <1>0, <2>2, NoBlock
<1>9. Blocks(events, name) = f[n]
    BY <1>0 DEF BlocksSoFar
<1> QED BY <1>7, <1>8, <1>9

LEMMA PlaceBehind ==
    ASSUME NEW q \in Nat, NEW c \in Nat, NEW m \in Nat, NEW top \in Nat, c + m <= top, NEW j \in 1..m
    PROVE  c + j \in 1..top /\ q + (c + j) \in 1..q + top /\ q + (c + j) = q + c + j
OBVIOUS

LEMMA PlaceInPart ==
    ASSUME NEW o \in Nat, NEW n \in Nat, NEW i \in o + 1..o + n PROVE i - o \in 1..n /\ o + (i - o) = i
OBVIOUS

LEMMA PartOfList ==
    ASSUME NEW S, NEW e \in Seq(S), NEW a \in Nat, NEW m \in Nat, a + m <= Len(e)
    PROVE  /\ IsList(SubSeq(e, a + 1, a + m)) /\ Len(SubSeq(e, a + 1, a + m)) = m
           /\ \A j \in 1..m : SubSeq(e, a + 1, a + m)[j] = e[a + j]
<1> DEFINE o == a + 1
           t == a + m
           c == SubSeq(e, o, t)
<1>1. t - o + 1 = m /\ o \in Nat /\ t \in Nat /\ \A j \in 1..m : o + j - 1 = a + j
    OBVIOUS
<1>2. c = [j \in 1..t - o + 1 |-> e[o + j - 1]]
    BY DEF SubSeq
<1> HIDE DEF c, o, t
<1>3. c = [j \in 1..m |-> c[j]] /\ \A j \in 1..m : c[j] = e[a + j]
    BY <1>1, <1>2
<1> QED BY <1>3, FunctionIsList DEF c, o, t

NoStart(list, name) == \A i \in 1..Len(list) : ~IsStart(list[i], name)

\* The blocks of a list cut it into what it was made of.
Cut(events, name, bs, p) ==
    LET b == Blocks(events, name)
    IN  /\ IsList(b) /\ Len(b) = Len(bs)
        /\ \A k \in 1..Len(bs) : Content(events, b[k]) = bs[k] /\ b[k].first # b[k].last
        /\ bs # <<>> => b[1].first = p + 1

LEMMA RowOfBlocks ==
    ASSUME NEW name, NEW bs, IsList(bs), \A s \in 1..Len(bs) : IsList(bs[s]),
           NEW pre, IsList(pre), NoStart(pre, name), NEW post, IsList(post), NoStart(post, name),
           NEW events, events = Joined(Joined(pre, FlattenSeq(bs)), post)
    PROVE  /\ IsList(events)
           /\ \E g : IsSum(g, Lengths(bs), Len(bs)) /\ InRowAt(events, name, bs, Len(pre), g)
<1> DEFINE flat == FlattenSeq(bs)
           body == Joined(pre, flat)
           N == Len(bs)
           p == Len(pre)
<1>1. PICK S : bs \in Seq(Seq(S))
    BY ListsOfLists
<1>2. N \in Nat /\ \A s \in 1..N : Lengths(bs)[s] \in Nat /\ Lengths(bs)[s] = Len(bs[s])
    BY <1>1 DEF Lengths
<1>3. PICK g : IsSum(g, Lengths(bs), N)
  <2> DEFINE d == Lengths(bs)
  <2>1. \A s \in 1..N : d[s] \in Nat
      BY <1>2
  <2> HIDE DEF d
  <2> QED BY <1>2, <2>1, SumExists DEF d
<1>4. IsList(flat) /\ FlatAt(flat, g, bs)
    BY <1>1, <1>3, RangeOfFlat, FlattenPlaces
<1> HIDE DEF flat
<1>5. IsJoin(body, pre, flat)
    BY <1>4, JoinedIsList
<1> HIDE DEF body
<1>6. IsJoin(events, body, post)
  <2>1. IsList(body) /\ events = Joined(body, post)
      BY <1>5 DEF IsJoin, body, flat
  <2> QED BY <2>1, JoinedIsList
<1>7. /\ IsList(body) /\ Len(body) = p + g[N] /\ p \in Nat /\ g[N] \in Nat
      /\ \A i \in 1..p : body[i] = pre[i]
      /\ \A i \in 1..g[N] : body[p + i] = flat[i]
    BY <1>4, <1>5 DEF IsJoin, FlatAt
<1>8. /\ IsList(events) /\ Len(events) = p + g[N] + Len(post) /\ Len(post) \in Nat
      /\ \A i \in 1..p + g[N] : events[i] = body[i]
      /\ \A i \in 1..Len(post) : events[p + g[N] + i] = post[i]
    BY <1>6, <1>7 DEF IsJoin
<1>9. InRowAt(events, name, bs, p, g)
  <2> DEFINE top == g[N]
  <2>5. /\ p \in Nat /\ top \in Nat /\ Len(events) = p + top + Len(post) /\ Len(post) \in Nat
        /\ \A i \in 1..p + top : events[i] = body[i]
        /\ \A i \in 1..p : body[i] = pre[i]
        /\ \A i \in 1..Len(post) : events[p + top + i] = post[i]
      BY <1>7, <1>8
  <2>1. p \in Nat /\ p + g[N] <= Len(events)
      BY <1>7, <1>8
  <2>2. ASSUME NEW s \in 1..N, NEW j \in 1..Len(bs[s]) PROVE events[p + g[s - 1] + j] = bs[s][j]
    <3>1. s - 1 \in 0..N /\ s \in 0..N /\ N \in 0..N /\ s <= N
        BY <1>2
    <3>2. g[s - 1] \in Nat /\ g[s] \in Nat /\ g[s] = g[s - 1] + Len(bs[s]) /\ g[s] <= g[N]
      <4>1. g[s] <= g[N]
        <5> DEFINE d == Lengths(bs)
        <5>1. \A i \in 1..N : d[i] \in Nat
            BY <1>2
        <5> HIDE DEF d
        <5> QED BY <1>2, <1>3, <3>1, <5>1, SumMonotone DEF d
      <4> QED BY <1>2, <1>3, <3>1, <4>1 DEF IsSum
    <3>3. Len(bs[s]) \in Nat
        BY <1>2
    <3>4. g[s - 1] + j \in 1..g[N] /\ p + (g[s - 1] + j) \in 1..p + g[N] /\ p + (g[s - 1] + j) = p + g[s - 1] + j
      <4> DEFINE c == g[s - 1]
                 m == Len(bs[s])
      <4>1. c \in Nat /\ m \in Nat /\ j \in 1..m /\ c + m <= g[N] /\ g[N] \in Nat /\ p \in Nat
          BY <1>7, <3>2, <3>3
      <4> DEFINE q == p
      <4> HIDE DEF c, m, top, q
      <4>3. c + m <= top /\ top \in Nat /\ q \in Nat
          BY <4>1 DEF top, q
      <4>2. c + j \in 1..top /\ q + (c + j) \in 1..q + top /\ q + (c + j) = q + c + j
          BY <4>1, <4>3, PlaceBehind
      <4> QED BY <4>2 DEF c, top, q
    <3>5. flat[g[s - 1] + j] = bs[s][j]
        BY <1>4 DEF FlatAt
    <3> QED BY <1>7, <1>8, <3>4, <3>5
  <2>3. \A i \in 1..p : ~IsStart(events[i], name)
    <3>1. \A i \in 1..p : events[i] = pre[i]
      <4> HIDE DEF top
      <4>1. \A i \in 1..p : i \in 1..p + top
          BY <2>5
      <4> QED BY <2>5, <4>1
    <3> QED BY <3>1 DEF NoStart
  <2>4. ASSUME NEW i \in p + g[N] + 1..Len(events) PROVE ~IsStart(events[i], name)
    <3> DEFINE j == i - (p + g[N])
    <3>1. j \in 1..Len(post) /\ p + g[N] + j = i
      <4> DEFINE o == p + top
      <4>1. o \in Nat /\ Len(post) \in Nat /\ i \in o + 1..o + Len(post)
          BY <2>5
      <4>2. i - o \in 1..Len(post) /\ o + (i - o) = i
        <5> HIDE DEF o
        <5> QED BY <4>1, PlaceInPart
      <4> QED BY <4>2
    <3> HIDE DEF j
    <3> QED BY <1>8, <3>1 DEF NoStart
  <2> QED BY <2>1, <2>2, <2>3, <2>4 DEF InRowAt
<1> QED BY <1>3, <1>8, <1>9

\* The code behaviour is that the text is cut into the very elements it was made of.
LEMMA CutInto ==
    ASSUME NEW name, NEW bs, IsList(bs), \A s \in 1..Len(bs) : IsOneBlock(bs[s], name),
           NEW pre, IsList(pre), NoStart(pre, name), NEW post, IsList(post), NoStart(post, name),
           NEW events, events = Joined(Joined(pre, FlattenSeq(bs)), post)
    PROVE  IsList(events) /\ Cut(events, name, bs, Len(pre))
<1> DEFINE N == Len(bs)
           p == Len(pre)
           b == Blocks(events, name)
<1>1. \A s \in 1..N : IsList(bs[s])
    BY DEF IsOneBlock
<1>2. IsList(events)
    BY <1>1, RowOfBlocks
<1>3. PICK g : IsSum(g, Lengths(bs), N) /\ InRowAt(events, name, bs, p, g)
    BY <1>1, RowOfBlocks
<1>4. N \in Nat /\ Len(events) \in Nat /\ p \in Nat
    BY <1>2 DEF IsList
<1>5. b = Found(p, g, N)
    BY <1>3, <1>4, BlocksInRow
<1>6. IsList(b) /\ Len(b) = N
    BY <1>4, <1>5, FoundNext
<1>7. \A k \in 1..N : b[k] = BlockAt(p, g, k)
    BY <1>5 DEF Found
<1> HIDE DEF b
<1>8. ASSUME NEW k \in 1..N
      PROVE  Content(events, b[k]) = bs[k] /\ b[k].first # b[k].last
  <2> DEFINE a == p + g[k - 1]
             x == bs[k]
             m == Len(x)
             c == SubSeq(events, a + 1, a + m)
  <2>1. IsList(x) /\ m \in Nat /\ m >= 2
      BY DEF IsOneBlock, IsList
  <2>2. g[k - 1] \in Nat /\ g[k] \in Nat /\ g[k] = g[k - 1] + m /\ g[k] <= g[N] /\ g[N] \in Nat
    <3>1. k - 1 \in 0..N /\ k \in 0..N /\ N \in 0..N /\ k <= N
        BY <1>4
    <3>2. \A i \in 1..N : Lengths(bs)[i] \in Nat /\ Lengths(bs)[i] = Len(bs[i])
        BY <1>1 DEF Lengths, IsList
    <3>3. g[k] <= g[N]
      <4> DEFINE d == Lengths(bs)
      <4>1. \A i \in 1..N : d[i] \in Nat
          BY <3>2
      <4> HIDE DEF d
      <4> QED BY <1>3, <1>4, <3>1, <4>1, SumMonotone DEF d
    <3> QED BY <1>3, <3>1, <3>2, <3>3 DEF IsSum
  <2>3. a \in Nat /\ p + g[k] = a + m /\ a + m <= Len(events)
    <3> DEFINE q == p
               low == g[k - 1]
               d == g[k]
               top == g[N]
    <3>1. q + top <= Len(events)
        BY <1>3 DEF InRowAt
    <3>2. low \in Nat /\ d \in Nat /\ d = low + m /\ d <= top /\ top \in Nat /\ q \in Nat /\ m \in Nat /\ Len(events) \in Nat
        BY <1>4, <2>1, <2>2
    <3>3. q + low \in Nat /\ q + d = q + low + m /\ q + low + m <= Len(events)
      <4> HIDE DEF q, low, d, top, m
      <4> QED BY <3>1, <3>2
    <3> QED BY <3>3
  <2>4. b[k] = [first |-> a + 1, last |-> a + m]
      BY <1>7, <2>3 DEF BlockAt
  <2>5. \A j \in 1..m : events[a + j] = x[j]
      BY <1>3 DEF InRowAt
  <2> HIDE DEF a, x, m
  <2>6. Content(events, b[k]) = c
    <3>1. b[k].first = a + 1 /\ b[k].last = a + m
        BY <2>4
    <3> QED BY <3>1, Zenon DEF Content
  <2>7. IsList(c) /\ Len(c) = m /\ \A j \in 1..m : c[j] = events[a + j]
    <3>1. events \in Seq(Range(events))
        BY <1>2 DEF IsList
    <3> DEFINE S == Range(events)
    <3> HIDE DEF S
    <3>2. events \in Seq(S)
        BY <3>1 DEF S
    <3> QED BY <2>1, <2>3, <3>2, PartOfList
  <2> HIDE DEF c
  <2>8. c = x
    <3>1. Len(x) = m
        BY DEF m
    <3> QED BY <2>1, <2>5, <2>7, <3>1, SameLists
  <2> QED BY <2>1, <2>3, <2>4, <2>6, <2>8 DEF x
<1>9. bs # <<>> => b[1].first = p + 1
  <2>1. bs # <<>> => 1 \in 1..N
      BY DEF IsList
  <2>2. BlockAt(p, g, 1).first = p + g[0] + 1
      BY DEF BlockAt
  <2>3. g[0] = 0
      BY <1>3 DEF IsSum
  <2>4. bs # <<>> => b[1] = BlockAt(p, g, 1)
      BY <1>7, <2>1
  <2>5. p + g[0] + 1 = p + 1
      BY <1>4, <2>3
  <2> QED BY <2>2, <2>4, <2>5
<1> QED BY <1>2, <1>6, <1>8, <1>9 DEF Cut, b

\* What is in an element of the name, if it has no such elements itself, is one block.
Free(list, name) == \A e \in Range(list) : ~IsStart(e, name) /\ ~IsEnd(e, name)

LEMMA FreeHasNoStart ==
    ASSUME NEW list, IsList(list), NEW name, Free(list, name)
    PROVE  NoStart(list, name) /\ \A i \in 1..Len(list) : ~IsEnd(list[i], name)
BY ItemsInRange DEF Free, NoStart

\* An element with none of its own name in it ends where its block does.
LEMMA ElementIsBlock ==
    ASSUME NEW name, NEW attributes, NEW c, IsList(c), Free(c, name)
    PROVE  IsOneBlock(Element(name, attributes, c), name)
<1> DEFINE z == Element(name, attributes, c)
<1>1. ElementAt(z, name, attributes, c)
    BY ElementItems
<1> HIDE DEF z
<1>2. /\ IsList(z) /\ Len(z) = Len(c) + 2 /\ Len(c) \in Nat
      /\ z[1] = Start(name, attributes) /\ z[Len(z)] = End(name)
      /\ \A i \in 1..Len(c) : z[i + 1] = c[i]
    BY <1>1 DEF ElementAt
<1>3. IsStart(z[1], name) /\ IsEnd(z[Len(z)], name) /\ ~IsEnd(z[1], name)
    BY <1>2 DEF IsStart, IsEnd, Start, End
<1>4. ASSUME NEW i \in 1..Len(z) - 1 PROVE ~IsEnd(z[i], name)
  <2>1. CASE i = 1
      BY <1>3, <2>1
  <2>2. CASE i # 1
    <3>1. i - 1 \in 1..Len(c) /\ (i - 1) + 1 = i
        BY <1>2, <2>2
    <3>2. z[i] = c[i - 1]
        BY <1>2, <3>1
    <3> QED BY <3>1, <3>2, FreeHasNoStart
  <2> QED BY <2>1, <2>2
<1> QED BY <1>2, <1>3, <1>4 DEF IsOneBlock, z

-----------------------------------------------------------------------------
(* Lists made of others item by item *)

\* The items of a list, as a function has them.
Mapped(g, s) == [i \in 1..Len(s) |-> g[s[i]]]

\* What is made of a list grows with it.
LEMMA MappedNext ==
    ASSUME NEW g, NEW S, NEW s \in Seq(S), NEW x
    PROVE  /\ IsList(Mapped(g, s)) /\ Len(Mapped(g, s)) = Len(s) /\ Len(s) \in Nat
           /\ Mapped(g, Append(s, x)) = Append(Mapped(g, s), g[x])
           /\ Mapped(g, <<>>) = <<>>
<1> DEFINE r == Append(s, x)
           u == Mapped(g, s)
           v == Mapped(g, r)
<1>1. Len(r) = Len(s) + 1 /\ Len(s) \in Nat /\ r[Len(s) + 1] = x /\ \A i \in 1..Len(s) : r[i] = s[i]
    OBVIOUS
<1> HIDE DEF r
<1>2. u = [i \in 1..Len(s) |-> g[s[i]]] /\ v = [i \in 1..Len(s) + 1 |-> g[r[i]]]
    BY <1>1 DEF Mapped
<1>3. v[Len(s) + 1] = g[x]
    BY <1>1, <1>2
<1>4. GrowsByOne(u, v, Len(s))
  <2>1. u = [i \in 1..Len(s) |-> u[i]] /\ v = [i \in 1..Len(s) + 1 |-> v[i]]
      BY <1>2
  <2>2. \A i \in 1..Len(s) : v[i] = u[i]
      BY <1>1, <1>2
  <2> HIDE DEF u, v
  <2> QED BY <1>1, <2>1, <2>2 DEF GrowsByOne
<1>5. v = Append(u, v[Len(s) + 1])
  <2> HIDE DEF u, v
  <2> QED BY <1>4, OneMore, Zenon
<1>6. IsList(u) /\ Len(u) = Len(s)
  <2>1. u = [i \in 1..Len(s) |-> u[i]]
      BY <1>2
  <2> HIDE DEF u
  <2> QED BY <1>1, <2>1, FunctionIsList
<1>7. Mapped(g, <<>>) = <<>>
    BY DEF Mapped
<1> QED BY <1>1, <1>3, <1>5, <1>6, <1>7 DEF r

\* To choose from what a list was made into is to choose from the list.
LEMMA ChosenMapped ==
    ASSUME NEW g, NEW S, NEW s \in Seq(S), NEW I
    PROVE  Chosen(Mapped(g, s), I) = Mapped(g, Chosen(s, I))
<1> DEFINE T == {r \in Seq(S) : Chosen(Mapped(g, r), I) = Mapped(g, Chosen(r, I))}
<1>1. <<>> \in T
  <2>1. Mapped(g, <<>>) = <<>> /\ <<>> \in Seq(S)
      BY DEF Mapped
  <2> QED BY <2>1, ChosenOfEmpty
<1>2. ASSUME NEW r \in Seq(S), NEW x \in S, r \in T PROVE Append(r, x) \in T
  <2> DEFINE n == Append(r, x)
             c == Chosen(r, I)
             m == Mapped(g, r)
  <2>1. n \in Seq(S)
      OBVIOUS
  <2>2. c \in Seq(S)
      BY ChosenType
  <2>3. IsList(m) /\ Len(m) = Len(r) /\ Mapped(g, n) = Append(m, g[x])
      BY MappedNext
  <2>4. Chosen(n, I) = IF Len(r) + 1 \in I THEN Append(c, x) ELSE c
      BY ChosenOfAppend
  <2>5. Chosen(m, I) = Mapped(g, c)
      BY <1>2
  <2> HIDE DEF n, c, m
  <2>6. Chosen(Append(m, g[x]), I) = IF Len(m) + 1 \in I THEN Append(Chosen(m, I), g[x]) ELSE Chosen(m, I)
    <3> DEFINE V == Range(m) \union {g[x]}
               y == g[x]
    <3>1. y \in V
        OBVIOUS
    <3>2. m \in Seq(V)
      <4>1. m \in Seq(Range(m)) /\ Range(m) \subseteq V
          BY <2>3 DEF IsList
      <4> HIDE DEF V
      <4> QED BY <4>1
    <3> HIDE DEF V, y
    <3>3. Chosen(Append(m, y), I) = IF Len(m) + 1 \in I THEN Append(Chosen(m, I), y) ELSE Chosen(m, I)
        BY <3>1, <3>2, ChosenOfAppend
    <3> QED BY <3>3 DEF y
  <2>7. Mapped(g, Append(c, x)) = Append(Mapped(g, c), g[x])
      BY <2>2, MappedNext
  <2>8. Chosen(Mapped(g, n), I) = Mapped(g, Chosen(n, I))
      BY <2>3, <2>4, <2>5, <2>6, <2>7
  <2> QED BY <2>1, <2>8 DEF n
<1> HIDE DEF T
<1>3. s \in T
    BY <1>1, <1>2, ListInduction
<1> QED BY <1>3 DEF T

LEMMA MappedJoined ==
    ASSUME NEW g, NEW S, NEW a \in Seq(S), NEW b \in Seq(S)
    PROVE  Mapped(g, Joined(a, b)) = Joined(Mapped(g, a), Mapped(g, b))
<1> DEFINE z == Joined(a, b)
           u == Mapped(g, a)
           v == Mapped(g, b)
           w == Mapped(g, z)
<1>1. IsJoin(z, a, b)
    BY SeqIsList, JoinedIsList
<1> HIDE DEF z
<1>2. z \in Seq(Range(z)) /\ IsList(z) /\ Len(z) = Len(a) + Len(b) /\ Len(a) \in Nat /\ Len(b) \in Nat
      /\ (\A i \in 1..Len(a) : z[i] = a[i]) /\ (\A i \in 1..Len(b) : z[Len(a) + i] = b[i])
    BY <1>1 DEF IsJoin, IsList
<1>3. IsList(u) /\ Len(u) = Len(a) /\ IsList(v) /\ Len(v) = Len(b) /\ IsList(w) /\ Len(w) = Len(z)
    BY <1>2, MappedNext
<1>4. /\ \A i \in 1..Len(a) : u[i] = g[a[i]]
      /\ \A i \in 1..Len(b) : v[i] = g[b[i]]
      /\ \A i \in 1..Len(z) : w[i] = g[z[i]]
    BY DEF Mapped
<1> HIDE DEF u, v, w
<1> DEFINE y == Joined(u, v)
<1>5. IsJoin(y, u, v)
    BY <1>3, JoinedIsList
<1> HIDE DEF y
<1>6. IsList(y) /\ Len(y) = Len(w)
    BY <1>2, <1>3, <1>5 DEF IsJoin
<1>7. ASSUME NEW i \in 1..Len(w) PROVE w[i] = y[i]
  <2>1. i \in 1..Len(z)
      BY <1>3
  <2>2. CASE i <= Len(a)
    <3>1. i \in 1..Len(a)
        BY <1>2, <2>1, <2>2
    <3> QED BY <1>2, <1>3, <1>4, <1>5, <2>1, <3>1 DEF IsJoin
  <2>3. CASE i > Len(a)
    <3>1. i - Len(a) \in 1..Len(b) /\ Len(a) + (i - Len(a)) = i
        BY <1>2, <2>1, <2>3
    <3>2. z[i] = b[i - Len(a)]
        BY <1>2, <3>1
    <3>3. y[i] = v[i - Len(a)]
        BY <1>3, <1>5, <3>1 DEF IsJoin
    <3> QED BY <1>4, <2>1, <3>1, <3>2, <3>3
  <2> QED BY <1>2, <2>1, <2>2, <2>3
<1>8. w = y
    BY <1>3, <1>6, <1>7, SameLists
<1> QED BY <1>8 DEF w, y, z, u, v

\* What several lists were made into, in a row.
AllMapped(g, ss) == [i \in 1..Len(ss) |-> Mapped(g, ss[i])]

\* Whether what is made of lists is put together or made of them together is the same.
LEMMA FlattenMapped ==
    ASSUME NEW g, NEW S, NEW ss \in Seq(Seq(S))
    PROVE  FlattenSeq(AllMapped(g, ss)) = Mapped(g, FlattenSeq(ss))
<1> DEFINE V == {g[x] : x \in S}
           T == {r \in Seq(Seq(S)) : FlattenSeq(AllMapped(g, r)) = Mapped(g, FlattenSeq(r))}
<1>0. \A r \in Seq(S) : Mapped(g, r) \in Seq(V)
  <2> SUFFICES ASSUME NEW r \in Seq(S) PROVE Mapped(g, r) \in Seq(V)
      OBVIOUS
  <2>1. \A i \in 1..Len(r) : r[i] \in S
      OBVIOUS
  <2>2. \A i \in 1..Len(r) : g[r[i]] \in V
      BY <2>1
  <2> HIDE DEF V
  <2> QED BY <2>2 DEF Mapped
<1> HIDE DEF V
<1>1. <<>> \in T
  <2>1. AllMapped(g, <<>>) = <<>> /\ Mapped(g, <<>>) = <<>> /\ <<>> \in Seq(Seq(S))
      BY DEF Mapped, AllMapped
  <2> QED BY <2>1, FlattenOfEmpty
<1>2. ASSUME NEW r \in Seq(Seq(S)), NEW e \in Seq(S), r \in T PROVE Append(r, e) \in T
  <2> DEFINE n == Append(r, e)
             u == AllMapped(g, r)
             v == AllMapped(g, n)
             f == FlattenSeq(r)
             y == Mapped(g, e)
  <2>1. n \in Seq(Seq(S)) /\ Len(n) = Len(r) + 1 /\ Len(r) \in Nat /\ n[Len(r) + 1] = e
        /\ \A i \in 1..Len(r) : n[i] = r[i]
      OBVIOUS
  <2>2. FlattenSeq(n) = Joined(f, e) /\ f \in Seq(S)
      BY FlattenOfAppend, FlattenType
  <2>3. FlattenSeq(u) = Mapped(g, f)
      BY <1>2
  <2> HIDE DEF n
  <2>4. u \in Seq(Seq(V))
    <3>1. \A i \in 1..Len(r) : Mapped(g, r[i]) \in Seq(V)
        BY <1>0
    <3> QED BY <2>1, <3>1 DEF AllMapped
  <2>5. y \in Seq(V)
      BY <1>0
  <2>6. v = Append(u, y)
    <3>1. v[Len(r) + 1] = y
        BY <2>1 DEF AllMapped
    <3>2. GrowsByOne(u, v, Len(r))
      <4>1. u = [i \in 1..Len(r) |-> u[i]] /\ v = [i \in 1..Len(r) + 1 |-> v[i]]
          BY <2>1 DEF AllMapped
      <4>2. \A i \in 1..Len(r) : v[i] = u[i]
          BY <2>1 DEF AllMapped
      <4> HIDE DEF u, v
      <4> QED BY <2>1, <4>1, <4>2 DEF GrowsByOne
    <3> HIDE DEF u, v, y
    <3> QED BY <3>1, <3>2, OneMore, Zenon
  <2> HIDE DEF u, v, y, f
  <2>7. FlattenSeq(v) = Joined(FlattenSeq(u), y)
      BY <2>4, <2>5, <2>6, FlattenOfAppend
  <2>8. Joined(Mapped(g, f), y) = Mapped(g, Joined(f, e))
      BY <2>2, MappedJoined DEF y
  <2>9. FlattenSeq(v) = Mapped(g, FlattenSeq(n))
      BY <2>2, <2>3, <2>7, <2>8
  <2> QED BY <2>1, <2>9 DEF n, v
<1> HIDE DEF T
<1>3. ss \in T
  <2> DEFINE E == Seq(S)
  <2>1. <<>> \in T /\ \A r \in Seq(E), e \in E : r \in T => Append(r, e) \in T
      BY <1>1, <1>2
  <2>2. ss \in Seq(E)
      OBVIOUS
  <2> HIDE DEF E
  <2> QED BY <2>1, <2>2, ListInduction
<1> QED BY <1>3 DEF T

LEMMA FlattenOne == ASSUME NEW x, IsList(x) PROVE FlattenSeq(<<x>>) = x
<1>1. x \in Seq(Range(x)) /\ <<>> \in Seq(Seq(Range(x)))
    BY DEF IsList
<1>2. FlattenSeq(Append(<<>>, x)) = Joined(FlattenSeq(<<>>), x)
    BY <1>1, FlattenOfAppend
<1>3. Append(<<>>, x) = <<x>>
    OBVIOUS
<1>4. Joined(<<>>, x) = x
    BY <1>1, JoinedToEmpty
<1> QED BY <1>2, <1>3, <1>4, FlattenOfEmpty

-----------------------------------------------------------------------------
(* What the elements of an MPD are named *)

\* Lists can be put together in any order of joining.
LEMMA JoinLists ==
    ASSUME NEW a, IsList(a), NEW b, IsList(b), NEW c, IsList(c)
    PROVE  Joined(a, Joined(b, c)) = Joined(Joined(a, b), c)
<1> DEFINE S == Range(a) \union Range(b) \union Range(c)
<1>1. Range(a) \subseteq S /\ Range(b) \subseteq S /\ Range(c) \subseteq S
    OBVIOUS
<1>2. a \in Seq(Range(a)) /\ b \in Seq(Range(b)) /\ c \in Seq(Range(c))
    BY DEF IsList
<1> HIDE DEF S
<1>3. a \in Seq(S) /\ b \in Seq(S) /\ c \in Seq(S)
    BY <1>1, <1>2
<1> QED BY <1>3, JoinsInRow

LEMMA ElementIsJoined ==
    ASSUME NEW name, NEW attributes, NEW c
    PROVE  Element(name, attributes, c) = Joined(Joined(<< Start(name, attributes) >>, c), << End(name) >>)
BY DEF Element, Joined

Named(list, names) == IsList(list) /\ \A x \in Range(list) : x.name \in names

LEMMA NamedJoined ==
    ASSUME NEW names, NEW a, Named(a, names), NEW b, Named(b, names)
    PROVE  Named(Joined(a, b), names)
<1>1. IsList(Joined(a, b)) /\ Range(Joined(a, b)) = Range(a) \union Range(b)
    BY RangeOfJoined DEF Named
<1> QED BY <1>1 DEF Named

LEMMA NamedElement ==
    ASSUME NEW names, NEW name \in names, NEW attributes, NEW c, Named(c, names)
    PROVE  Named(Element(name, attributes, c), names)
<1> DEFINE z == Element(name, attributes, c)
           d == Start(name, attributes)
           e == End(name)
<1>1. IsList(z) /\ Range(z) = {d, e} \union Range(c)
    BY ElementItems DEF ElementAt, ElementHas, Named
<1>2. d.name = name /\ e.name = name
    BY DEF Start, End
<1> HIDE DEF z, d, e
<1>3. Named(z, names)
    BY <1>1, <1>2 DEF Named
<1> QED BY <1>3 DEF z

LEMMA NamedFlat ==
    ASSUME NEW names, NEW lists, IsList(lists), \A i \in 1..Len(lists) : Named(lists[i], names)
    PROVE  Named(FlattenSeq(lists), names)
<1>1. \A i \in 1..Len(lists) : IsList(lists[i])
    BY DEF Named
<1>2. IsList(FlattenSeq(lists)) /\ HasItems(FlattenSeq(lists), lists)
    BY <1>1, FlatItems
<1> QED BY <1>2 DEF HasItems, Named

LEMMA NamedOnly == ASSUME NEW names, NEW list, Only(list, names) PROVE Named(list, names)
<1>1. IsList(list) /\ \A k \in 1..Len(list) : list[k].name \in names
    BY DEF Only
<1> QED BY <1>1, ItemsInRange DEF Named

LEMMA NamedMore ==
    ASSUME NEW a, NEW b, a \subseteq b, NEW list, Named(list, a)
    PROVE  Named(list, b)
BY DEF Named

LEMMA NamedOne == ASSUME NEW names, NEW x, x.name \in names PROVE Named(<<x>>, names)
<1>1. IsList(<<x>>)
    BY ShortLists, Zenon
<1>2. Range(<<x>>) = {x}
    BY RangeOfShort
<1> QED BY <1>1, <1>2 DEF Named

LEMMA NamedNone == ASSUME NEW names PROVE Named(<<>>, names)
BY EmptyIsList, RangeOfShort DEF Named

LEMMA NamedFree == ASSUME NEW names, NEW name, name \notin names, NEW list, Named(list, names) PROVE Free(list, name)
BY DEF Named, Free, IsStart, IsEnd

FileElements == {"none", "BaseURL", "SegmentBase", "Initialization"}
SetElements  == FileElements \union TemplateElements \union {"Representation"}

LEMMA FileNames ==
    ASSUME NEW file
    PROVE  Named(BaseUrl(file), FileElements)
<1> DEFINE t == << Text(file.url) >>
<1>1. Text(file.url).name = "none"
    BY DEF Text
<1>2. Named(t, FileElements)
    BY <1>1, NamedOne DEF FileElements
<1> HIDE DEF t
<1>3. Named(Element("BaseURL", NoAttributes, t), FileElements)
    BY <1>2, NamedElement DEF FileElements
<1>4. CASE file.present = TRUE
    BY <1>3, <1>4 DEF BaseUrl, t
<1>5. CASE ~(file.present = TRUE)
  <2>1. IF file.present THEN BaseUrl(file) = Element("BaseURL", NoAttributes, t) ELSE BaseUrl(file) = <<>>
      BY DEF BaseUrl, t
  <2> QED BY <1>3, <2>1, NamedNone
<1> QED BY <1>4, <1>5

LEMMA IndexForm == ASSUME NEW rep PROVE IndexOf(rep) = Joined(BaseUrl(rep.file), BaseEvents(rep))
BY DEF IndexOf, BaseEvents, IndexAttributes, Joined

LEMMA BaseNames ==
    ASSUME NEW rep
    PROVE  Named(BaseEvents(rep), FileElements)
<1> DEFINE x == Empty("Initialization", [range |-> rep.init])
           i == << x >>
<1>1. x.name = "Initialization"
    BY DEF Empty
<1> HIDE DEF x
<1>2. Named(i, FileElements)
    BY <1>1, NamedOne DEF FileElements
<1> HIDE DEF i
<1>3. Named(Element("SegmentBase", IndexAttributes(rep), i), FileElements)
    BY <1>2, NamedElement DEF FileElements
<1>4. IF ~rep.indexed THEN BaseEvents(rep) = <<>>
      ELSE BaseEvents(rep) = Element("SegmentBase", IndexAttributes(rep), i)
    BY DEF BaseEvents, i, x
<1> QED BY <1>3, <1>4, NamedNone

LEMMA IndexNames == ASSUME NEW rep PROVE Named(IndexOf(rep), FileElements)
BY IndexForm, FileNames, BaseNames, NamedJoined

\* A Representation is one block of a document.
LEMMA RepIsBlock ==
    ASSUME NEW rep
    PROVE  /\ IsOneBlock(RepEvents(rep), "Representation") /\ Named(RepEvents(rep), SetElements)
           /\ IsList(IndexOf(rep)) /\ IsList(RepEvents(rep))
<1>1. Named(IndexOf(rep), FileElements) /\ IsList(IndexOf(rep))
    BY IndexNames DEF Named
<1>2. Free(IndexOf(rep), "Representation")
    BY <1>1, NamedFree DEF FileElements
<1>3. Named(IndexOf(rep), SetElements)
    BY <1>1, NamedMore DEF SetElements
<1>4. Named(Element("Representation", RepAttributes(rep), IndexOf(rep)), SetElements)
    BY <1>3, NamedElement DEF SetElements
<1>5. IsOneBlock(Element("Representation", RepAttributes(rep), IndexOf(rep)), "Representation")
    BY <1>1, <1>2, ElementIsBlock
<1> QED BY <1>1, <1>4, <1>5 DEF RepEvents, Named

LEMMA RepsForm ==
    ASSUME NEW reps, IsList(reps)
    PROVE  /\ IsList(RepsEvents(reps)) /\ Len(RepsEvents(reps)) = Len(reps) /\ Len(reps) \in Nat
           /\ \A r \in 1..Len(reps) : RepsEvents(reps)[r] = RepEvents(reps[r])
           /\ \A r \in 1..Len(reps) : IsOneBlock(RepsEvents(reps)[r], "Representation")
           /\ \A r \in 1..Len(reps) : IsList(RepsEvents(reps)[r])
           /\ Named(FlattenSeq(RepsEvents(reps)), SetElements)
<1> DEFINE l == RepsEvents(reps)
<1>1. l = [r \in 1..Len(reps) |-> l[r]] /\ \A r \in 1..Len(reps) : l[r] = RepEvents(reps[r])
    BY DEF RepsEvents
<1> HIDE DEF l
<1>2. Len(reps) \in Nat
    BY DEF IsList
<1>3. IsList(l) /\ Len(l) = Len(reps)
    BY <1>1, <1>2, FunctionIsList
<1>4. \A r \in 1..Len(reps) : IsOneBlock(l[r], "Representation") /\ Named(l[r], SetElements) /\ IsList(l[r])
    BY <1>1, RepIsBlock
<1>5. Named(FlattenSeq(l), SetElements)
    BY <1>3, <1>4, NamedFlat
<1> QED BY <1>1, <1>2, <1>3, <1>4, <1>5 DEF l

HasLists(set) == IsList(set.timeline) /\ IsList(set.reps)

\* No element of a set is a set.
LEMMA ContentNames ==
    ASSUME NEW set, HasLists(set)
    PROVE  Named(SetContentOf(set), SetElements) /\ Named(TemplateOf(set), TemplateElements)
<1>1. Named(TemplateOf(set), TemplateElements)
    BY TemplateForm, NamedOnly DEF HasLists
<1>2. Named(TemplateOf(set), SetElements)
    BY <1>1, NamedMore DEF SetElements
<1>3. Named(FlattenSeq(RepsEvents(set.reps)), SetElements)
    BY RepsForm DEF HasLists
<1> QED BY <1>1, <1>2, <1>3, NamedJoined DEF SetContentOf

\* A set is one block of a document, and its Representations are blocks of it.
LEMMA SetIsBlock ==
    ASSUME NEW set, HasLists(set)
    PROVE  IsOneBlock(SetEvents(set), "AdaptationSet") /\ IsList(SetEvents(set))
<1>1. Named(SetContentOf(set), SetElements) /\ IsList(SetContentOf(set))
    BY ContentNames DEF Named
<1>2. Free(SetContentOf(set), "AdaptationSet")
    BY <1>1, NamedFree DEF SetElements, FileElements, TemplateElements
<1>3. IsOneBlock(Element("AdaptationSet", SetAttributesOf(set), SetContentOf(set)), "AdaptationSet")
    BY <1>1, <1>2, ElementIsBlock
<1> QED BY <1>3, SetForm DEF IsOneBlock

LEMMA SetsForm ==
    ASSUME NEW sets, IsList(sets), \A s \in 1..Len(sets) : HasLists(sets[s])
    PROVE  /\ IsList(SetsEvents(sets)) /\ Len(SetsEvents(sets)) = Len(sets) /\ Len(sets) \in Nat
           /\ \A s \in 1..Len(sets) : SetsEvents(sets)[s] = SetEvents(sets[s])
           /\ \A s \in 1..Len(sets) : IsOneBlock(SetsEvents(sets)[s], "AdaptationSet")
           /\ \A s \in 1..Len(sets) : IsList(SetsEvents(sets)[s])
           /\ IsList(FlattenSeq(SetsEvents(sets)))
<1> DEFINE l == SetsEvents(sets)
<1>1. l = [s \in 1..Len(sets) |-> l[s]] /\ \A s \in 1..Len(sets) : l[s] = SetEvents(sets[s])
    BY DEF SetsEvents
<1> HIDE DEF l
<1>2. Len(sets) \in Nat
    BY DEF IsList
<1>3. IsList(l) /\ Len(l) = Len(sets)
    BY <1>1, <1>2, FunctionIsList
<1>4. \A s \in 1..Len(sets) : IsOneBlock(l[s], "AdaptationSet") /\ IsList(l[s])
    BY <1>1, SetIsBlock
<1>5. IsList(FlattenSeq(l))
    BY <1>3, <1>4, FlatItems
<1> QED BY <1>1, <1>2, <1>3, <1>4, <1>5 DEF l

-----------------------------------------------------------------------------
(* A document is taken apart into its sets *)

\* What is before the sets of an MPD, and behind them.
MpdOpening(mpd) == << Start("MPD", MpdStart(mpd)), Start("Period", NoAttributes) >>
MpdClosing      == << End("Period"), End("MPD") >>

LEMMA PairIsJoined == ASSUME NEW a, NEW b PROVE Joined(<<a>>, <<b>>) = <<a, b>>
<1> DEFINE S == {a, b}
           x == <<a>>
           y == <<b>>
           z == <<a, b>>
           u == Joined(x, y)
<1>1. x \in Seq(S) /\ y \in Seq(S) /\ z \in Seq(S)
    OBVIOUS
<1>2. Len(x) = 1 /\ Len(y) = 1 /\ Len(z) = 2 /\ x[1] = a /\ y[1] = b /\ z[1] = a /\ z[2] = b
    OBVIOUS
<1> HIDE DEF S, x, y, z
<1>3. IsList(x) /\ IsList(y) /\ IsList(z)
    BY <1>1, SeqIsList
<1>4. IsJoin(u, x, y)
    BY <1>3, JoinedIsList
<1> HIDE DEF u
<1>5. IsList(u) /\ Len(u) = 2 /\ u[1] = a /\ u[1 + 1] = b
    BY <1>2, <1>4 DEF IsJoin
<1>6. \A i \in 1..2 : u[i] = z[i]
    BY <1>2, <1>5
<1>7. u = z
    BY <1>2, <1>3, <1>5, <1>6, SameLists
<1> QED BY <1>7 DEF u, x, y, z

LEMMA ElementInElement ==
    ASSUME NEW a, NEW b, NEW c, NEW d, NEW f, IsList(f)
    PROVE  Joined(Joined(<<a>>, Joined(Joined(<<b>>, f), <<c>>)), <<d>>) = Joined(Joined(<<a, b>>, f), <<c, d>>)
<1> DEFINE k == <<a>>
           l == <<b>>
           m == <<c>>
           n == <<d>>
<1>1. IsList(k) /\ IsList(l) /\ IsList(m) /\ IsList(n)
    BY ShortLists, Zenon
<1>2. Joined(k, l) = <<a, b>> /\ Joined(m, n) = <<c, d>>
    BY PairIsJoined
<1> HIDE DEF k, l, m, n
<1> DEFINE lf == Joined(l, f)
           kl == Joined(k, l)
           x == Joined(kl, f)
<1>3. IsList(lf) /\ IsList(kl)
    BY <1>1, JoinedIsList DEF IsJoin
<1>4. IsList(x)
    BY <1>3, RangeOfJoined
<1>5. Joined(k, Joined(lf, m)) = Joined(Joined(k, lf), m)
  <2> HIDE DEF lf
  <2> QED BY <1>1, <1>3, JoinLists
<1>6. Joined(k, lf) = x
    BY <1>1, JoinLists
<1>7. Joined(Joined(x, m), n) = Joined(x, Joined(m, n))
  <2> HIDE DEF x
  <2> QED BY <1>1, <1>4, JoinLists
<1> HIDE DEF lf, x
<1>8. Joined(Joined(k, Joined(lf, m)), n) = Joined(x, Joined(m, n))
    BY <1>5, <1>6, <1>7
<1> QED BY <1>2, <1>8 DEF lf, x, k, l, m, n, kl

\* An MPD without a BaseURL is its sets, within its own tags.
LEMMA MpdForm ==
    ASSUME NEW mpd, ~mpd.base.present, IsList(FlattenSeq(SetsEvents(mpd.sets)))
    PROVE  MpdEvents(mpd) = Joined(Joined(MpdOpening(mpd), FlattenSeq(SetsEvents(mpd.sets))), MpdClosing)
<1> DEFINE f == FlattenSeq(SetsEvents(mpd.sets))
           a == Start("MPD", MpdStart(mpd))
           b == Start("Period", NoAttributes)
           c == End("Period")
           d == End("MPD")
           period == Element("Period", NoAttributes, f)
<1>1. MpdEvents(mpd) = Element("MPD", MpdStart(mpd), BaseUrl(mpd.base) \o period)
    BY DEF MpdEvents, MpdStart, SetsEvents
<1>2. period = Joined(Joined(<<b>>, f), <<c>>)
    BY ElementIsJoined
<1>3. IsList(period)
    BY ElementItems DEF ElementAt
<1>4. BaseUrl(mpd.base) = <<>>
    BY DEF BaseUrl
<1> HIDE DEF period
<1>5. BaseUrl(mpd.base) \o period = period
  <2>1. period \in Seq(Range(period))
      BY <1>3 DEF IsList
  <2> QED BY <1>4, <2>1
<1>6. Element("MPD", MpdStart(mpd), period) = Joined(Joined(<<a>>, period), <<d>>)
    BY ElementIsJoined
<1> HIDE DEF f, a, b, c, d
<1>7. MpdEvents(mpd) = Joined(Joined(<<a>>, Joined(Joined(<<b>>, f), <<c>>)), <<d>>)
    BY <1>1, <1>2, <1>5, <1>6
<1>8. IsList(f)
    BY DEF f
<1>9. MpdEvents(mpd) = Joined(Joined(<<a, b>>, f), <<c, d>>)
    BY <1>7, <1>8, ElementInElement
<1> QED BY <1>9 DEF MpdOpening, MpdClosing, f, a, b, c, d

\* AdaptationSets finds the sets of an MPD as they were written.
LEMMA MpdTakenApart ==
    ASSUME NEW mpd, ~mpd.base.present, IsList(mpd.sets), \A s \in 1..Len(mpd.sets) : HasLists(mpd.sets[s])
    PROVE  /\ AdaptationSets(MpdEvents(mpd)) = SetsEvents(mpd.sets)
           /\ MpdEvents(mpd)[1] = Start("MPD", MpdStart(mpd))
<1> DEFINE bs == SetsEvents(mpd.sets)
           pre == MpdOpening(mpd)
           post == MpdClosing
           events == MpdEvents(mpd)
           b == Blocks(events, "AdaptationSet")
           n == Len(mpd.sets)
<1>1. /\ IsList(bs) /\ Len(bs) = n /\ n \in Nat /\ IsList(FlattenSeq(bs))
      /\ \A s \in 1..n : IsOneBlock(bs[s], "AdaptationSet")
    BY SetsForm
<1>2. events = Joined(Joined(pre, FlattenSeq(bs)), post)
    BY <1>1, MpdForm
<1>3. IsList(pre) /\ IsList(post)
    BY ShortLists, Zenon DEF MpdOpening, MpdClosing
<1>4. NoStart(pre, "AdaptationSet") /\ NoStart(post, "AdaptationSet")
    BY DEF NoStart, MpdOpening, MpdClosing, IsStart, Start, End
<1>5. events[1] = Start("MPD", MpdStart(mpd))
  <2>1. pre[1] = Start("MPD", MpdStart(mpd)) /\ Len(pre) = 2
      BY DEF MpdOpening
  <2> HIDE DEF pre, post, events, bs
  <2> DEFINE f == FlattenSeq(bs)
             u == Joined(pre, f)
  <2>2. IsJoin(u, pre, f)
      BY <1>1, <1>3, JoinedIsList
  <2> HIDE DEF u, f
  <2>3. IsList(u) /\ u[1] = pre[1] /\ Len(u) >= 2
      BY <2>1, <2>2 DEF IsJoin
  <2>4. IsJoin(events, u, post)
      BY <1>2, <1>3, <2>3, JoinedIsList DEF u, f
  <2>5. 1 \in 1..Len(u)
      BY <2>3, <2>4 DEF IsJoin
  <2> QED BY <2>1, <2>3, <2>4, <2>5 DEF IsJoin
<1> HIDE DEF pre, post, bs
<1>6. Cut(events, "AdaptationSet", bs, Len(pre))
  <2> HIDE DEF events
  <2> QED BY <1>1, <1>2, <1>3, <1>4, CutInto
<1> HIDE DEF events
<1>7. IsList(b) /\ Len(b) = n /\ \A k \in 1..n : Content(events, b[k]) = bs[k] /\ b[k].first # b[k].last
    BY <1>1, <1>6 DEF Cut
<1> HIDE DEF b, n
<1> DEFINE I == {i \in 1..Len(b) : b[i].first # b[i].last}
           closed == Chosen(b, I)
<1>8. closed = b
  <2>1. \A i \in 1..Len(b) : i \in I
      BY <1>7
  <2> HIDE DEF I
  <2>2. b \in Seq(Range(b))
      BY <1>7 DEF IsList
  <2> QED BY <2>1, <2>2, ChosenAll
<1>9. AdaptationSets(events) = [i \in 1..Len(closed) |-> Content(events, closed[i])]
    BY DEF AdaptationSets, b
<1> HIDE DEF closed
<1>10. AdaptationSets(events) = [i \in 1..n |-> Content(events, b[i])]
    BY <1>7, <1>8, <1>9
<1> DEFINE y == AdaptationSets(events)
<1> HIDE DEF y
<1>11. y = [i \in 1..n |-> y[i]] /\ \A i \in 1..n : y[i] = bs[i]
    BY <1>7, <1>10 DEF y
<1>12. IsList(y) /\ Len(y) = n
    BY <1>1, <1>11, FunctionIsList
<1>13. y = bs
    BY <1>1, <1>11, <1>12, SameLists
<1> QED BY <1>5, <1>13 DEF y, bs, events

-----------------------------------------------------------------------------
(* What a set says of its kind *)

KindAttributes == {"contentType", "mimeType"}
Mute(x) == x.event = "start" => DOMAIN x.attributes \cap KindAttributes = {}
AllMute(list) == IsList(list) /\ \A x \in Range(list) : Mute(x)

LEMMA MuteJoined ==
    ASSUME NEW a, AllMute(a), NEW b, AllMute(b)
    PROVE  AllMute(Joined(a, b))
<1>1. IsList(Joined(a, b)) /\ Range(Joined(a, b)) = Range(a) \union Range(b)
    BY RangeOfJoined DEF AllMute
<1> QED BY <1>1 DEF AllMute

LEMMA MuteElement ==
    ASSUME NEW name, NEW attributes, DOMAIN attributes \cap KindAttributes = {}, NEW c, AllMute(c)
    PROVE  AllMute(Element(name, attributes, c))
<1> DEFINE z == Element(name, attributes, c)
           d == Start(name, attributes)
           e == End(name)
<1>1. IsList(z) /\ Range(z) = {d, e} \union Range(c)
    BY ElementItems DEF ElementAt, ElementHas, AllMute
<1>2. Mute(d) /\ Mute(e)
    BY DEF Start, End, Mute
<1> HIDE DEF z, d, e
<1>3. AllMute(z)
    BY <1>1, <1>2 DEF AllMute
<1> QED BY <1>3 DEF z

LEMMA MuteOne == ASSUME NEW x, Mute(x) PROVE AllMute(<<x>>)
<1>1. IsList(<<x>>)
    BY ShortLists, Zenon
<1>2. Range(<<x>>) = {x}
    BY RangeOfShort
<1> QED BY <1>1, <1>2 DEF AllMute

LEMMA MuteNone == AllMute(<<>>)
BY EmptyIsList, RangeOfShort DEF AllMute

LEMMA NoKind == DOMAIN NoAttributes \cap KindAttributes = {}
BY DEF NoAttributes

LEMMA IndexMute == ASSUME NEW rep PROVE AllMute(IndexOf(rep))
<1> DEFINE t == Text(rep.file.url)
           x == Empty("Initialization", [range |-> rep.init])
           u == <<t>>
           i == <<x>>
<1>1. Mute(t) /\ Mute(x) /\ DOMAIN IndexAttributes(rep) \cap KindAttributes = {}
    BY DEF Text, Empty, Mute, IndexAttributes, KindAttributes
<1> HIDE DEF t, x
<1>2. AllMute(u) /\ AllMute(i)
    BY <1>1, MuteOne
<1> HIDE DEF u, i
<1>3. AllMute(Element("BaseURL", NoAttributes, u)) /\ AllMute(Element("SegmentBase", IndexAttributes(rep), i))
    BY <1>1, <1>2, NoKind, MuteElement
<1>4. IF rep.file.present THEN BaseUrl(rep.file) = Element("BaseURL", NoAttributes, u) ELSE BaseUrl(rep.file) = <<>>
    BY DEF BaseUrl, u, t
<1>5. IF ~rep.indexed THEN BaseEvents(rep) = <<>>
      ELSE BaseEvents(rep) = Element("SegmentBase", IndexAttributes(rep), i)
    BY DEF BaseEvents, i, x
<1>6. AllMute(BaseUrl(rep.file)) /\ AllMute(BaseEvents(rep))
    BY <1>3, <1>4, <1>5, MuteNone
<1> QED BY <1>6, IndexForm, MuteJoined

IsSilent(set) ==
    \A x \in {set.template} \union Range(set.timeline) : DOMAIN x \cap {"contentType", "mimeType"} = {}

LEMMA TemplateMute ==
    ASSUME NEW set, IsList(set.timeline), IsSilent(set)
    PROVE  AllMute(TemplateOf(set))
<1> DEFINE l == Items(set.timeline)
           n == Len(set.timeline)
<1>1. DOMAIN set.template \cap KindAttributes = {}
    BY DEF IsSilent, KindAttributes
<1>2. \A i \in 1..n : DOMAIN set.timeline[i] \cap KindAttributes = {}
    BY ItemsInRange DEF IsSilent, KindAttributes
<1>3. IsList(l) /\ Len(l) = n /\ \A i \in 1..n : l[i] = Empty("S", set.timeline[i])
  <2>1. l = [i \in 1..n |-> l[i]] /\ \A i \in 1..n : l[i] = Empty("S", set.timeline[i])
      BY DEF Items
  <2>2. n \in Nat
      BY DEF IsList
  <2> HIDE DEF l
  <2> QED BY <2>1, <2>2, FunctionIsList
<1>4. \A x : DOMAIN x \cap KindAttributes = {} => Mute(Empty("S", x))
    BY DEF Empty, Mute
<1> HIDE DEF l, n
<1>5. AllMute(l)
    BY <1>2, <1>3, <1>4, ItemsInRange DEF AllMute
<1>6. AllMute(Element("SegmentTimeline", NoAttributes, l))
    BY <1>5, NoKind, MuteElement
<1>7. AllMute(TimelineElement(set))
    BY <1>6, MuteNone DEF TimelineElement, l
<1>8. AllMute(TemplateElement(set))
    BY <1>1, <1>7, MuteElement DEF TemplateElement
<1> QED BY <1>8, MuteNone, TemplateForm

\* The attributes of a set and of a Representation.
MimeIn(attributes, a, x) ==
    /\ "mimeType" \in DOMAIN attributes <=> x.mime # "none"
    /\ x.mime # "none" => attributes["mimeType"] = x.mime
    /\ \A k \in DOMAIN a : k \in DOMAIN attributes /\ attributes[k] = a[k]
    /\ DOMAIN attributes \subseteq DOMAIN a \union {"mimeType"}

\* A MIME type goes among the attributes if there is one.
LEMMA MimeOfElement ==
    ASSUME NEW a, NEW x, "mimeType" \notin DOMAIN a
    PROVE  MimeIn(WithMime(a, x), a, x)
<1> DEFINE w == WithMime(a, x)
<1>1. CASE x.mime = "none"
  <2>1. w = a
      BY <1>1 DEF WithMime
  <2> HIDE DEF w
  <2> QED BY <1>1, <2>1 DEF MimeIn, w
<1>2. CASE x.mime # "none"
  <2>1. w = [b \in DOMAIN a \union {"mimeType"} |-> IF b = "mimeType" THEN x.mime ELSE a[b]]
      BY <1>2 DEF WithMime
  <2> HIDE DEF w
  <2>2. DOMAIN w = DOMAIN a \union {"mimeType"} /\ w["mimeType"] = x.mime /\ \A k \in DOMAIN a : w[k] = a[k]
      BY <2>1
  <2> QED BY <1>2, <2>2 DEF MimeIn, w
<1> QED BY <1>1, <1>2

SetStart(set) == Start("AdaptationSet", SetAttributesOf(set))
RepStart(rep) == Start("Representation", RepAttributes(rep))

\* The events that say of which kind a set is: its own start and those of its Representations.
LEMMA SetSpeaks ==
    ASSUME NEW set, HasLists(set), IsSilent(set)
    PROVE  /\ SetStart(set) \in Range(SetEvents(set))
           /\ \A x \in Range(set.reps) : RepStart(x) \in Range(SetEvents(set))
           /\ \A e \in Range(SetEvents(set)) :
                 Mute(e) \/ e = SetStart(set) \/ \E x \in Range(set.reps) : e = RepStart(x)
<1> DEFINE c == SetContentOf(set)
           l == RepsEvents(set.reps)
           f == FlattenSeq(l)
           n == Len(set.reps)
<1>1. IsList(c)
    BY ContentNames DEF Named
<1>2. Range(SetEvents(set)) = {SetStart(set), End("AdaptationSet")} \union Range(c)
  <2> HIDE DEF c
  <2>1. Range(Element("AdaptationSet", SetAttributesOf(set), c)) = {SetStart(set), End("AdaptationSet")} \union Range(c)
      BY <1>1, ElementItems DEF ElementHas, SetStart
  <2> QED BY <2>1, SetForm DEF c
<1>3. /\ IsList(l) /\ Len(l) = n /\ (\A r \in 1..n : l[r] = RepEvents(set.reps[r]) /\ IsList(l[r])) /\ IsList(f)
    BY RepsForm DEF HasLists, Named
<1>4. HasItems(f, l)
  <2> HIDE DEF l
  <2> QED BY <1>3, FlatItems DEF f
<1>5. Range(c) = Range(TemplateOf(set)) \union Range(f) /\ AllMute(TemplateOf(set))
  <2>1. AllMute(TemplateOf(set)) /\ IsList(TemplateOf(set))
      BY TemplateMute DEF HasLists, AllMute
  <2>2. c = Joined(TemplateOf(set), f)
      BY DEF SetContentOf
  <2> HIDE DEF c, f
  <2> QED BY <1>3, <2>1, <2>2, RangeOfJoined
<1>6. \A x : /\ Range(RepEvents(x)) = {RepStart(x), End("Representation")} \union Range(IndexOf(x))
             /\ AllMute(IndexOf(x))
  <2> SUFFICES ASSUME NEW x PROVE /\ Range(RepEvents(x)) = {RepStart(x), End("Representation")} \union Range(IndexOf(x))
                                  /\ AllMute(IndexOf(x))
      OBVIOUS
  <2>1. IsList(IndexOf(x)) /\ AllMute(IndexOf(x))
      BY RepIsBlock, IndexMute
  <2>2. Range(Element("Representation", RepAttributes(x), IndexOf(x)))
            = {RepStart(x), End("Representation")} \union Range(IndexOf(x))
      BY <2>1, ElementItems DEF ElementHas, RepStart
  <2> QED BY <2>1, <2>2 DEF RepEvents
<1>7. \A e : e \in Range(f) <=> \E x \in Range(set.reps) : e \in Range(RepEvents(x))
  <2>1. IsList(set.reps)
      BY DEF HasLists
  <2>2. \A x : x \in Range(set.reps) <=> \E r \in 1..n : set.reps[r] = x
      BY <2>1, ItemsInRange
  <2>3. \A e : e \in Range(f) <=> \E r \in 1..n : e \in Range(RepEvents(set.reps[r]))
      BY <1>3, <1>4 DEF HasItems
  <2> HIDE DEF f, l, c, n
  <2> QED BY <2>2, <2>3
<1>8. Mute(End("AdaptationSet")) /\ Mute(End("Representation"))
    BY DEF Mute, End
<1>9. \A t \in Range(TemplateOf(set)) : Mute(t)
    BY <1>5 DEF AllMute
<1>10. \A x : \A t \in Range(IndexOf(x)) : Mute(t)
    BY <1>6 DEF AllMute
<1> HIDE DEF c, f, l, n
<1>11. \A x \in Range(set.reps) : RepStart(x) \in Range(f)
    BY <1>6, <1>7
<1>12. \A e \in Range(f) : Mute(e) \/ \E x \in Range(set.reps) : e = RepStart(x)
    BY <1>6, <1>7, <1>8, <1>10
<1> QED BY <1>2, <1>5, <1>8, <1>9, <1>11, <1>12

HasMime(set, values) == \E x \in {set} \union Range(set.reps) : x.mime \in values

\* contains(a="v") on a set asks for its own type and for its MIME types.
LEMMA SetSays ==
    ASSUME NEW set, HasLists(set), IsSilent(set)
    PROVE  /\ \A v : Says(SetEvents(set), "contentType", {v}) <=> set.type = v
           /\ \A values : "none" \notin values => (Says(SetEvents(set), "mimeType", values) <=> HasMime(set, values))
<1> DEFINE events == SetEvents(set)
           a == [contentType |-> set.type]
<1>1. IsList(events)
    BY SetIsBlock
<1>2. \A k, values : Says(events, k, values) <=>
        \E e \in Range(events) : e.event = "start" /\ k \in DOMAIN e.attributes /\ e.attributes[k] \in values
  <2> HIDE DEF events
  <2> QED BY <1>1, ItemsInRange DEF Says, HasAttr
<1>3. /\ SetStart(set) \in Range(events)
      /\ \A x \in Range(set.reps) : RepStart(x) \in Range(events)
      /\ \A e \in Range(events) : Mute(e) \/ e = SetStart(set) \/ \E x \in Range(set.reps) : e = RepStart(x)
    BY SetSpeaks
<1>4. /\ SetStart(set).event = "start" /\ SetStart(set).attributes = SetAttributesOf(set)
      /\ \A x : RepStart(x).event = "start" /\ RepStart(x).attributes = RepAttributes(x)
    BY DEF SetStart, RepStart, Start
<1>5. /\ "contentType" \in DOMAIN SetAttributesOf(set) /\ SetAttributesOf(set)["contentType"] = set.type
      /\ "mimeType" \in DOMAIN SetAttributesOf(set) <=> set.mime # "none"
      /\ set.mime # "none" => SetAttributesOf(set)["mimeType"] = set.mime
  <2>1. DOMAIN a = {"contentType"} /\ a["contentType"] = set.type
      OBVIOUS
  <2> HIDE DEF a
  <2>2. MimeIn(WithMime(a, set), a, set)
      BY <2>1, MimeOfElement
  <2>3. SetAttributesOf(set) = WithMime(a, set)
      BY DEF SetAttributesOf, a
  <2> QED BY <2>1, <2>2, <2>3 DEF MimeIn
<1>6. ASSUME NEW x PROVE /\ "contentType" \notin DOMAIN RepAttributes(x)
                         /\ "mimeType" \in DOMAIN RepAttributes(x) <=> x.mime # "none"
                         /\ x.mime # "none" => RepAttributes(x)["mimeType"] = x.mime
  <2> DEFINE b == [bandwidth |-> x.bandwidth]
  <2>1. DOMAIN b = {"bandwidth"}
      OBVIOUS
  <2> HIDE DEF b
  <2>2. MimeIn(WithMime(b, x), b, x)
      BY <2>1, MimeOfElement
  <2>3. RepAttributes(x) = WithMime(b, x)
      BY DEF RepAttributes, b
  <2> QED BY <2>1, <2>2, <2>3 DEF MimeIn
<1> HIDE DEF events
<1>7. \A e \in Range(events) : Mute(e) /\ e.event = "start" =>
        "contentType" \notin DOMAIN e.attributes /\ "mimeType" \notin DOMAIN e.attributes
    BY DEF Mute, KindAttributes
<1>8. ASSUME NEW v PROVE Says(events, "contentType", {v}) <=> set.type = v
  <2>1. ASSUME Says(events, "contentType", {v}) PROVE set.type = v
    <3>1. PICK e \in Range(events) : e.event = "start" /\ "contentType" \in DOMAIN e.attributes /\ e.attributes["contentType"] \in {v}
        BY <1>2, <2>1
    <3>2. ~Mute(e)
        BY <1>7, <3>1
    <3>3. ASSUME NEW x, e = RepStart(x) PROVE FALSE
        BY <1>4, <1>6, <3>1, <3>3
    <3>4. e = SetStart(set)
        BY <1>3, <3>2, <3>3
    <3> QED BY <1>4, <1>5, <3>1, <3>4
  <2>2. ASSUME set.type = v PROVE Says(events, "contentType", {v})
    <3>1. SetAttributesOf(set)["contentType"] \in {v}
        BY <1>5, <2>2
    <3> QED BY <1>2, <1>3, <1>4, <1>5, <3>1
  <2> QED BY <2>1, <2>2
<1>9. ASSUME NEW values, "none" \notin values PROVE Says(events, "mimeType", values) <=> HasMime(set, values)
  <2>1. ASSUME Says(events, "mimeType", values) PROVE HasMime(set, values)
    <3>1. PICK e \in Range(events) : e.event = "start" /\ "mimeType" \in DOMAIN e.attributes /\ e.attributes["mimeType"] \in values
        BY <1>2, <2>1
    <3>2. ~Mute(e)
        BY <1>7, <3>1
    <3>3. CASE e = SetStart(set)
      <4>1. set.mime \in values
          BY <1>4, <1>5, <3>1, <3>3
      <4> QED BY <4>1 DEF HasMime
    <3>4. ASSUME NEW x \in Range(set.reps), e = RepStart(x) PROVE HasMime(set, values)
      <4>1. x.mime \in values
          BY <1>4, <1>6, <3>1, <3>4
      <4> QED BY <4>1 DEF HasMime
    <3> QED BY <1>3, <3>2, <3>3, <3>4
  <2>2. ASSUME HasMime(set, values) PROVE Says(events, "mimeType", values)
    <3>1. PICK x \in {set} \union Range(set.reps) : x.mime \in values
        BY <2>2 DEF HasMime
    <3>2. x.mime # "none"
        BY <1>9, <3>1
    <3>3. CASE x = set
        BY <1>2, <1>3, <1>4, <1>5, <3>1, <3>2, <3>3
    <3>4. CASE x \in Range(set.reps)
        BY <1>2, <1>3, <1>4, <1>6, <3>1, <3>2, <3>4
    <3> QED BY <3>3, <3>4
  <2> QED BY <2>1, <2>2
<1> QED BY <1>8, <1>9 DEF events

\* Each set is taken for what its type says.
IsTold(set) ==
    LET events == SetEvents(set)
    IN  /\ IsVideoSet(events) <=> set.type = "video"
        /\ IsAudioSet(events) <=> set.type = "audio" /\ set.mime # "audio/webm"
        /\ IsRawText(events) <=> IsRaw(set)
        /\ IsTextSet(events) <=> set.type = "text" /\ set.mime # "audio/webm"

\* Each set is taken for what it is.
LEMMA KindsTold ==
    ASSUME NEW set, IsSet(set), NEW url, IsToldApart(url, set)
    PROVE  IsTold(set)
<1> DEFINE events == SetEvents(set)
           mimes == {set.mime} \union {x.mime : x \in Range(set.reps)}
<1>1. HasLists(set) /\ IsSilent(set)
    BY DEF IsSet, IsToldApart, HasLists, IsSilent
<1>2. /\ \A v : Says(events, "contentType", {v}) <=> set.type = v
      /\ \A values : "none" \notin values => (Says(events, "mimeType", values) <=> HasMime(set, values))
    BY <1>1, SetSays
<1>3. \A values : HasMime(set, values) <=> \E m \in mimes : m \in values
    BY DEF HasMime
<1>4. /\ "audio/mp4" \in mimes \/ set.mime = "audio/webm" => set.type = "audio"
      /\ "text/vtt" \in mimes \/ "application/ttml+xml" \in mimes => set.type = "text"
      /\ \A x \in Range(set.reps) : x.mime # "audio/webm"
    BY DEF IsToldApart
<1>5. set.type # "video" => \A m \in mimes : m \notin {"video/mp4", "video/webm"}
    BY DEF IsSet, VideoMimeTypes
<1>6. "audio/webm" \in mimes <=> set.mime = "audio/webm"
    BY <1>4
<1>7. IsRaw(set) <=> "text/vtt" \in mimes
    BY DEF IsRaw
<1> HIDE DEF events, mimes
<1>8. /\ Says(events, "mimeType", {"video/mp4", "video/webm"}) <=> \E m \in mimes : m \in {"video/mp4", "video/webm"}
      /\ Says(events, "mimeType", {"audio/mp4"}) <=> "audio/mp4" \in mimes
      /\ Says(events, "mimeType", {"audio/webm"}) <=> "audio/webm" \in mimes
      /\ Says(events, "mimeType", {"text/vtt"}) <=> "text/vtt" \in mimes
      /\ Says(events, "mimeType", {"application/ttml+xml"}) <=> "application/ttml+xml" \in mimes
    BY <1>2, <1>3
<1>9. /\ Says(events, "contentType", {"video"}) <=> set.type = "video"
      /\ Says(events, "contentType", {"audio"}) <=> set.type = "audio"
      /\ Says(events, "contentType", {"text"}) <=> set.type = "text"
    BY <1>2
<1>10. IsVideoSet(events) <=> set.type = "video"
    BY <1>5, <1>8, <1>9 DEF IsVideoSet
<1>11. IsAudioSet(events) <=> set.type = "audio" /\ set.mime # "audio/webm"
    BY <1>4, <1>6, <1>8, <1>9, <1>10 DEF IsAudioSet
<1>12. IsRawText(events) <=> IsRaw(set)
    BY <1>7, <1>8 DEF IsRawText
<1>13. IsTextSet(events) <=> set.type = "text" /\ set.mime # "audio/webm"
    BY <1>4, <1>7, <1>8, <1>9, <1>12 DEF IsTextSet
<1> QED BY <1>10, <1>11, <1>12, <1>13 DEF IsTold, events

-----------------------------------------------------------------------------
(* The files of a set, at their absolute URLs *)

MovedEvent(base, e) == IF e.event = "text" THEN [e EXCEPT !.url = Absolute(base, @)] ELSE e
EventMoves(base, D) == [e \in D |-> MovedEvent(base, e)]

\* ResolveBaseUrls changes each event by itself.
LEMMA ResolvedIsMapped ==
    ASSUME NEW block, IsList(block), NEW D, Range(block) \subseteq D, NEW base
    PROVE  ResolveBaseUrls(block, base) = Mapped(EventMoves(base, D), block)
<1> DEFINE g == EventMoves(base, D)
           u == ResolveBaseUrls(block, base)
           v == Mapped(g, block)
<1>1. \A i \in 1..Len(block) : block[i] \in D
    BY ItemsInRange
<1>2. \A i \in 1..Len(block) : g[block[i]] = MovedEvent(base, block[i])
    BY <1>1 DEF EventMoves
<1> HIDE DEF g
<1>3. u = [i \in 1..Len(block) |-> MovedEvent(base, block[i])]
    BY DEF ResolveBaseUrls, MovedEvent
<1>4. v = [i \in 1..Len(block) |-> g[block[i]]]
    BY DEF Mapped
<1> HIDE DEF u, v
<1>5. u = v
    BY <1>2, <1>3, <1>4
<1> QED BY <1>5 DEF u, v, g

LEMMA ResolvedList ==
    ASSUME NEW block, IsList(block), NEW base
    PROVE  /\ IsList(ResolveBaseUrls(block, base)) /\ Len(ResolveBaseUrls(block, base)) = Len(block)
           /\ \A i \in 1..Len(block) : ResolveBaseUrls(block, base)[i] = MovedEvent(base, block[i])
<1> DEFINE u == ResolveBaseUrls(block, base)
<1>1. u = [i \in 1..Len(block) |-> u[i]] /\ \A i \in 1..Len(block) : u[i] = MovedEvent(base, block[i])
    BY DEF ResolveBaseUrls, MovedEvent
<1>2. Len(block) \in Nat
    BY DEF IsList
<1> HIDE DEF u
<1>3. IsList(u) /\ Len(u) = Len(block)
    BY <1>1, <1>2, FunctionIsList
<1> QED BY <1>1, <1>3 DEF u

LEMMA ResolvedJoined ==
    ASSUME NEW a, IsList(a), NEW b, IsList(b), NEW base
    PROVE  ResolveBaseUrls(Joined(a, b), base) = Joined(ResolveBaseUrls(a, base), ResolveBaseUrls(b, base))
<1> DEFINE D == Range(a) \union Range(b)
           z == Joined(a, b)
           g == EventMoves(base, D)
<1>1. IsList(z) /\ Range(z) = D
    BY RangeOfJoined
<1>2. Range(a) \subseteq D /\ Range(b) \subseteq D /\ Range(z) \subseteq D
    BY <1>1
<1> HIDE DEF z
<1>3. ResolveBaseUrls(z, base) = Mapped(g, z)
  <2> HIDE DEF D
  <2> QED BY <1>1, <1>2, ResolvedIsMapped
<1>4. ResolveBaseUrls(a, base) = Mapped(g, a) /\ ResolveBaseUrls(b, base) = Mapped(g, b)
  <2> HIDE DEF D
  <2> QED BY <1>2, ResolvedIsMapped
<1>5. a \in Seq(D) /\ b \in Seq(D)
  <2>1. a \in Seq(Range(a)) /\ b \in Seq(Range(b))
      BY DEF IsList
  <2> HIDE DEF D
  <2> QED BY <1>2, <2>1
<1> HIDE DEF D, g
<1>6. Mapped(g, z) = Joined(Mapped(g, a), Mapped(g, b))
    BY <1>5, MappedJoined DEF z
<1> QED BY <1>3, <1>4, <1>6 DEF z

Still(list) == IsList(list) /\ \A i \in 1..Len(list) : list[i].event # "text"

\* It leaves what has no text.
LEMMA StillResolved == ASSUME NEW list, Still(list), NEW base PROVE ResolveBaseUrls(list, base) = list
<1> DEFINE u == ResolveBaseUrls(list, base)
<1>1. /\ IsList(u) /\ Len(u) = Len(list)
      /\ \A i \in 1..Len(list) : u[i] = MovedEvent(base, list[i])
    BY ResolvedList DEF Still
<1>2. \A i \in 1..Len(list) : u[i] = list[i]
    BY <1>1 DEF Still, MovedEvent
<1> HIDE DEF u
<1>3. u = list
    BY <1>1, <1>2, SameLists DEF Still
<1> QED BY <1>3 DEF u

LEMMA StillOne == ASSUME NEW x, x.event # "text" PROVE Still(<<x>>)
<1>1. IsList(<<x>>)
    BY ShortLists, Zenon
<1> QED BY <1>1 DEF Still

LEMMA StillOnly == ASSUME NEW list, NEW names, Only(list, names) PROVE Still(list)
BY DEF Only, Still

LEMMA ResolvedElement ==
    ASSUME NEW name, NEW attributes, NEW c, IsList(c), NEW base
    PROVE  ResolveBaseUrls(Element(name, attributes, c), base) = Element(name, attributes, ResolveBaseUrls(c, base))
<1> DEFINE d == Start(name, attributes)
           e == End(name)
           k == <<d>>
           l == <<e>>
           m == Joined(k, c)
<1>1. d.event # "text" /\ e.event # "text"
    BY DEF Start, End
<1>2. Element(name, attributes, c) = Joined(Joined(k, c), l)
      /\ Element(name, attributes, ResolveBaseUrls(c, base)) = Joined(Joined(k, ResolveBaseUrls(c, base)), l)
    BY ElementIsJoined
<1> HIDE DEF d, e
<1>3. Still(k) /\ Still(l)
    BY <1>1, StillOne
<1> HIDE DEF k, l
<1>4. IsList(k) /\ IsList(l) /\ ResolveBaseUrls(k, base) = k /\ ResolveBaseUrls(l, base) = l
    BY <1>3, StillResolved DEF Still
<1>5. ResolveBaseUrls(m, base) = Joined(k, ResolveBaseUrls(c, base)) /\ IsList(m)
    BY <1>4, ResolvedJoined, RangeOfJoined
<1> HIDE DEF m
<1>6. ResolveBaseUrls(Joined(m, l), base) = Joined(ResolveBaseUrls(m, base), l)
    BY <1>4, <1>5, ResolvedJoined
<1> QED BY <1>2, <1>5, <1>6 DEF m

AllResolved(lists, base) == [i \in 1..Len(lists) |-> ResolveBaseUrls(lists[i], base)]

LEMMA ResolvedFlat ==
    ASSUME NEW lists, IsList(lists), \A i \in 1..Len(lists) : IsList(lists[i]), NEW base
    PROVE  ResolveBaseUrls(FlattenSeq(lists), base) = FlattenSeq(AllResolved(lists, base))
<1>1. PICK S : lists \in Seq(Seq(S))
    BY ListsOfLists
<1> DEFINE f == FlattenSeq(lists)
           g == EventMoves(base, S)
           n == Len(lists)
<1>2. f \in Seq(S)
    BY <1>1, FlattenType
<1>3. IsList(f) /\ Range(f) \subseteq S
  <2> HIDE DEF f
  <2> QED BY <1>2, SeqIsList DEF Range
<1>4. \A i \in 1..n : Range(lists[i]) \subseteq S
  <2> SUFFICES ASSUME NEW i \in 1..n PROVE Range(lists[i]) \subseteq S
      OBVIOUS
  <2> DEFINE l == lists[i]
  <2>1. l \in Seq(S)
      BY <1>1
  <2> HIDE DEF l
  <2>2. Range(l) \subseteq S
      BY <2>1 DEF Range
  <2> QED BY <2>2 DEF l
<1>5. \A i \in 1..n : ResolveBaseUrls(lists[i], base) = Mapped(g, lists[i])
    BY <1>4, ResolvedIsMapped
<1>6. ResolveBaseUrls(f, base) = Mapped(g, f)
  <2> HIDE DEF f
  <2> QED BY <1>3, ResolvedIsMapped
<1> HIDE DEF g
<1>7. AllResolved(lists, base) = AllMapped(g, lists)
    BY <1>5 DEF AllResolved, AllMapped
<1>8. FlattenSeq(AllMapped(g, lists)) = Mapped(g, f)
    BY <1>1, FlattenMapped
<1> QED BY <1>6, <1>7, <1>8

MovedFile(base, file) == IF file.present THEN SomeUrl(Absolute(base, file.url)) ELSE file
MovedRep(base, rep) ==
    [bandwidth |-> rep.bandwidth, mime |-> rep.mime, file |-> MovedFile(base, rep.file),
     indexed |-> rep.indexed, index |-> rep.index, scale |-> rep.scale, init |-> rep.init]
MovedReps(base, reps) == [r \in 1..Len(reps) |-> MovedRep(base, reps[r])]
MovedSet(base, set) ==
    [type |-> set.type, mime |-> set.mime, template |-> set.template, timeline |-> set.timeline,
     reps |-> MovedReps(base, set.reps)]

\* A BaseURL is given the absolute URL of its file.
LEMMA FileMoved ==
    ASSUME NEW base, NEW file
    PROVE  ResolveBaseUrls(BaseUrl(file), base) = BaseUrl(MovedFile(base, file))
<1> DEFINE t == Text(file.url)
           m == Text(Absolute(base, file.url))
           u == <<t>>
           v == <<m>>
           w == ResolveBaseUrls(u, base)
<1>1. MovedEvent(base, t) = m
    BY DEF MovedEvent, Text
<1>2. IsList(u) /\ IsList(v) /\ Len(u) = 1 /\ Len(v) = 1 /\ u[1] = t /\ v[1] = m
    BY ShortLists, Zenon
<1> HIDE DEF t, m, u, v
<1>3. IsList(w) /\ Len(w) = 1 /\ w[1] = m
    BY <1>1, <1>2, ResolvedList
<1> HIDE DEF w
<1>4. w = v
    BY <1>2, <1>3, SameLists
<1>5. ResolveBaseUrls(Element("BaseURL", NoAttributes, u), base) = Element("BaseURL", NoAttributes, v)
    BY <1>2, <1>4, ResolvedElement DEF w
<1>6. CASE file.present
  <2>1. BaseUrl(file) = Element("BaseURL", NoAttributes, u)
      BY <1>6 DEF BaseUrl, u, t
  <2>2. BaseUrl(MovedFile(base, file)) = Element("BaseURL", NoAttributes, v)
      BY <1>6 DEF BaseUrl, v, m, MovedFile, SomeUrl
  <2> QED BY <1>5, <2>1, <2>2
<1>7. CASE ~file.present
  <2>1. BaseUrl(file) = <<>> /\ MovedFile(base, file) = file
      BY <1>7 DEF BaseUrl, MovedFile
  <2>2. Still(<<>>)
      BY EmptyIsList DEF Still
  <2> QED BY <2>1, <2>2, StillResolved
<1> QED BY <1>6, <1>7

LEMMA RepMoved ==
    ASSUME NEW base, NEW rep
    PROVE  ResolveBaseUrls(RepEvents(rep), base) = RepEvents(MovedRep(base, rep))
<1> DEFINE m == MovedRep(base, rep)
           a == BaseUrl(rep.file)
           b == BaseEvents(rep)
           c == IndexOf(rep)
<1>1. /\ m.file = MovedFile(base, rep.file) /\ m.indexed = rep.indexed /\ m.index = rep.index
      /\ m.scale = rep.scale /\ m.init = rep.init /\ m.mime = rep.mime /\ m.bandwidth = rep.bandwidth
    BY DEF MovedRep
<1> HIDE DEF m
<1>2. RepAttributes(m) = RepAttributes(rep)
    BY <1>1 DEF RepAttributes, WithMime
<1>3. BaseEvents(m) = b
    BY <1>1 DEF BaseEvents, IndexAttributes
<1>4. c = Joined(a, b) /\ IndexOf(m) = Joined(BaseUrl(m.file), b)
    BY <1>3, IndexForm
<1>5. Still(b)
  <2> DEFINE x == Empty("Initialization", [range |-> rep.init])
             i == <<x>>
             names == {"SegmentBase", "Initialization"}
  <2>1. x.event \in {"start", "end"} /\ x.name \in names
      BY DEF Empty
  <2> HIDE DEF x
  <2>2. Only(i, names)
    <3> HIDE DEF names
    <3> QED BY <2>1, OnlyOne
  <2> HIDE DEF i
  <2>3. Only(Element("SegmentBase", IndexAttributes(rep), i), names)
      BY <2>2, OnlyElement
  <2>4. IF ~rep.indexed THEN b = <<>> ELSE b = Element("SegmentBase", IndexAttributes(rep), i)
      BY DEF BaseEvents, i, x
  <2>5. Only(<<>>, names)
    <3> HIDE DEF names
    <3> QED BY OnlyNothing
  <2> HIDE DEF names, b
  <2> QED BY <2>3, <2>4, <2>5, StillOnly
<1>6. IsList(a) /\ IsList(b) /\ IsList(c)
    BY FileNames, <1>5, RepIsBlock DEF Named, Still
<1>7. ResolveBaseUrls(b, base) = b
    BY <1>5, StillResolved
<1>8. ResolveBaseUrls(a, base) = BaseUrl(m.file)
    BY <1>1, FileMoved
<1> HIDE DEF a, b, c
<1>9. ResolveBaseUrls(c, base) = IndexOf(m)
    BY <1>4, <1>6, <1>7, <1>8, ResolvedJoined
<1>10. ResolveBaseUrls(Element("Representation", RepAttributes(rep), c), base)
          = Element("Representation", RepAttributes(rep), IndexOf(m))
    BY <1>6, <1>9, ResolvedElement
<1> QED BY <1>2, <1>10 DEF RepEvents, c, m

\* ResolveBaseUrls gives the set whose files are at their absolute URLs.
LEMMA SetMoved ==
    ASSUME NEW base, NEW set, HasLists(set)
    PROVE  /\ ResolveBaseUrls(SetEvents(set), base) = SetEvents(MovedSet(base, set))
           /\ HasLists(MovedSet(base, set)) /\ Len(MovedSet(base, set).reps) = Len(set.reps)
<1> DEFINE m == MovedSet(base, set)
           n == Len(set.reps)
           l == RepsEvents(set.reps)
           f == FlattenSeq(l)
           t == TemplateOf(set)
           c == SetContentOf(set)
<1>1. m.type = set.type /\ m.mime = set.mime /\ m.template = set.template /\ m.timeline = set.timeline
      /\ m.reps = MovedReps(base, set.reps)
    BY DEF MovedSet
<1> HIDE DEF m
<1>2. n \in Nat
    BY DEF HasLists, IsList
<1>3. IsList(m.reps) /\ Len(m.reps) = n /\ \A r \in 1..n : m.reps[r] = MovedRep(base, set.reps[r])
  <2> DEFINE y == MovedReps(base, set.reps)
  <2>1. y = [r \in 1..n |-> y[r]] /\ \A r \in 1..n : y[r] = MovedRep(base, set.reps[r])
      BY DEF MovedReps
  <2> HIDE DEF y, n
  <2>2. IsList(y) /\ Len(y) = n
      BY <1>2, <2>1, FunctionIsList
  <2> QED BY <1>1, <2>1, <2>2 DEF y
<1>4. HasLists(m)
    BY <1>1, <1>3 DEF HasLists
<1>5. SetAttributesOf(m) = SetAttributesOf(set) /\ TemplateOf(m) = t
    BY <1>1 DEF SetAttributesOf, WithMime, TemplateOf
<1>6. /\ IsList(l) /\ Len(l) = n /\ IsList(f)
      /\ \A r \in 1..n : l[r] = RepEvents(set.reps[r]) /\ IsList(l[r])
    BY RepsForm DEF HasLists, Named
<1> HIDE DEF l
<1>7. AllResolved(l, base) = RepsEvents(m.reps)
  <2>1. \A r \in 1..n : ResolveBaseUrls(l[r], base) = RepEvents(m.reps[r])
      BY <1>3, <1>6, RepMoved
  <2> QED BY <1>3, <1>6, <2>1 DEF AllResolved, RepsEvents
<1>8. ResolveBaseUrls(f, base) = FlattenSeq(RepsEvents(m.reps))
    BY <1>6, <1>7, ResolvedFlat
<1>9. Only(t, TemplateElements)
    BY TemplateForm DEF HasLists
<1>10. IsList(t) /\ ResolveBaseUrls(t, base) = t
    BY <1>9, StillOnly, StillResolved DEF Only
<1> HIDE DEF t, f, n
<1>11. c = Joined(t, f) /\ SetContentOf(m) = Joined(t, FlattenSeq(RepsEvents(m.reps)))
    BY <1>5 DEF SetContentOf, t, f, l
<1> HIDE DEF c
<1>12. IsList(c) /\ ResolveBaseUrls(c, base) = SetContentOf(m)
    BY <1>6, <1>8, <1>10, <1>11, ResolvedJoined, RangeOfJoined
<1>13. ResolveBaseUrls(Element("AdaptationSet", SetAttributesOf(set), c), base)
          = Element("AdaptationSet", SetAttributesOf(set), SetContentOf(m))
    BY <1>12, ResolvedElement
<1>14. ResolveBaseUrls(SetEvents(set), base) = SetEvents(m)
    BY <1>5, <1>13, SetForm DEF c
<1> QED BY <1>3, <1>4, <1>14 DEF m, n

-----------------------------------------------------------------------------
(* The manifest made for a track *)

\* The MPD that such a manifest is of.
Small(mpd, base, part) ==
    [url |-> LocalUrl, live |-> mpd.live, total |-> mpd.total, base |-> SomeUrl(base), sets |-> <<part>>]

\* SyntheticMpd writes an MPD of the one set.
LEMMA SyntheticIsMpd ==
    ASSUME NEW mpd, NEW base, NEW part, HasLists(part)
    PROVE  SyntheticMpd(Start("MPD", MpdStart(mpd)), base, SetEvents(part)) = MpdEvents(Small(mpd, base, part))
<1> DEFINE m == Small(mpd, base, part)
           e == Start("MPD", MpdStart(mpd))
           x == SetEvents(part)
<1>1. m.live = mpd.live /\ m.total = mpd.total /\ m.base = SomeUrl(base) /\ m.sets = <<part>>
    BY DEF Small
<1>2. /\ Attr(e, "type", "static") = MpdStart(mpd).type
      /\ Attr(e, "mediaPresentationDuration", 0) = MpdStart(mpd).mediaPresentationDuration
    BY DEF Attr, HasAttr, Start, MpdStart
<1> HIDE DEF m, e
<1>3. [type |-> Attr(e, "type", "static"),
       mediaPresentationDuration |-> Attr(e, "mediaPresentationDuration", 0)] = MpdStart(m)
    BY <1>1, <1>2 DEF MpdStart
<1>4. FlattenSeq(SetsEvents(m.sets)) = x
  <2>1. IsList(x)
      BY SetIsBlock
  <2>2. SetsEvents(<<part>>) = <<x>>
      BY DEF SetsEvents
  <2> HIDE DEF x
  <2> QED BY <1>1, <2>1, <2>2, FlattenOne
<1>5. BaseUrl(m.base) = Element("BaseURL", NoAttributes, << Text(base) >>)
    BY <1>1 DEF BaseUrl, SomeUrl
<1>6. MpdEvents(m) = Element("MPD", MpdStart(m),
                         BaseUrl(m.base) \o Element("Period", NoAttributes, FlattenSeq(SetsEvents(m.sets))))
    BY DEF MpdEvents, MpdStart, SetsEvents
<1> HIDE DEF x
<1>7. MpdEvents(m) = Element("MPD", MpdStart(m),
                         Element("BaseURL", NoAttributes, << Text(base) >>) \o Element("Period", NoAttributes, x))
    BY <1>4, <1>5, <1>6
<1>8. SyntheticMpd(e, base, x) = Element("MPD", MpdStart(m),
                         Element("BaseURL", NoAttributes, << Text(base) >>) \o Element("Period", NoAttributes, x))
    BY <1>3 DEF SyntheticMpd
<1> QED BY <1>7, <1>8 DEF e, m, x

IsOfPath(url) == IsList(url.path) /\ url.path # <<>> /\ IsList(url.query) /\ Len(url.query) <= 1

\* What resolves against the base of such a manifest resolves against the URL of the MPD.
LEMMA TextBaseIs ==
    ASSUME NEW url, IsOfPath(url)
    PROVE  /\ TextBase(url) = Reference("absolute", url.host, Append(Front(url.path), Plain("empty")), <<>>)
           /\ TextBase(url).kind = "absolute"
           /\ IsList(DirectoryOf(url)) /\ DirectoryOf(url) = Front(url.path)
           /\ Front(TextBase(url).path) = DirectoryOf(url)
<1> DEFINE path == url.path
           f == Front(path)
           p == Append(f, Plain("empty"))
<1>1. Len(url.query) \in Nat
    BY DEF IsOfPath, IsList
<1>2. ~(Len(url.query) > 1)
    BY <1>1 DEF IsOfPath
<1>3. TextBase(url) = Reference("absolute", url.host, p, <<>>)
    BY <1>2 DEF TextBase
<1>4. path \in Seq(Range(path)) /\ path # <<>>
    BY DEF IsOfPath, IsList
<1>5. f \in Seq(Range(path))
  <2> HIDE DEF path
  <2> QED BY <1>4, FrontType
<1>6. IsList(f)
  <2> HIDE DEF f
  <2> QED BY <1>5, SeqIsList
<1> HIDE DEF f
<1>7. Front(p) = f
  <2> DEFINE x == Plain("empty")
             S == Range(f) \union {x}
  <2>1. x \in S /\ Range(f) \subseteq S
      OBVIOUS
  <2> HIDE DEF x, S
  <2>2. f \in Seq(S)
    <3>1. f \in Seq(Range(f))
        BY <1>6 DEF IsList
    <3> QED BY <2>1, <3>1
  <2>3. Front(Append(f, x)) = f
      BY <2>1, <2>2, FrontOfAppend
  <2> QED BY <2>3 DEF x
<1>8. DirectoryOf(url) = f
    BY <1>4 DEF DirectoryOf, f
<1>9. TextBase(url).kind = "absolute" /\ TextBase(url).path = p
    BY <1>3 DEF Reference
<1> QED BY <1>3, <1>6, <1>7, <1>8, <1>9 DEF f

\* Only the host and the directory of a base matter.
LEMMA JoinAlike ==
    ASSUME NEW a, NEW b, a.host = b.host, DirectoryOf(a) = DirectoryOf(b), NEW reference
    PROVE  Join(a, reference) = Join(b, reference)
BY DEF Join

\* References of such an MPD resolve as those of the source.
LEMMA SmallBase ==
    ASSUME NEW mpd, IsOfPath(mpd.url), NEW part, NEW reference
    PROVE  Join(BaseOf(Small(mpd, TextBase(mpd.url), part)), reference) = Join(mpd.url, reference)
<1> DEFINE base == TextBase(mpd.url)
           m == Small(mpd, base, part)
           p == Append(Front(mpd.url.path), Plain("empty"))
           b == BaseOf(m)
<1>1. /\ base = Reference("absolute", mpd.url.host, p, <<>>)
      /\ DirectoryOf(mpd.url) = Front(mpd.url.path) /\ Front(base.path) = DirectoryOf(mpd.url)
    BY TextBaseIs
<1>2. base.kind = "absolute" /\ base.host = mpd.url.host /\ base.path = p
    BY <1>1 DEF Reference
<1> HIDE DEF base
<1>3. m.base.present = TRUE /\ m.base.url = base
    BY DEF Small, SomeUrl
<1> HIDE DEF m
<1>4. b = Url(base.host, base.path, base.query)
    BY <1>2, <1>3 DEF BaseOf, Join, Resolved
<1>5. b.host = base.host /\ b.path = base.path
    BY <1>4 DEF Url
<1> HIDE DEF b
<1>6. b.path # <<>>
  <2>1. p # <<>>
      BY DEF Front
  <2> HIDE DEF p
  <2> QED BY <1>2, <1>5, <2>1
<1>7. DirectoryOf(b) = DirectoryOf(mpd.url)
    BY <1>1, <1>5, <1>6 DEF DirectoryOf
<1>8. Join(b, reference) = Join(mpd.url, reference)
    BY <1>2, <1>5, <1>7, JoinAlike
<1> QED BY <1>8 DEF b, m, base

\* A file that was made absolute is the one the MPD names.
SameFile(base, moved, url, reference) ==
    Join(base, moved).ok = TRUE /\ Join(base, moved).url = Join(url, reference).url

\* The absolute URL of a file leads to the file, from wherever it is read.
LEMMA MovedResolves ==
    ASSUME NEW url, IsOfPath(url), NEW reference, IsMovable(url, reference), NEW base
    PROVE  SameFile(base, Absolute(TextBase(url), reference), url, reference)
<1> DEFINE text == TextBase(url)
           dir == DirectoryOf(url)
           moved == Absolute(text, reference)
<1> SUFFICES Join(base, moved).ok = TRUE /\ Join(base, moved).url = Join(url, reference).url
    BY DEF SameFile
<1>1. CASE reference.kind = "absolute"
  <2>1. moved = reference
      BY <1>1 DEF Absolute
  <2> QED BY <1>1, <2>1 DEF Join, Resolved
<1>2. CASE reference.kind = "path"
  <2>1. /\ text = Reference("absolute", url.host, Append(Front(url.path), Plain("empty")), <<>>)
        /\ IsList(dir) /\ Front(text.path) = dir
      BY TextBaseIs
  <2>2. /\ text.kind = "absolute" /\ text.host = url.host /\ text.query = <<>>
        /\ DOMAIN text = {"kind", "host", "path", "query"}
      BY <2>1 DEF Reference
  <2> HIDE DEF text, dir
  <2>3. moved = [text EXCEPT !.path = Front(@) \o reference.path, !.query = reference.query]
      BY <1>2, <2>2 DEF Absolute, TextPieces
  <2> HIDE DEF moved
  <2>4. moved.kind = "absolute" /\ moved.host = url.host /\ moved.path = dir \o reference.path
        /\ moved.query = reference.query
      BY <2>1, <2>2, <2>3
  <2>5. Join(base, moved) = Resolved(Url(url.host, dir \o reference.path, reference.query))
      BY <2>4 DEF Join
  <2>6. IsPlain(url, reference)
      BY DEF IsMovable
  <2>7. Join(url, reference) = Resolved(Rfc(url, reference))
      BY <2>6, PlainResolves
  <2>8. Remaining(dir \o reference.path) = dir \o reference.path
    <3> DEFINE path == dir \o reference.path
    <3>1. IsList(path)
      <4>1. IsList(reference.path)
          BY <2>6 DEF IsPlain
      <4>2. IsList(Joined(dir, reference.path))
          BY <2>1, <4>1, RangeOfJoined
      <4> QED BY <4>2 DEF Joined
    <3>2. \A i \in 1..Len(path) : path[i] \notin Dots
        BY <1>2 DEF IsMovable, dir
    <3> HIDE DEF path
    <3>3. Remaining(path) = path
        BY <3>1, <3>2, NamesStay
    <3> QED BY <3>3 DEF path
  <2>9. Rfc(url, reference) = Url(url.host, dir \o reference.path, reference.query)
      BY <1>2, <2>8 DEF Rfc, dir
  <2> QED BY <2>5, <2>7, <2>9 DEF Resolved
<1>3. reference.kind \in {"absolute", "path"}
    BY DEF IsMovable
<1> QED BY <1>1, <1>2, <1>3

\* What the set of a track's manifest has of the set it was taken from.
IsPartOf(part, url, set, rep) ==
    /\ IsSet(part)
    /\ part.reps[1] = MovedRep(TextBase(url), rep)
    /\ IF rep.indexed THEN part.template = NoAttributes
       ELSE part.template = set.template /\ part.timeline = set.timeline

\* Such an MPD is in order if its set is.
LEMMA SmallFormed ==
    ASSUME NEW mpd, mpd.live \in BOOLEAN, mpd.total \in Nat, NEW base, base.kind = "absolute",
           NEW part, IsSet(part)
    PROVE  /\ IsFormed(Small(mpd, base, part)) /\ Main(Small(mpd, base, part)) = part
           /\ Complete(part) => HasMainTemplate(Small(mpd, base, part))
<1> DEFINE m == Small(mpd, base, part)
           sets == <<part>>
<1>1. m.live = mpd.live /\ m.total = mpd.total /\ m.base.url = base /\ m.sets = sets
    BY DEF Small, SomeUrl
<1>2. IsList(sets) /\ Len(sets) = 1 /\ sets[1] = part /\ sets # <<>>
    BY ShortLists, Zenon
<1> HIDE DEF m, sets
<1>3. \A s \in 1..Len(sets) : sets[s] = part
    BY <1>2
<1>4. /\ IsList(part.timeline) /\ IsList(part.reps) /\ part.reps # <<>>
      /\ part.type # "video" => \A x \in {part} \union Range(part.reps) : x.mime \notin VideoMimeTypes
      /\ \A r \in 1..Len(part.reps) : part.reps[r].indexed => part.reps[r].file.present
    BY DEF IsSet, HasFile
<1>5. IsFormed(m)
    BY <1>1, <1>2, <1>3, <1>4 DEF IsFormed
<1>6. PICK v \in 1..Len(m.sets) : IsMain(m, v)
    BY <1>5, MainSet
<1>7. Main(m) = part
    BY <1>1, <1>3, <1>6 DEF IsMain
<1>8. Complete(part) => HasMainTemplate(m)
  <2>1. \A s \in 2..Len(m.sets) : FALSE
      BY <1>1, <1>2
  <2> QED BY <1>7, <2>1 DEF HasMainTemplate
<1> QED BY <1>5, <1>7, <1>8 DEF m

\* The same segments, whatever MPD the set is in.
LEMMA TemplateOfPart ==
    ASSUME NEW source, NEW a, NEW b, NEW small, NEW mpd, NEW part, NEW set,
           small.live = mpd.live, small.total = mpd.total, part.template = set.template,
           part.timeline = set.timeline, \A x : Join(a, x) = Join(b, x), ReadsTemplate(source, a, small, part)
    PROVE  ReadsTemplate(source, b, mpd, set)
BY DEF ReadsTemplate, FirstNumberOf

\* The manifest made for a track leads to the segments of that track.
LEMMA PartLeads ==
    ASSUME NEW mpd, mpd.live \in BOOLEAN, mpd.total \in Nat, IsOfPath(mpd.url), NEW set, NEW rep, NEW part,
           IsPartOf(part, mpd.url, set, rep), IsWhole(set, rep), rep.indexed => rep.file.present,
           rep.file.present => IsMovable(mpd.url, rep.file.url)
    PROVE  LeadsTo(MpdEvents(Small(mpd, TextBase(mpd.url), part)), mpd, set, rep)
<1> DEFINE base == TextBase(mpd.url)
           m == Small(mpd, base, part)
           source == ParseDashManifest(MpdEvents(m), LocalUrl)
<1>1. base.kind = "absolute" /\ IsSet(part)
    BY TextBaseIs DEF IsPartOf
<1>2. /\ IsFormed(m) /\ Main(m) = part
      /\ Complete(part) => HasMainTemplate(m)
  <2> HIDE DEF base
  <2> QED BY <1>1, SmallFormed
<1>3. m.url = LocalUrl /\ m.live = mpd.live /\ m.total = mpd.total /\ m.sets = <<part>>
    BY DEF Small
<1>4. \A x : Join(BaseOf(m), x) = Join(mpd.url, x)
    BY SmallBase
<1> HIDE DEF m
<1>5. source = ParseDashManifest(MpdEvents(m), m.url)
    BY <1>3
<1>6. CASE ~rep.indexed
  <2>1. part.template = set.template /\ part.timeline = set.timeline /\ Complete(set)
      BY <1>6 DEF IsPartOf, IsWhole
  <2>2. Complete(part)
      BY <2>1 DEF Complete
  <2> HIDE DEF source
  <2>3. TemplateGiven(m, Main(m), source)
      BY <1>2, <1>5, <2>2, TemplateMpdParsed
  <2>4. ReadsTemplate(source, BaseOf(m), m, part)
      BY <1>2, <2>3 DEF TemplateGiven
  <2>5. ReadsTemplate(source, mpd.url, mpd, set)
      BY <1>3, <1>4, <2>1, <2>4, TemplateOfPart
  <2> QED BY <1>6, <2>5 DEF LeadsTo, source, m, base
<1>7. CASE rep.indexed
  <2> DEFINE r == part.reps[1]
             b == BaseOf(m)
             file == Join(b, r.file.url)
  <2>1. part.template = NoAttributes /\ r = MovedRep(base, rep)
      BY <1>7 DEF IsPartOf
  <2>2. r.file.present = TRUE /\ r.file.url = Absolute(base, rep.file.url) /\ r.indexed /\ r.index = rep.index
      BY <1>7, <2>1 DEF MovedRep, MovedFile, SomeUrl
  <2>3. file.ok = TRUE /\ file.url = Join(mpd.url, rep.file.url).url
    <3>1. IsMovable(mpd.url, rep.file.url)
        BY <1>7
    <3> HIDE DEF r, b, base, file
    <3>2. SameFile(b, Absolute(base, rep.file.url), mpd.url, rep.file.url)
        BY <3>1, MovedResolves DEF base
    <3> QED BY <2>2, <3>2 DEF SameFile, file
  <2> HIDE DEF r, b, file, source
  <2>4. PICK q : /\ MpdDone(m, q)
                 /\ source = CASE q.media.present -> FromTemplate(q, b)
                               [] ~q.media.present /\ q.indexed.url.present -> FromSegmentBase(q, b)
                               [] OTHER -> ErrSource
      BY <1>2, <1>5, OtherMpdParsed DEF b
  <2>5. q.media = Missing /\ q.indexed = WithIndex(r)
    <3>1. PICK p, f : Fresh(p) /\ SetStates(m.sets, f, p, q)
        BY <2>4 DEF MpdDone
    <3> DEFINE sets == m.sets
    <3>2. Len(sets) = 1 /\ sets[1] = part
        BY <1>3
    <3> HIDE DEF sets
    <3>3. f[0] = p /\ f[1] = q /\ SetDone(part, f[0], f[1])
      <4>1. f[0] = p /\ f[Len(sets)] = q /\ \A k \in 0..Len(sets) : k < Len(sets) => SetDone(sets[k + 1], f[k], f[k + 1])
          BY <3>1 DEF SetStates, sets
      <4>2. SetDone(sets[0 + 1], f[0], f[0 + 1])
          BY <3>2, <4>1
      <4> QED BY <3>2, <4>1, <4>2
    <3>4. SegmentsKept(p, q) /\ ChosenIndex(OfVideoSet(part), r, p, q)
        BY <2>1, <3>3 DEF SetDone, r
    <3>5. p.media = Missing /\ NotFromVideo(p) /\ NoIndex(p)
        BY <3>1 DEF Fresh
    <3>6. q.indexed = WithIndex(r)
      <4>1. OfVideoSet(part) \in BOOLEAN
          BY DEF OfVideoSet
      <4>2. CASE OfVideoSet(part) = TRUE
          BY <2>2, <3>4, <3>5, <4>2 DEF ChosenIndex
      <4>3. CASE OfVideoSet(part) = FALSE
          BY <2>2, <3>4, <3>5, <4>3 DEF ChosenIndex, FirstIndex
      <4> QED BY <4>1, <4>2, <4>3
    <3> QED BY <3>4, <3>5, <3>6 DEF SegmentsKept
  <2> DEFINE index == [present |-> TRUE, index |-> r.index, scale |-> r.scale]
  <2>6. source = DashSource(q, file.url, <<>>, <<>>, index)
    <3>1. source = FromSegmentBase(q, b)
        BY <2>4, <2>5 DEF Missing, WithIndex, SomeUrl
    <3>2. q.indexed.url.url = r.file.url /\ q.indexed.index.range = r.index /\ q.indexed.scale = r.scale
        BY <2>5 DEF WithIndex, SomeUrl
    <3> QED BY <2>3, <3>1, <3>2 DEF FromSegmentBase, file
  <2>7. source.ok = TRUE /\ source.segmentBase.index = rep.index /\ source.init.url = file.url
      BY <2>2, <2>6 DEF DashSource, SomeUrl
  <2>8. source.init.url = Join(mpd.url, rep.file.url).url
      BY <2>3, <2>7
  <2> QED BY <1>7, <2>7, <2>8 DEF LeadsTo, source, m, base
<1> QED BY <1>6, <1>7

-----------------------------------------------------------------------------
(* The variants of a video set *)

\* A set's events, taken apart into its Representations and what is before them.
RepsCut(set) ==
    LET events == SetEvents(set)
        b == Blocks(events, "Representation")
    IN  /\ events[1] = SetStart(set) /\ Len(b) = Len(set.reps)
        /\ \A r \in 1..Len(set.reps) : /\ Content(events, b[r]) = RepEvents(set.reps[r])
                                       /\ RepEvents(set.reps[r])[1] = RepStart(set.reps[r])
        /\ set.reps # <<>> => SubSeq(events, 2, b[1].first - 1) = TemplateOf(set)

\* The first block begins right behind what is before the blocks.
LEMMA FirstBlockPlace ==
    ASSUME NEW bs, IsList(bs), bs # <<>>, \A s \in 1..Len(bs) : IsList(bs[s]), NEW name,
           NEW events, Len(events) \in Nat, NEW g, IsSum(g, Lengths(bs), Len(bs)),
           NEW p, InRowAt(events, name, bs, p, g)
    PROVE  p + Len(bs[1]) <= Len(events) /\ \A j \in 1..Len(bs[1]) : events[p + j] = bs[1][j]
<1> DEFINE n == Len(bs)
           d == Lengths(bs)
           m == Len(bs[1])
<1>1. n \in Nat /\ 1 \in 1..n /\ 0 \in 0..n /\ n \in 0..n /\ 1 \in 0..n /\ 1 <= n
    BY DEF IsList
<1>2. \A s \in 1..n : d[s] = Len(bs[s]) /\ d[s] \in Nat
    BY DEF Lengths, IsList
<1> HIDE DEF n, d
<1>3. g[0] = 0 /\ g[1] = g[0] + d[1] /\ g[n] \in Nat /\ g[1] \in Nat
    BY <1>1 DEF IsSum, n, d
<1>4. g[1] <= g[n]
    BY <1>1, <1>2, SumMonotone DEF n, d
<1>5. d[1] = m /\ m \in Nat
    BY <1>1, <1>2
<1>6. p \in Nat /\ p + g[n] <= Len(events)
    BY DEF InRowAt, n
<1> HIDE DEF m
<1>7. ASSUME NEW j \in 1..m PROVE events[p + j] = bs[1][j]
  <2>1. events[p + g[1 - 1] + j] = bs[1][j]
      BY <1>1 DEF InRowAt, n, m
  <2>2. p + g[1 - 1] + j = p + j
      BY <1>3, <1>5, <1>6
  <2> QED BY <2>1, <2>2
<1>8. p + m <= Len(events)
    BY <1>3, <1>4, <1>5, <1>6
<1> QED BY <1>7, <1>8 DEF m

\* What a set begins with.
SetBegins(set) ==
    LET events == SetEvents(set)
        t == TemplateOf(set)
        x == RepEvents(set.reps[1])
    IN  /\ events[1] = SetStart(set)
        /\ \A i \in 1..Len(t) : events[1 + i] = t[i]
        /\ set.reps # <<>> => /\ 1 + Len(t) + Len(x) <= Len(events)
                              /\ \A j \in 1..Len(x) : events[1 + Len(t) + j] = x[j]

\* The Representations of a set are found as they were written, and what comes before the first is its template.
LEMMA SetTakenApart == ASSUME NEW set, HasLists(set) PROVE RepsCut(set) /\ SetBegins(set)
<1> DEFINE events == SetEvents(set)
           b == Blocks(events, "Representation")
           n == Len(set.reps)
           l == RepsEvents(set.reps)
           f == FlattenSeq(l)
           t == TemplateOf(set)
           k == << SetStart(set) >>
           post == << End("AdaptationSet") >>
           pre == Joined(k, t)
           all == Joined(pre, f)
<1>1. /\ IsList(l) /\ Len(l) = n /\ n \in Nat /\ IsList(f)
      /\ \A r \in 1..n : l[r] = RepEvents(set.reps[r]) /\ IsOneBlock(l[r], "Representation")
    BY RepsForm DEF HasLists, Named
<1>2. Named(t, TemplateElements)
    BY ContentNames
<1>3. IsList(t)
    BY <1>2 DEF Named
<1>4. /\ IsList(k) /\ IsList(post) /\ Len(k) = 1 /\ k[1] = SetStart(set)
      /\ NoStart(k, "Representation") /\ NoStart(post, "Representation")
  <2>1. ~IsStart(SetStart(set), "Representation") /\ ~IsStart(End("AdaptationSet"), "Representation")
      BY DEF IsStart, SetStart, Start, End
  <2>2. IsList(k) /\ IsList(post)
      BY ShortLists, Zenon
  <2> QED BY <2>1, <2>2 DEF NoStart
<1>5. events = Joined(Joined(k, Joined(t, f)), post)
  <2>1. SetContentOf(set) = Joined(t, f)
      BY DEF SetContentOf
  <2>2. events = Element("AdaptationSet", SetAttributesOf(set), SetContentOf(set))
      BY SetForm
  <2> HIDE DEF t, f, events
  <2>3. events = Element("AdaptationSet", SetAttributesOf(set), Joined(t, f))
      BY <2>1, <2>2
  <2> QED BY <2>3, ElementIsJoined DEF SetStart
<1> HIDE DEF l, t, k, post, events
<1>6. Joined(k, Joined(t, f)) = all
  <2> HIDE DEF f
  <2> QED BY <1>1, <1>3, <1>4, JoinLists
<1>7. IsList(pre) /\ Len(pre) = 1 + Len(t) /\ pre[1] = SetStart(set) /\ Len(t) \in Nat
      /\ \A i \in 1..Len(t) : pre[1 + i] = t[i]
  <2> HIDE DEF pre
  <2>1. IsJoin(pre, k, t)
      BY <1>3, <1>4, JoinedIsList DEF pre
  <2> QED BY <1>4, <2>1 DEF IsJoin
<1>8. NoStart(pre, "Representation")
  <2>1. \A i \in 1..Len(t) : ~IsStart(t[i], "Representation")
    <3>1. Free(t, "Representation")
        BY <1>2, NamedFree DEF TemplateElements
    <3> QED BY <1>3, <3>1, FreeHasNoStart DEF NoStart
  <2>2. ~IsStart(k[1], "Representation")
      BY <1>4 DEF NoStart
  <2> HIDE DEF pre
  <2>3. ASSUME NEW i \in 1..Len(pre) PROVE ~IsStart(pre[i], "Representation")
    <3>1. CASE i = 1
        BY <1>4, <1>7, <2>2, <3>1
    <3>2. CASE i # 1
      <4>1. i - 1 \in 1..Len(t) /\ 1 + (i - 1) = i
          BY <1>7, <3>2
      <4> QED BY <1>7, <2>1, <4>1
    <3> QED BY <3>1, <3>2
  <2> QED BY <2>3 DEF NoStart
<1> HIDE DEF pre
<1>9. events = Joined(Joined(pre, FlattenSeq(l)), post)
    BY <1>5, <1>6
<1>10. Cut(events, "Representation", l, Len(pre)) /\ IsList(events)
    BY <1>1, <1>4, <1>7, <1>8, <1>9, CutInto
<1>21. l # <<>> => /\ Len(pre) + Len(l[1]) <= Len(events)
                   /\ \A j \in 1..Len(l[1]) : events[Len(pre) + j] = l[1][j]
  <2>1. \A s \in 1..Len(l) : IsList(l[s])
      BY <1>1 DEF IsOneBlock
  <2> DEFINE q == Len(pre)
             name == "Representation"
  <2>2. PICK g : IsSum(g, Lengths(l), Len(l)) /\ InRowAt(events, name, l, q, g)
      BY <1>1, <1>4, <1>7, <1>8, <1>9, <2>1, RowOfBlocks
  <2>3. Len(events) \in Nat
      BY <1>10 DEF IsList
  <2> HIDE DEF q, name
  <2>4. ASSUME l # <<>>
        PROVE  q + Len(l[1]) <= Len(events) /\ \A j \in 1..Len(l[1]) : events[q + j] = l[1][j]
      BY <1>1, <2>1, <2>2, <2>3, <2>4, FirstBlockPlace
  <2> QED BY <2>4 DEF q
<1>11. IsJoin(all, pre, f)
    BY <1>1, <1>7, JoinedIsList
<1> HIDE DEF all
<1>12. IsJoin(events, all, post)
  <2>1. events = Joined(all, post)
      BY <1>5, <1>6
  <2>2. IsList(all) /\ IsList(post)
      BY <1>4, <1>11 DEF IsJoin
  <2> QED BY <2>1, <2>2, JoinedIsList
<1>13. \A i \in 1..Len(pre) : events[i] = pre[i]
    BY <1>11, <1>12 DEF IsJoin
<1>14. Len(pre) <= Len(events)
    BY <1>11, <1>12 DEF IsJoin
<1>15. SubSeq(events, 1 + 1, 1 + Len(t)) = t
  <2> DEFINE s == SubSeq(events, 1 + 1, 1 + Len(t))
             m == Len(t)
             o == 1
             R == Range(events)
  <2>1. events \in Seq(R) /\ m \in Nat /\ o \in Nat /\ o + m <= Len(events)
      BY <1>7, <1>10, <1>14 DEF IsList
  <2> HIDE DEF m, o, R
  <2>2. IsList(SubSeq(events, o + 1, o + m)) /\ Len(SubSeq(events, o + 1, o + m)) = m
        /\ \A j \in 1..m : SubSeq(events, o + 1, o + m)[j] = events[o + j]
      BY <2>1, PartOfList
  <2>3. IsList(s) /\ Len(s) = Len(t) /\ \A j \in 1..Len(t) : s[j] = events[1 + j]
      BY <2>2 DEF m, o
  <2> HIDE DEF s
  <2>4. ASSUME NEW j \in 1..Len(t) PROVE s[j] = t[j]
    <3>1. 1 + j \in 1..Len(pre)
        BY <1>7
    <3> QED BY <1>7, <1>13, <2>3, <3>1
  <2>5. s = t
      BY <1>3, <2>3, <2>4, SameLists
  <2> QED BY <2>5 DEF s
<1> DEFINE first == b[1].first
<1>16. /\ Len(b) = n /\ \A r \in 1..n : Content(events, b[r]) = l[r]
       /\ l # <<>> => first = Len(pre) + 1
  <2> HIDE DEF b
  <2> QED BY <1>1, <1>10 DEF Cut, b
<1>17. set.reps # <<>> => l # <<>>
  <2>1. n = 0 => set.reps = <<>>
      BY DEF HasLists, IsList
  <2>2. l = <<>> => Len(l) = 0
      OBVIOUS
  <2> QED BY <1>1, <2>1, <2>2
<1> HIDE DEF first, b
<1>18. set.reps # <<>> => SubSeq(events, 2, first - 1) = t
  <2> SUFFICES ASSUME set.reps # <<>> PROVE SubSeq(events, 2, first - 1) = t
      OBVIOUS
  <2>1. first = Len(pre) + 1
      BY <1>16, <1>17
  <2>2. first - 1 = 1 + Len(t) /\ 2 = 1 + 1
      BY <1>7, <2>1
  <2> QED BY <1>15, <2>2
<1>19. events[1] = SetStart(set)
    BY <1>7, <1>13
<1>20. \A r \in 1..n : RepEvents(set.reps[r])[1] = RepStart(set.reps[r])
  <2>1. \A x : RepEvents(x)[1] = RepStart(x)
    <3> SUFFICES ASSUME NEW x PROVE RepEvents(x)[1] = RepStart(x)
        OBVIOUS
    <3>1. IsList(IndexOf(x))
        BY RepIsBlock
    <3> QED BY <3>1, ElementItems DEF ElementAt, RepEvents, RepStart
  <2> QED BY <2>1
<1>22. \A i \in 1..Len(t) : events[1 + i] = t[i]
  <2>1. \A i \in 1..Len(t) : 1 + i \in 1..Len(pre)
      BY <1>7
  <2> QED BY <1>7, <1>13, <2>1
<1>23. set.reps # <<>> => /\ 1 + Len(t) + Len(RepEvents(set.reps[1])) <= Len(events)
                          /\ \A j \in 1..Len(RepEvents(set.reps[1])) :
                                events[1 + Len(t) + j] = RepEvents(set.reps[1])[j]
  <2> SUFFICES ASSUME set.reps # <<>>
               PROVE  /\ 1 + Len(t) + Len(RepEvents(set.reps[1])) <= Len(events)
                      /\ \A j \in 1..Len(RepEvents(set.reps[1])) :
                            events[1 + Len(t) + j] = RepEvents(set.reps[1])[j]
      OBVIOUS
  <2>1. l[1] = RepEvents(set.reps[1])
    <3>1. n # 0
        BY <1>1, <1>17
    <3>2. 1 \in 1..n
        BY <1>1, <3>1
    <3> QED BY <1>1, <3>2
  <2> QED BY <1>7, <1>17, <1>21, <2>1
<1>24. RepsCut(set)
    BY <1>1, <1>16, <1>18, <1>19, <1>20 DEF RepsCut, first, b, n, events, t
<1> QED BY <1>19, <1>22, <1>23, <1>24 DEF SetBegins, events, t

\* The set of a variant's manifest.
VariantPart(base, set, rep, first) ==
    [type |-> set.type, mime |-> set.mime,
     template |-> IF first THEN set.template ELSE NoAttributes,
     timeline |-> IF first THEN set.timeline ELSE <<>>,
     reps |-> << MovedRep(base, rep) >>]

\* What is put together for a variant is a set of one Representation.
LEMMA VariantForm ==
    ASSUME NEW set, HasLists(set), NEW rep, NEW base, NEW first \in BOOLEAN, NEW shared,
           shared = IF first THEN TemplateOf(set) ELSE <<>>
    PROVE  << SetStart(set) >> \o shared \o ResolveBaseUrls(RepEvents(rep), base) \o << End("AdaptationSet") >>
               = SetEvents(VariantPart(base, set, rep, first))
           /\ HasLists(VariantPart(base, set, rep, first))
<1> DEFINE part == VariantPart(base, set, rep, first)
           m == MovedRep(base, rep)
           x == RepEvents(m)
           y == ResolveBaseUrls(RepEvents(rep), base)
           t == TemplateOf(part)
           k == << SetStart(set) >>
           e == << End("AdaptationSet") >>
<1>1. /\ part.type = set.type /\ part.mime = set.mime /\ part.reps = <<m>>
      /\ part.template = IF first THEN set.template ELSE NoAttributes
      /\ part.timeline = IF first THEN set.timeline ELSE <<>>
    BY DEF VariantPart
<1> HIDE DEF part, m
<1>2. IsList(<<m>>)
    BY ShortLists, Zenon
<1>3. HasLists(part)
    BY <1>1, <1>2, EmptyIsList DEF HasLists
<1>4. shared = t
    BY <1>1 DEF TemplateOf
<1>5. SetStart(part) = SetStart(set)
    BY <1>1 DEF SetStart, SetAttributesOf, WithMime
<1>6. y = x
    BY RepMoved DEF m
<1>7. IsList(x)
    BY RepIsBlock
<1>8. FlattenSeq(RepsEvents(part.reps)) = x
  <2>1. RepsEvents(<<m>>) = <<x>>
      BY DEF RepsEvents
  <2> HIDE DEF x
  <2> QED BY <1>1, <1>7, <2>1, FlattenOne
<1>9. IsList(t)
    BY <1>3, ContentNames DEF Named
<1> HIDE DEF x, y, t
<1>10. SetContentOf(part) = Joined(t, x)
    BY <1>8 DEF SetContentOf, t
<1>11. SetEvents(part) = Joined(Joined(<< SetStart(part) >>, Joined(t, x)), e)
    BY <1>10, SetForm, ElementIsJoined DEF SetStart
<1>12. IsList(k)
    BY ShortLists, Zenon
<1> HIDE DEF k, e
<1>13. Joined(k, Joined(t, x)) = Joined(Joined(k, t), x)
    BY <1>7, <1>9, <1>12, JoinLists
<1>14. SetEvents(part) = Joined(Joined(Joined(k, t), x), e)
    BY <1>5, <1>11, <1>13 DEF k
<1> QED BY <1>3, <1>4, <1>6, <1>14 DEF Joined, k, e, y, part

\* IsIsobmff asks for the MIME type of the Representation, then for that of its set.
LEMMA MimeTold ==
    ASSUME NEW set, NEW rep, NEW events, events[1] = SetStart(set), NEW r, r[1] = RepStart(rep)
    PROVE  /\ IsIsobmff(events, r) <=> InMp4(set, rep)
           /\ Attr(r[1], "bandwidth", 0) = rep.bandwidth
<1> DEFINE a == SetAttributesOf(set)
           b == RepAttributes(rep)
           c == [contentType |-> set.type]
           d == [bandwidth |-> rep.bandwidth]
<1>1. MimeIn(a, c, set)
  <2>1. "mimeType" \notin DOMAIN c
      OBVIOUS
  <2> HIDE DEF c
  <2> QED BY <2>1, MimeOfElement DEF SetAttributesOf, a, c
<1>2. MimeIn(b, d, rep) /\ DOMAIN d = {"bandwidth"} /\ d["bandwidth"] = rep.bandwidth
  <2>1. "mimeType" \notin DOMAIN d
      OBVIOUS
  <2>2. DOMAIN d = {"bandwidth"} /\ d["bandwidth"] = rep.bandwidth
      OBVIOUS
  <2> HIDE DEF d
  <2> QED BY <2>1, <2>2, MimeOfElement DEF RepAttributes, b, d
<1>3. events[1].attributes = a /\ r[1].attributes = b
    BY DEF SetStart, RepStart, Start
<1> HIDE DEF a, b, c, d
<1>4. Attr(r[1], "bandwidth", 0) = rep.bandwidth
  <2>1. "bandwidth" \in DOMAIN b /\ b["bandwidth"] = rep.bandwidth
      BY <1>2 DEF MimeIn
  <2> QED BY <1>3, <2>1 DEF Attr, HasAttr
<1>5. \A v : Attr(events[1], "mimeType", v) = IF set.mime # "none" THEN set.mime ELSE v
    BY <1>1, <1>3 DEF Attr, HasAttr, MimeIn
<1>6. \A v : Attr(r[1], "mimeType", v) = IF rep.mime # "none" THEN rep.mime ELSE v
    BY <1>2, <1>3 DEF Attr, HasAttr, MimeIn
<1> QED BY <1>4, <1>5, <1>6 DEF IsIsobmff, InMp4

AllReps(set) == [r \in 1..Len(set.reps) |-> [set |-> set, rep |-> set.reps[r], first |-> r = 1]]
VariantOf(mpd, base, x) ==
    [bandwidth |-> x.rep.bandwidth,
     document |-> MpdEvents(Small(mpd, base, VariantPart(base, x.set, x.rep, x.first)))]
VariantsOf(mpd, base, D) == [x \in D |-> VariantOf(mpd, base, x)]
\* What the code makes of a block of a video set.
VariantMade(mpd, base, events, blocks, r) ==
    [bandwidth |-> Attr(Content(events, blocks[r])[1], "bandwidth", 0),
     document |-> SyntheticMpd(mpd, base,
         << events[1] >> \o SharedContent(events, blocks, r)
         \o ResolveBaseUrls(Content(events, blocks[r]), base) \o << End("AdaptationSet") >>)]

\* What is made of a block is the variant of its Representation.
LEMMA VariantAtPlace ==
    ASSUME NEW set, HasLists(set), NEW mpd, NEW base, NEW r \in 1..Len(set.reps)
    PROVE  /\ VariantMade(Start("MPD", MpdStart(mpd)), base, SetEvents(set),
                          Blocks(SetEvents(set), "Representation"), r)
                  = VariantOf(mpd, base, AllReps(set)[r])
           /\ IsIsobmff(SetEvents(set), Content(SetEvents(set), Blocks(SetEvents(set), "Representation")[r]))
                  <=> InMp4(set, set.reps[r])
<1> DEFINE events == SetEvents(set)
           b == Blocks(events, "Representation")
           rep == set.reps[r]
           c == Content(events, b[r])
           first == r = 1
           shared == SharedContent(events, b, r)
           part == VariantPart(base, set, rep, first)
           start == Start("MPD", MpdStart(mpd))
<1>1. /\ events[1] = SetStart(set) /\ c = RepEvents(rep) /\ RepEvents(rep)[1] = RepStart(rep)
      /\ set.reps # <<>> => SubSeq(events, 2, b[1].first - 1) = TemplateOf(set)
    BY SetTakenApart DEF RepsCut
<1>2. set.reps # <<>>
  <2>1. set.reps = <<>> => Len(set.reps) = 0
      OBVIOUS
  <2> QED BY <2>1
<1>3. first \in BOOLEAN
    OBVIOUS
<1>4. AllReps(set)[r].set = set /\ AllReps(set)[r].rep = rep /\ AllReps(set)[r].first = first
    BY DEF AllReps
<1> HIDE DEF first, events, b, c, rep
<1>5. shared = IF first THEN TemplateOf(set) ELSE <<>>
    BY <1>1, <1>2 DEF SharedContent, first
<1> HIDE DEF shared
<1>6. /\ << SetStart(set) >> \o shared \o ResolveBaseUrls(RepEvents(rep), base) \o << End("AdaptationSet") >>
             = SetEvents(part)
      /\ HasLists(part)
    BY <1>3, <1>5, VariantForm
<1> HIDE DEF part
<1>7. SyntheticMpd(start, base, SetEvents(part)) = MpdEvents(Small(mpd, base, part))
    BY <1>6, SyntheticIsMpd
<1>8. (IsIsobmff(events, c) <=> InMp4(set, rep)) /\ Attr(c[1], "bandwidth", 0) = rep.bandwidth
    BY <1>1, MimeTold
<1> HIDE DEF start
<1>9. VariantOf(mpd, base, AllReps(set)[r])
          = [bandwidth |-> rep.bandwidth, document |-> MpdEvents(Small(mpd, base, part))]
    BY <1>4 DEF VariantOf, part
<1>10. VariantMade(start, base, events, b, r)
          = [bandwidth |-> rep.bandwidth, document |-> SyntheticMpd(start, base, SetEvents(part))]
    BY <1>1, <1>6, <1>8 DEF VariantMade, shared, c
<1> QED BY <1>7, <1>8, <1>9, <1>10 DEF start, events, b, c, rep

\* The variants of a video set are those of its Representations in MP4, in order.
LEMMA VariantsOfSet ==
    ASSUME NEW set, HasLists(set), NEW mpd, NEW base, NEW D, Range(AllReps(set)) \subseteq D
    PROVE  /\ VideoVariants(Start("MPD", MpdStart(mpd)), base, SetEvents(set))
                  = Mapped(VariantsOf(mpd, base, D), RepsOf(set))
           /\ RepsOf(set) \in Seq(D)
<1> DEFINE events == SetEvents(set)
           b == Blocks(events, "Representation")
           start == Start("MPD", MpdStart(mpd))
           n == Len(set.reps)
           all == AllReps(set)
           g == VariantsOf(mpd, base, D)
           made == [r \in 1..Len(b) |-> VariantMade(start, base, events, b, r)]
           I == {r \in 1..Len(b) : IsIsobmff(events, Content(events, b[r]))}
           J == {r \in 1..n : InMp4(set, set.reps[r])}
<1>1. Len(b) = n /\ n \in Nat
    BY SetTakenApart DEF RepsCut, HasLists, IsList
<1>2. all = [r \in 1..n |-> all[r]] /\ Len(all) = n /\ DOMAIN all = 1..n
    BY <1>1 DEF AllReps
<1>3. all \in Seq(D) /\ \A r \in 1..n : all[r] \in D
  <2>1. \A r \in 1..n : all[r] \in D
      BY <1>2 DEF Range
  <2> HIDE DEF all, n
  <2> QED BY <1>1, <1>2, <2>1
<1>4. VideoVariants(start, base, events) = Chosen(made, I)
    BY DEF VideoVariants, VariantMade
<1>5. \A r \in 1..n : VariantMade(start, base, events, b, r) = VariantOf(mpd, base, all[r])
                      /\ (IsIsobmff(events, Content(events, b[r])) <=> InMp4(set, set.reps[r]))
    BY VariantAtPlace
<1> HIDE DEF start, events, b, n
<1>6. RepsOf(set) = Chosen(all, J)
    BY DEF RepsOf, AllReps, n
<1> HIDE DEF all
<1>7. I = J
    BY <1>1, <1>5
<1>8. made = Mapped(g, all)
  <2>1. \A r \in 1..n : g[all[r]] = VariantOf(mpd, base, all[r])
      BY <1>3 DEF VariantsOf
  <2> HIDE DEF g
  <2>2. Mapped(g, all) = [r \in 1..n |-> g[all[r]]]
      BY <1>2 DEF Mapped
  <2>3. made = [r \in 1..n |-> VariantMade(start, base, events, b, r)]
      BY <1>1
  <2> HIDE DEF made
  <2> QED BY <1>5, <2>1, <2>2, <2>3
<1> HIDE DEF made, I, J, g
<1>9. Chosen(Mapped(g, all), I) = Mapped(g, Chosen(all, I))
    BY <1>3, ChosenMapped
<1>10. Chosen(all, I) \in Seq(D)
    BY <1>3, ChosenType
<1> QED BY <1>4, <1>6, <1>7, <1>8, <1>9, <1>10 DEF start, events, g

-----------------------------------------------------------------------------
(* The sets of an MPD *)

\* The sets of such an MPD.
LEMMA SeparableSets ==
    ASSUME NEW mpd, IsSeparable(mpd)
    PROVE  /\ IsList(mpd.sets) /\ Len(mpd.sets) \in Nat
           /\ \A s \in 1..Len(mpd.sets) :
                 /\ IsSet(mpd.sets[s]) /\ HasLists(mpd.sets[s]) /\ IsToldApart(mpd.url, mpd.sets[s])
                 /\ IsTold(mpd.sets[s]) /\ mpd.sets[s] \in Range(mpd.sets)
<1>1. IsList(mpd.sets) /\ Len(mpd.sets) \in Nat
    BY DEF IsSeparable, IsFormed, IsList
<1>2. ASSUME NEW s \in 1..Len(mpd.sets)
      PROVE  /\ IsSet(mpd.sets[s]) /\ HasLists(mpd.sets[s]) /\ IsToldApart(mpd.url, mpd.sets[s])
             /\ IsTold(mpd.sets[s]) /\ mpd.sets[s] \in Range(mpd.sets)
  <2> DEFINE set == mpd.sets[s]
  <2>1. IsToldApart(mpd.url, set)
      BY DEF IsSeparable
  <2>2. IsSet(set)
      BY DEF IsSeparable, IsFormed, IsSet, HasFile
  <2>3. set \in Range(mpd.sets)
      BY <1>1, ItemsInRange
  <2> HIDE DEF set
  <2>4. HasLists(set)
      BY <2>2 DEF IsSet, HasLists
  <2>5. IsTold(set)
      BY <2>1, <2>2, KindsTold
  <2> QED BY <2>1, <2>2, <2>3, <2>4, <2>5 DEF set
<1> QED BY <1>1, <1>2

\* Choosing among the events of the sets is choosing among the sets.
LEMMA KindChosen ==
    ASSUME NEW mpd, IsSeparable(mpd), NEW I, NEW J, \A s \in 1..Len(mpd.sets) : s \in I <=> s \in J
    PROVE  Chosen(SetsEvents(mpd.sets), I) = SetsEvents(Chosen(mpd.sets, J))
<1> DEFINE sets == mpd.sets
           R == Range(sets)
           g == [set \in R |-> SetEvents(set)]
           c == Chosen(sets, J)
<1>1. sets \in Seq(R) /\ Len(sets) \in Nat /\ \A s \in 1..Len(sets) : sets[s] \in R
    BY SeparableSets DEF IsList
<1> HIDE DEF sets, R
<1>2. Chosen(sets, I) = Chosen(sets, J)
    BY <1>1, ChosenAgree DEF sets
<1>3. c \in Seq(R)
    BY <1>1, ChosenType
<1> HIDE DEF c
<1>4. \A k \in 1..Len(c) : g[c[k]] = SetEvents(c[k])
    BY <1>3
<1>5. \A s \in 1..Len(sets) : g[sets[s]] = SetEvents(sets[s])
    BY <1>1
<1> HIDE DEF g
<1>6. SetsEvents(sets) = Mapped(g, sets)
    BY <1>5 DEF SetsEvents, Mapped
<1>7. SetsEvents(c) = Mapped(g, c)
    BY <1>4 DEF SetsEvents, Mapped
<1>8. Chosen(Mapped(g, sets), I) = Mapped(g, Chosen(sets, I))
    BY <1>1, ChosenMapped
<1> QED BY <1>2, <1>6, <1>7, <1>8 DEF sets, c

\* Sets of an MPD, of a type.
HasType(set, type) == set.type = type /\ (type = "audio" => set.mime # "audio/webm")
SetsOfType(mpd, sets, type) ==
    /\ IsList(sets) /\ Len(sets) \in Nat
    /\ \A k \in 1..Len(sets) : \E s \in 1..Len(mpd.sets) : HasType(sets[k], type) /\ sets[k] = mpd.sets[s]

LEMMA ChosenOfType ==
    ASSUME NEW mpd, IsSeparable(mpd), NEW J, NEW type, \A s \in J : HasType(mpd.sets[s], type)
    PROVE  SetsOfType(mpd, Chosen(mpd.sets, J), type)
<1> DEFINE sets == mpd.sets
           c == Chosen(sets, J)
           R == Range(sets)
<1>1. sets \in Seq(R)
    BY SeparableSets DEF IsList
<1> HIDE DEF R
<1>2. c \in Seq(R)
    BY <1>1, ChosenType
<1>3. \A k \in 1..Len(c) : \E s \in 1..Len(sets) : s \in J /\ sets[s] = c[k]
    BY <1>1, ChosenFrom
<1> HIDE DEF c
<1>4. IsList(c) /\ Len(c) \in Nat
    BY <1>2, SeqIsList
<1> QED BY <1>3, <1>4 DEF SetsOfType, c

\* The sets taken for video, audio and text are those of the type.
LEMMA SetsFound ==
    ASSUME NEW mpd, IsSeparable(mpd), NEW l, l = SetsEvents(mpd.sets)
    PROVE  /\ Chosen(l, {s \in 1..Len(l) : IsVideoSet(l[s])}) = SetsEvents(Videos(mpd))
           /\ Chosen(l, {s \in 1..Len(l) : IsAudioSet(l[s])}) = SetsEvents(SetsOf(mpd, "audio"))
           /\ Chosen(l, {s \in 1..Len(l) : IsTextSet(l[s])}) = SetsEvents(SetsOf(mpd, "text"))
           /\ SetsOfType(mpd, Videos(mpd), "video") /\ SetsOfType(mpd, SetsOf(mpd, "audio"), "audio")
           /\ SetsOfType(mpd, SetsOf(mpd, "text"), "text")
<1> DEFINE n == Len(mpd.sets)
           v == {s \in 1..n : mpd.sets[s].type = "video"}
           k(type) == {s \in 1..n : mpd.sets[s].type = type /\ mpd.sets[s].mime # "audio/webm"}
           V == {s \in 1..Len(l) : IsVideoSet(l[s])}
           A == {s \in 1..Len(l) : IsAudioSet(l[s])}
           T == {s \in 1..Len(l) : IsTextSet(l[s])}
<1>1. Len(l) = n /\ \A s \in 1..n : l[s] = SetEvents(mpd.sets[s]) /\ IsTold(mpd.sets[s])
    BY SeparableSets, SetsForm
<1>2. \A s \in 1..n : (s \in V <=> s \in v) /\ (s \in A <=> s \in k("audio")) /\ (s \in T <=> s \in k("text"))
    BY <1>1 DEF IsTold
<1>3. /\ \A s \in v : HasType(mpd.sets[s], "video")
      /\ \A s \in k("audio") : HasType(mpd.sets[s], "audio")
      /\ \A s \in k("text") : HasType(mpd.sets[s], "text")
    BY DEF HasType
<1>4. /\ Videos(mpd) = Chosen(mpd.sets, v) /\ SetsOf(mpd, "audio") = Chosen(mpd.sets, k("audio"))
      /\ SetsOf(mpd, "text") = Chosen(mpd.sets, k("text"))
    BY DEF Videos, SetsOf
<1> DEFINE a == k("audio")
           t == k("text")
<1> HIDE DEF v, k, V, A, T, a, t
<1>5. Chosen(l, V) = SetsEvents(Chosen(mpd.sets, v))
    BY <1>2, KindChosen
<1>6. Chosen(l, A) = SetsEvents(Chosen(mpd.sets, a))
    BY <1>2, KindChosen DEF a
<1>7. Chosen(l, T) = SetsEvents(Chosen(mpd.sets, t))
    BY <1>2, KindChosen DEF t
<1>8. SetsOfType(mpd, Chosen(mpd.sets, v), "video")
    BY <1>3, ChosenOfType
<1>9. SetsOfType(mpd, Chosen(mpd.sets, a), "audio")
    BY <1>3, ChosenOfType DEF a
<1>10. SetsOfType(mpd, Chosen(mpd.sets, t), "text")
    BY <1>3, ChosenOfType DEF t
<1> QED BY <1>4, <1>5, <1>6, <1>7, <1>8, <1>9, <1>10 DEF V, A, T, a, t

-----------------------------------------------------------------------------
(* The variants of an MPD *)

LEMMA MovedHasFile ==
    ASSUME NEW base, NEW rep, HasFile(rep)
    PROVE  HasFile(MovedRep(base, rep)) /\ MovedRep(base, rep).mime = rep.mime
<1> DEFINE m == MovedRep(base, rep)
<1>1. m.indexed = rep.indexed /\ m.mime = rep.mime /\ m.file = MovedFile(base, rep.file)
    BY DEF MovedRep
<1>2. rep.file.present => MovedFile(base, rep.file).present
    BY DEF MovedFile, SomeUrl
<1> HIDE DEF m
<1> QED BY <1>1, <1>2 DEF HasFile, m

LEMMA OfPath == ASSUME NEW mpd, IsSeparable(mpd)
                PROVE  IsOfPath(mpd.url) /\ mpd.live \in BOOLEAN /\ mpd.total \in Nat
BY DEF IsSeparable, IsFormed, IsOfPath

\* What is known of a Representation.
LEMMA RepToldApart ==
    ASSUME NEW mpd, IsSeparable(mpd), NEW set, \E s \in 1..Len(mpd.sets) : set = mpd.sets[s],
           NEW r \in 1..Len(set.reps)
    PROVE  /\ IsSet(set) /\ IsToldApart(mpd.url, set) /\ IsTold(set) /\ HasLists(set) /\ HasFile(set.reps[r])
           /\ set.reps[r] \in Range(set.reps) /\ set.reps[r].bandwidth \in Nat
           /\ set.reps[r].file.present => IsMovable(mpd.url, set.reps[r].file.url)
           /\ set.type = "video" => IsWhole(set, set.reps[r])
<1>1. IsSet(set) /\ IsToldApart(mpd.url, set) /\ IsTold(set) /\ HasLists(set)
    BY SeparableSets
<1>2. HasFile(set.reps[r])
    BY <1>1 DEF IsSet
<1>3. set.reps[r] \in Range(set.reps)
    BY <1>1, ItemsInRange DEF IsSet
<1> QED BY <1>1, <1>2, <1>3 DEF IsToldApart

\* A variant of the first Representation, or of an indexed one, leads to its segments.
LEMMA PieceLeads ==
    ASSUME NEW mpd, IsSeparable(mpd), NEW set, \E s \in 1..Len(mpd.sets) : set = mpd.sets[s], set.type = "video",
           NEW r \in 1..Len(set.reps), NEW x, x = AllReps(set)[r]
    PROVE  /\ x.rep.bandwidth \in Nat
           /\ x.first \/ x.rep.indexed =>
                 LeadsTo(VariantOf(mpd, TextBase(mpd.url), x).document, mpd, x.set, x.rep)
<1> DEFINE rep == set.reps[r]
           base == TextBase(mpd.url)
           first == r = 1
           m == MovedRep(base, rep)
           part == VariantPart(base, set, rep, first)
<1>1. x.set = set /\ x.rep = rep /\ x.first = first
    BY DEF AllReps
<1>2. /\ IsSet(set) /\ HasFile(rep) /\ rep.bandwidth \in Nat /\ IsWhole(set, rep)
      /\ rep.file.present => IsMovable(mpd.url, rep.file.url)
    BY RepToldApart
<1>3. /\ part.type = set.type /\ part.mime = set.mime /\ part.reps = <<m>>
      /\ part.template = IF first THEN set.template ELSE NoAttributes
      /\ part.timeline = IF first THEN set.timeline ELSE <<>>
    BY DEF VariantPart
<1>4. VariantOf(mpd, base, x).document = MpdEvents(Small(mpd, base, part))
    BY <1>1 DEF VariantOf
<1> HIDE DEF part
<1>5. HasFile(m)
    BY <1>2, MovedHasFile
<1> HIDE DEF m, rep
<1>6. IsSet(part)
  <2>0. IsList(<<m>>)
      BY ShortLists, Zenon
  <2>1. IsList(part.reps) /\ part.reps # <<>> /\ Len(part.reps) = 1 /\ part.reps[1] = m
      BY <1>3, <2>0
  <2>2. IsList(part.timeline)
      BY <1>2, <1>3, EmptyIsList DEF IsSet
  <2>3. \A k \in 1..Len(part.reps) : HasFile(part.reps[k])
    <3>1. \A k \in 1..Len(part.reps) : k = 1
        BY <2>1
    <3> QED BY <1>5, <2>1, <3>1
  <2> QED BY <1>3, <2>1, <2>2, <2>3 DEF IsSet
<1>7. ASSUME first \/ rep.indexed
      PROVE  LeadsTo(MpdEvents(Small(mpd, base, part)), mpd, set, rep)
  <2>1. part.reps[1] = m
      BY <1>3
  <2>2. IF rep.indexed THEN part.template = NoAttributes
        ELSE part.template = set.template /\ part.timeline = set.timeline
      BY <1>2, <1>3, <1>7 DEF IsWhole
  <2>3. IsPartOf(part, mpd.url, set, rep)
      BY <1>6, <2>1, <2>2 DEF IsPartOf, m
  <2>4. rep.indexed => rep.file.present
      BY <1>2 DEF HasFile
  <2>5. /\ IsOfPath(mpd.url) /\ mpd.live \in BOOLEAN /\ mpd.total \in Nat
        /\ IsWhole(set, rep) /\ (rep.file.present => IsMovable(mpd.url, rep.file.url))
      BY <1>2, OfPath
  <2> QED BY <2>3, <2>4, <2>5, PartLeads
<1> QED BY <1>1, <1>2, <1>4, <1>7

\* The variants of all video sets, in order.
PiecesOf(sets) == UNION {Range(AllReps(set)) : set \in Range(sets)}

\* The variants of an MPD are those of all its video sets, in order.
LEMMA VariantsFound ==
    ASSUME NEW mpd, IsSeparable(mpd), NEW videos, videos = Videos(mpd), SetsOfType(mpd, videos, "video"),
           NEW base, NEW list, list = SetsEvents(videos)
    PROVE  /\ FlattenSeq([s \in 1..Len(list) |-> VideoVariants(Start("MPD", MpdStart(mpd)), base, list[s])])
                  = Mapped(VariantsOf(mpd, base, PiecesOf(videos)), VideoReps(mpd))
           /\ VideoReps(mpd) \in Seq(PiecesOf(videos))
<1> DEFINE n == Len(videos)
           D == PiecesOf(videos)
           g == VariantsOf(mpd, base, D)
           start == Start("MPD", MpdStart(mpd))
           ss == [s \in 1..n |-> RepsOf(videos[s])]
           made == [s \in 1..Len(list) |-> VideoVariants(start, base, list[s])]
<1>1. n \in Nat /\ Len(list) = n /\ \A s \in 1..n : list[s] = SetEvents(videos[s])
    BY DEF SetsEvents, SetsOfType
<1>2. ASSUME NEW s \in 1..n
      PROVE  VideoVariants(start, base, SetEvents(videos[s])) = Mapped(g, RepsOf(videos[s])) /\ RepsOf(videos[s]) \in Seq(D)
  <2> DEFINE set == videos[s]
  <2>1. HasLists(set)
    <3>1. \E k \in 1..Len(mpd.sets) : set = mpd.sets[k]
        BY DEF SetsOfType
    <3> QED BY <3>1, SeparableSets
  <2>2. Range(AllReps(set)) \subseteq D
    <3>1. set \in Range(videos)
        BY ItemsInRange DEF SetsOfType
    <3> QED BY <3>1 DEF PiecesOf
  <2> HIDE DEF set, D, g
  <2> QED BY <2>1, <2>2, VariantsOfSet DEF start, g, set
<1> HIDE DEF D, g, start
<1>3. ss \in Seq(Seq(D)) /\ Len(ss) = n /\ \A s \in 1..n : ss[s] = RepsOf(videos[s])
  <2>1. \A s \in 1..n : RepsOf(videos[s]) \in Seq(D)
      BY <1>2
  <2> QED BY <1>1, <2>1
<1>4. VideoReps(mpd) = FlattenSeq(ss)
    BY DEF VideoReps
<1> HIDE DEF ss
<1>5. made = AllMapped(g, ss)
  <2>1. made = [s \in 1..n |-> VideoVariants(start, base, list[s])]
      BY <1>1
  <2>2. AllMapped(g, ss) = [s \in 1..n |-> Mapped(g, ss[s])]
      BY <1>3 DEF AllMapped
  <2>3. \A s \in 1..n : VideoVariants(start, base, list[s]) = Mapped(g, ss[s])
      BY <1>1, <1>2, <1>3
  <2> HIDE DEF made
  <2> QED BY <2>1, <2>2, <2>3
<1> HIDE DEF made
<1>6. FlattenSeq(AllMapped(g, ss)) = Mapped(g, FlattenSeq(ss))
    BY <1>3, FlattenMapped
<1>7. FlattenSeq(ss) \in Seq(D)
    BY <1>3, FlattenType
<1> QED BY <1>4, <1>5, <1>6, <1>7 DEF made, g, D, start

\* The variants are those of the reference, and the primary one is the largest.
HasVariants(tracks, mpd, reps) ==
    /\ Len(tracks.variants) = Len(reps)
    /\ \A v \in 1..Len(reps) :
          /\ tracks.variants[v].bandwidth = reps[v].rep.bandwidth
          /\ reps[v].first \/ reps[v].rep.indexed =>
                LeadsTo(tracks.variants[v].document, mpd, reps[v].set, reps[v].rep)
    /\ IF reps = <<>> THEN tracks.primary = 0
       ELSE Largest(tracks.variants[tracks.primary], tracks.variants)

\* Each variant leads to its segments.
LEMMA VariantsLead ==
    ASSUME NEW mpd, IsSeparable(mpd), SetsOfType(mpd, Videos(mpd), "video"),
           NEW g, g = VariantsOf(mpd, TextBase(mpd.url), PiecesOf(Videos(mpd))),
           NEW reps, reps \in Seq(PiecesOf(Videos(mpd))),
           NEW tracks, tracks.variants = Mapped(g, reps), tracks.primary = Primary(tracks.variants)
    PROVE  HasVariants(tracks, mpd, reps)
<1> DEFINE videos == Videos(mpd)
           base == TextBase(mpd.url)
           D == PiecesOf(videos)
           vs == tracks.variants
           n == Len(reps)
<1>1. n \in Nat /\ Len(vs) = n /\ IsList(vs) /\ DOMAIN vs = 1..n /\ \A v \in 1..n : vs[v] = g[reps[v]]
  <2>1. vs = [v \in 1..n |-> g[reps[v]]] /\ n \in Nat
      BY DEF Mapped
  <2> HIDE DEF vs
  <2>2. vs = [v \in 1..n |-> vs[v]]
      BY <2>1
  <2>3. IsList(vs) /\ Len(vs) = n
      BY <2>1, <2>2, FunctionIsList
  <2> QED BY <2>1, <2>3
<1>2. ASSUME NEW v \in 1..n
      PROVE  /\ vs[v].bandwidth = reps[v].rep.bandwidth /\ reps[v].rep.bandwidth \in Nat
             /\ reps[v].first \/ reps[v].rep.indexed => LeadsTo(vs[v].document, mpd, reps[v].set, reps[v].rep)
  <2> DEFINE x == reps[v]
  <2>1. x \in D
      OBVIOUS
  <2> HIDE DEF x
  <2>2. PICK set \in Range(videos) : x \in Range(AllReps(set))
      BY <2>1 DEF PiecesOf
  <2>3. (\E s \in 1..Len(mpd.sets) : set = mpd.sets[s]) /\ set.type = "video"
    <3>1. \E k \in 1..Len(videos) : videos[k] = set
        BY <2>2, ItemsInRange DEF SetsOfType
    <3> QED BY <3>1 DEF SetsOfType, HasType
  <2>4. PICK r \in 1..Len(set.reps) : x = AllReps(set)[r]
      BY <2>2 DEF AllReps, Range
  <2>5. /\ x.rep.bandwidth \in Nat
        /\ x.first \/ x.rep.indexed => LeadsTo(VariantOf(mpd, base, x).document, mpd, x.set, x.rep)
      BY <2>3, <2>4, PieceLeads
  <2>6. g[x] = VariantOf(mpd, base, x)
      BY <2>1 DEF VariantsOf
  <2>7. vs[v] = VariantOf(mpd, base, x)
      BY <1>1, <2>6 DEF x
  <2>8. VariantOf(mpd, base, x).bandwidth = x.rep.bandwidth
      BY DEF VariantOf
  <2> HIDE DEF vs
  <2> QED BY <2>5, <2>7, <2>8 DEF x
<1> HIDE DEF vs
<1>3. IF reps = <<>> THEN tracks.primary = 0 ELSE Largest(vs[tracks.primary], vs)
  <2>1. reps = <<>> => vs = <<>>
      BY <1>1
  <2>2. reps # <<>> => vs # <<>>
      BY <1>1
  <2>3. tracks.primary = Primary(vs)
      BY DEF vs
  <2>4. CASE reps = <<>>
      BY <2>1, <2>3, <2>4 DEF Primary
  <2>5. CASE reps # <<>>
    <3>1. \A v \in 1..Len(vs) : vs[v].bandwidth \in Nat
        BY <1>1, <1>2
    <3>2. Largest(vs[Primary(vs)], vs)
        BY <1>1, <2>2, <2>5, <3>1, PrimaryIsLargest
    <3> QED BY <2>3, <2>5, <3>2
  <2> QED BY <2>4, <2>5
<1> QED BY <1>1, <1>2, <1>3 DEF HasVariants, vs

-----------------------------------------------------------------------------
(* Audio and text *)

\* A set whose files are at their absolute URLs is one.
LEMMA MovedIsSet == ASSUME NEW base, NEW set, IsSet(set) PROVE IsSet(MovedSet(base, set))
<1> DEFINE m == MovedSet(base, set)
           moved == MovedReps(base, set.reps)
           n == Len(set.reps)
<1>1. m.type = set.type /\ m.mime = set.mime /\ m.timeline = set.timeline /\ m.reps = moved
    BY DEF MovedSet
<1>2. n \in Nat /\ n # 0 /\ DOMAIN moved = 1..n /\ \A r \in 1..n : moved[r] = MovedRep(base, set.reps[r])
    BY DEF IsSet, IsList, MovedReps
<1>3. IsList(moved) /\ Len(moved) = n
  <2>1. moved = [r \in 1..n |-> moved[r]]
      BY DEF MovedReps
  <2> HIDE DEF moved
  <2> QED BY <1>2, <2>1, FunctionIsList
<1> HIDE DEF m, moved, n
<1>4. moved # <<>>
    BY <1>2, <1>3
<1>5. ASSUME NEW r \in 1..n
      PROVE  /\ HasFile(moved[r]) /\ moved[r].mime = set.reps[r].mime /\ set.reps[r] \in Range(set.reps)
  <2>1. HasFile(set.reps[r]) /\ set.reps[r] \in Range(set.reps)
      BY ItemsInRange DEF IsSet, n
  <2> QED BY <1>2, <2>1, MovedHasFile
<1>6. ASSUME set.type # "video" PROVE \A x \in {m} \union Range(moved) : x.mime \notin VideoMimeTypes
  <2>1. \A x \in {set} \union Range(set.reps) : x.mime \notin VideoMimeTypes
      BY <1>6 DEF IsSet
  <2>2. \A x \in Range(moved) : \E r \in 1..n : x = moved[r]
      BY <1>3, ItemsInRange
  <2> QED BY <1>1, <1>5, <2>1, <2>2
<1>7. IsList(set.timeline)
    BY DEF IsSet
<1> QED BY <1>1, <1>3, <1>4, <1>5, <1>6, <1>7 DEF IsSet, m

\* The manifest of an audio or text set.
TrackOfSet(mpd, base, set) ==
    SyntheticMpd(Start("MPD", MpdStart(mpd)), base, ResolveBaseUrls(SetEvents(set), base))

\* The manifest of a whole set leads to its segments.
LEMMA SetLeads ==
    ASSUME NEW mpd, IsSeparable(mpd), NEW set, \E s \in 1..Len(mpd.sets) : set = mpd.sets[s],
           IsWhole(set, set.reps[1])
    PROVE  LeadsTo(TrackOfSet(mpd, TextBase(mpd.url), set), mpd, set, set.reps[1])
<1> DEFINE rep == set.reps[1]
           base == TextBase(mpd.url)
           part == MovedSet(base, set)
           start == Start("MPD", MpdStart(mpd))
<1>1. IsSet(set) /\ HasLists(set)
    BY SeparableSets
<1>2. 1 \in 1..Len(set.reps)
    BY <1>1 DEF IsSet, IsList
<1>3. HasFile(rep) /\ (rep.file.present => IsMovable(mpd.url, rep.file.url))
    BY <1>2, RepToldApart
<1>4. IsSet(part)
    BY <1>1, MovedIsSet
<1>5. ResolveBaseUrls(SetEvents(set), base) = SetEvents(part) /\ HasLists(part)
    BY <1>1, SetMoved
<1>6. /\ part.template = set.template /\ part.timeline = set.timeline
      /\ part.reps[1] = MovedRep(base, rep)
    BY <1>2 DEF MovedSet, MovedReps
<1> HIDE DEF part, rep, base, start
<1>7. SyntheticMpd(start, base, SetEvents(part)) = MpdEvents(Small(mpd, base, part))
    BY <1>5, SyntheticIsMpd DEF start
<1>8. IsPartOf(part, mpd.url, set, rep)
    BY <1>4, <1>6 DEF IsPartOf, IsWhole, rep, base
<1>9. IsOfPath(mpd.url) /\ mpd.live \in BOOLEAN /\ mpd.total \in Nat
    BY OfPath
<1>10. IsWhole(set, rep) /\ (rep.indexed => rep.file.present)
    BY <1>3 DEF HasFile, rep
<1>11. LeadsTo(MpdEvents(Small(mpd, TextBase(mpd.url), part)), mpd, set, rep)
    BY <1>3, <1>8, <1>9, <1>10, PartLeads
<1> QED BY <1>5, <1>7, <1>11 DEF TrackOfSet, start, base, rep

\* The first text of a set is that of its first Representation, if it has one.
LEMMA FirstText ==
    ASSUME NEW set, HasLists(set), set.reps # <<>>, set.reps[1].file.present,
           NEW urls, urls = Chosen(SetEvents(set), {i \in 1..Len(SetEvents(set)) : SetEvents(set)[i].event = "text"})
    PROVE  urls # <<>> /\ urls[1].url = set.reps[1].file.url
<1> DEFINE events == SetEvents(set)
           t == TemplateOf(set)
           rep == set.reps[1]
           x == RepEvents(rep)
           T == {i \in 1..Len(events) : events[i].event = "text"}
           c == IndexOf(rep)
           u == << Start("BaseURL", NoAttributes) >>
           f == << Text(rep.file.url) >>
           e == << End("BaseURL") >>
           o == Len(t)
           m == 1 + o + 3
<1>1. IsList(events) /\ IsList(t) /\ o \in Nat
    BY SetIsBlock, ContentNames DEF Named, IsList
<1>2. Still(t)
  <2>1. Only(t, TemplateElements)
      BY TemplateForm DEF HasLists
  <2> QED BY <2>1, StillOnly
<1>3. SetBegins(set)
    BY SetTakenApart
<1>4. Len(x) = Len(c) + 2 /\ Len(c) \in Nat /\ x[1] = RepStart(rep) /\ \A i \in 1..Len(c) : x[i + 1] = c[i]
  <2>1. IsList(c)
      BY RepIsBlock
  <2> HIDE DEF c, rep
  <2> QED BY <2>1, ElementItems DEF ElementAt, RepEvents, RepStart, x, c
<1>5. Len(c) >= 2 /\ c[1] = Start("BaseURL", NoAttributes) /\ c[2] = Text(rep.file.url)
  <2> DEFINE b == BaseUrl(rep.file)
             d == BaseEvents(rep)
  <2>1. b = Element("BaseURL", NoAttributes, f)
      BY DEF BaseUrl
  <2>2. IsList(f) /\ Len(f) = 1 /\ f[1] = Text(rep.file.url)
      BY ShortLists, Zenon
  <2>3. IsList(d) /\ IsList(b)
      BY BaseNames, FileNames DEF Named
  <2>4. c = Joined(b, d)
      BY IndexForm
  <2> HIDE DEF b, d, f, c, rep
  <2>5. Len(b) = 3 /\ b[1] = Start("BaseURL", NoAttributes) /\ b[2] = f[1]
    <3>1. ElementAt(b, "BaseURL", NoAttributes, f)
        BY <2>1, <2>2, ElementItems
    <3> QED BY <2>2, <3>1 DEF ElementAt
  <2>6. IsJoin(c, b, d)
      BY <2>3, <2>4, JoinedIsList
  <2>7. Len(d) \in Nat
      BY <2>3 DEF IsList
  <2> QED BY <2>2, <2>5, <2>6, <2>7 DEF IsJoin
<1> HIDE DEF events, t, x, c, rep, o
<1>6. /\ x[1] = RepStart(rep) /\ x[2] = Start("BaseURL", NoAttributes) /\ x[3] = Text(rep.file.url) /\ Len(x) >= 4
  <2>1. x[1 + 1] = c[1] /\ x[2 + 1] = c[2]
      BY <1>4, <1>5
  <2> QED BY <1>4, <1>5, <2>1
<1>7. /\ events[1] = SetStart(set) /\ \A i \in 1..o : events[1 + i] = t[i]
      /\ 1 + o + Len(x) <= Len(events) /\ \A j \in 1..Len(x) : events[1 + o + j] = x[j]
    BY <1>3 DEF SetBegins, events, t, x, rep, o
<1>8. m \in 1..Len(events) /\ events[m] = Text(rep.file.url) /\ Len(events) \in Nat
  <2>1. Len(events) \in Nat
      BY <1>1 DEF IsList
  <2> QED BY <1>1, <1>4, <1>6, <1>7, <2>1
<1>9. ASSUME NEW i \in 1..m - 1 PROVE events[i].event # "text"
  <2>1. CASE i = 1
      BY <1>7, <2>1 DEF SetStart, Start
  <2>2. CASE i \in 2..1 + o
    <3>1. i - 1 \in 1..o /\ 1 + (i - 1) = i
        BY <1>1, <2>2
    <3> QED BY <1>2, <1>7, <3>1 DEF Still, o
  <2>3. CASE i = 1 + o + 1
      BY <1>6, <1>7, <2>3 DEF RepStart, Start
  <2>4. CASE i = 1 + o + 2
      BY <1>6, <1>7, <2>4 DEF Start
  <2> QED BY <1>1, <2>1, <2>2, <2>3, <2>4
<1>10. m \in T /\ \A i \in 1..m - 1 : i \notin T
    BY <1>8, <1>9 DEF Text
<1>11. events \in Seq(Range(events))
    BY <1>1 DEF IsList
<1> HIDE DEF T, m
<1>12. Chosen(events, T) # <<>> /\ Chosen(events, T)[1] = events[m]
    BY <1>8, <1>10, <1>11, ChosenFirst
<1>13. urls = Chosen(events, T)
    BY DEF events, T
<1> QED BY <1>8, <1>12, <1>13 DEF Text, rep

\* The file of plain WebVTT, or a manifest.
LEMMA TextTracksAre ==
    ASSUME NEW start, NEW base, NEW set,
           NEW urls, urls = Chosen(set, {i \in 1..Len(set) : set[i].event = "text"})
    PROVE  /\ ~IsRawText(set) => TextTracks(start, base, set) =
                  << [raw |-> FALSE, document |-> SyntheticMpd(start, base, ResolveBaseUrls(set, base))] >>
           /\ IsRawText(set) /\ urls # <<>> =>
                  TextTracks(start, base, set) = << [raw |-> TRUE, url |-> Absolute(base, urls[1].url)] >>
<1> DEFINE raw == IsRawText(set)
           whole == << [raw |-> FALSE, document |-> SyntheticMpd(start, base, ResolveBaseUrls(set, base))] >>
           plain == << [raw |-> TRUE, url |-> Absolute(base, urls[1].url)] >>
<1>1. TextTracks(start, base, set) = CASE ~raw -> whole
                                       [] raw /\ urls # <<>> -> plain
                                       [] OTHER -> <<>>
    BY Zenon DEF TextTracks
<1> HIDE DEF raw, whole, plain
<1>2. (~raw => TextTracks(start, base, set) = whole) /\ (raw /\ urls # <<>> => TextTracks(start, base, set) = plain)
    BY <1>1
<1> QED BY <1>2 DEF raw, whole, plain

\* A text set gives one track, which leads to its text.
LEMMA TextTrackFound ==
    ASSUME NEW mpd, IsSeparable(mpd), NEW set, \E s \in 1..Len(mpd.sets) : set = mpd.sets[s], HasType(set, "text")
    PROVE  \E track : /\ TextTracks(Start("MPD", MpdStart(mpd)), TextBase(mpd.url), SetEvents(set)) = << track >>
                      /\ IsTextTrack(track, mpd, set)
<1> DEFINE base == TextBase(mpd.url)
           start == Start("MPD", MpdStart(mpd))
           events == SetEvents(set)
           file == set.reps[1].file
           urls == Chosen(events, {i \in 1..Len(events) : events[i].event = "text"})
           whole == [raw |-> FALSE, document |-> SyntheticMpd(start, base, ResolveBaseUrls(events, base))]
           plain == [raw |-> TRUE, url |-> Absolute(base, urls[1].url)]
<1>1. IsSet(set) /\ IsTold(set) /\ HasLists(set) /\ IsToldApart(mpd.url, set)
    BY SeparableSets
<1>2. IsRawText(events) <=> IsRaw(set)
    BY <1>1 DEF IsTold
<1>3. set.type = "text" /\ set.mime # "audio/webm"
    BY <1>1 DEF HasType, IsToldApart
<1>4. /\ ~IsRawText(events) => TextTracks(start, base, events) = <<whole>>
      /\ IsRawText(events) /\ urls # <<>> => TextTracks(start, base, events) = <<plain>>
    BY TextTracksAre, Zenon
<1>5. CASE ~IsRaw(set)
  <2>1. IsWhole(set, set.reps[1])
      BY <1>1, <1>3, <1>5 DEF IsToldApart
  <2>2. LeadsTo(TrackOfSet(mpd, base, set), mpd, set, set.reps[1])
      BY <2>1, SetLeads
  <2>3. whole.raw = FALSE /\ whole.document = TrackOfSet(mpd, base, set)
      BY DEF TrackOfSet
  <2> HIDE DEF whole
  <2>4. IsTextTrack(whole, mpd, set)
      BY <2>2, <2>3 DEF IsTextTrack
  <2> QED BY <1>2, <1>4, <1>5, <2>4
<1>6. CASE IsRaw(set)
  <2>1. file.present
      BY <1>1, <1>3, <1>6 DEF IsToldApart
  <2>2. set.reps # <<>> /\ 1 \in 1..Len(set.reps)
      BY <1>1 DEF IsSet, IsList
  <2>3. IsMovable(mpd.url, file.url)
    <3>1. set.reps[1].file.present => IsMovable(mpd.url, set.reps[1].file.url)
        BY <2>2, RepToldApart, Zenon
    <3> QED BY <2>1, <3>1
  <2>4. urls # <<>> /\ urls[1].url = file.url
      BY <1>1, <2>1, <2>2, FirstText
  <2>5. plain.raw = TRUE /\ plain.url = Absolute(base, file.url)
      BY <2>4
  <2>6. SameFile(mpd.url, Absolute(base, file.url), mpd.url, file.url)
      BY <2>3, OfPath, MovedResolves
  <2> HIDE DEF plain, file, base
  <2>7. Join(mpd.url, plain.url).url = Join(mpd.url, file.url).url
      BY <2>5, <2>6 DEF SameFile
  <2>8. IsTextTrack(plain, mpd, set)
      BY <2>5, <2>7 DEF IsTextTrack, file
  <2> QED BY <1>2, <1>4, <1>6, <2>4, <2>8 DEF base
<1> QED BY <1>5, <1>6

\* The text tracks are those of the text sets, in order.
LEMMA TextsFound ==
    ASSUME NEW mpd, IsSeparable(mpd), NEW texts, SetsOfType(mpd, texts, "text"),
           NEW list, list = SetsEvents(texts), NEW tracks,
           tracks = FlattenSeq([s \in 1..Len(list) |->
                        TextTracks(Start("MPD", MpdStart(mpd)), TextBase(mpd.url), list[s])])
    PROVE  Len(tracks) = Len(texts) /\ \A t \in 1..Len(texts) : IsTextTrack(tracks[t], mpd, texts[t])
<1> DEFINE n == Len(texts)
           made(set) == TextTracks(Start("MPD", MpdStart(mpd)), TextBase(mpd.url), SetEvents(set))
           Is(set, track) == made(set) = << track >> /\ IsTextTrack(track, mpd, set)
           found == [s \in 1..n |-> CHOOSE track : Is(texts[s], track)]
<1>1. n \in Nat /\ Len(list) = n /\ \A s \in 1..n : list[s] = SetEvents(texts[s])
    BY DEF SetsEvents, SetsOfType
<1>2. ASSUME NEW s \in 1..n PROVE Is(texts[s], found[s])
  <2>1. (\E k \in 1..Len(mpd.sets) : texts[s] = mpd.sets[k]) /\ HasType(texts[s], "text")
      BY DEF SetsOfType
  <2>2. \E track : Is(texts[s], track)
      BY <2>1, TextTrackFound
  <2> HIDE DEF Is
  <2> QED BY <2>2
<1>3. IsList(found) /\ Len(found) = n
  <2>1. found = [s \in 1..n |-> found[s]]
      OBVIOUS
  <2> HIDE DEF found
  <2> QED BY <1>1, <2>1, FunctionIsList
<1> HIDE DEF found
<1>4. tracks = FlattenSeq([s \in 1..Len(found) |-> << found[s] >>])
  <2> DEFINE all == [s \in 1..Len(list) |->
                        TextTracks(Start("MPD", MpdStart(mpd)), TextBase(mpd.url), list[s])]
  <2>1. all = [s \in 1..n |-> made(texts[s])]
      BY <1>1
  <2>2. \A s \in 1..n : made(texts[s]) = << found[s] >>
      BY <1>2
  <2>3. tracks = FlattenSeq(all)
      OBVIOUS
  <2> HIDE DEF all, made
  <2>4. all = [s \in 1..n |-> << found[s] >>]
      BY <2>1, <2>2
  <2> QED BY <1>3, <2>3, <2>4
<1>5. FlattenSeq([s \in 1..Len(found) |-> << found[s] >>]) = found
  <2>1. found \in Seq(Range(found))
      BY <1>3 DEF IsList
  <2> QED BY <2>1, FlattenOfSingles
<1> QED BY <1>2, <1>3, <1>4, <1>5

\* An MPD taken apart.
LEMMA MpdResolved ==
    ASSUME NEW mpd, IsSeparable(mpd), ~mpd.base.present,
           NEW tracks, tracks = ResolveDashTracks(MpdEvents(mpd), mpd.url)
    PROVE  HasMpdTracks(tracks, mpd)
<1> DEFINE events == MpdEvents(mpd)
           base == TextBase(mpd.url)
           start == Start("MPD", MpdStart(mpd))
           l == AdaptationSets(events)
           video == Chosen(l, {s \in 1..Len(l) : IsVideoSet(l[s])})
           audio == Chosen(l, {s \in 1..Len(l) : IsAudioSet(l[s])})
           text == Chosen(l, {s \in 1..Len(l) : IsTextSet(l[s])})
           variants == FlattenSeq([s \in 1..Len(video) |-> VideoVariants(events[1], base, video[s])])
           texts == FlattenSeq([s \in 1..Len(text) |-> TextTracks(events[1], base, text[s])])
           voices == SetsOf(mpd, "audio")
           words == SetsOf(mpd, "text")
           reps == VideoReps(mpd)
<1>1. l = SetsEvents(mpd.sets) /\ events[1] = start
    BY SeparableSets, MpdTakenApart
<1>2. /\ video = SetsEvents(Videos(mpd)) /\ audio = SetsEvents(voices) /\ text = SetsEvents(words)
      /\ SetsOfType(mpd, Videos(mpd), "video") /\ SetsOfType(mpd, voices, "audio") /\ SetsOfType(mpd, words, "text")
    BY <1>1, SetsFound
<1>3. /\ tracks.variants = variants /\ tracks.primary = Primary(variants) /\ tracks.texts = texts
      /\ tracks.audio = IF audio = <<>> THEN <<>>
                        ELSE << SyntheticMpd(events[1], base, ResolveBaseUrls(audio[1], base)) >>
    BY DEF ResolveDashTracks
<1> HIDE DEF l, video, audio, text, events
<1>4. HasVariants(tracks, mpd, reps)
  <2> DEFINE g == VariantsOf(mpd, base, PiecesOf(Videos(mpd)))
             videos == Videos(mpd)
  <2>1. variants = FlattenSeq([s \in 1..Len(video) |-> VideoVariants(start, base, video[s])])
      BY <1>1
  <2> HIDE DEF variants, start, base, videos
  <2>2. variants = Mapped(g, reps) /\ reps \in Seq(PiecesOf(Videos(mpd)))
      BY <1>2, <2>1, VariantsFound DEF start, videos
  <2>3. g = VariantsOf(mpd, TextBase(mpd.url), PiecesOf(Videos(mpd)))
      BY DEF base
  <2> HIDE DEF g, reps
  <2>4. tracks.variants = Mapped(g, reps) /\ tracks.primary = Primary(tracks.variants)
      BY <1>3, <2>2
  <2> QED BY <1>2, <2>2, <2>3, <2>4, VariantsLead
<1>5. Len(tracks.texts) = Len(words) /\ \A t \in 1..Len(words) : IsTextTrack(tracks.texts[t], mpd, words[t])
  <2>1. texts = FlattenSeq([s \in 1..Len(text) |-> TextTracks(start, base, text[s])])
      BY <1>1
  <2> HIDE DEF texts, words
  <2> QED BY <1>2, <1>3, <2>1, TextsFound
<1>6. IF voices = <<>> THEN tracks.audio = <<>>
      ELSE LeadsTo(tracks.audio[1], mpd, voices[1], voices[1].reps[1])
  <2>1. Len(audio) = Len(voices) /\ Len(voices) \in Nat /\ IsList(voices)
      BY <1>2 DEF SetsEvents, SetsOfType
  <2>2. CASE voices = <<>>
    <3>1. audio = <<>>
        BY <1>2, <2>2 DEF SetsEvents
    <3> QED BY <1>3, <2>2, <3>1
  <2>3. CASE voices # <<>>
    <3>1. 1 \in 1..Len(voices)
        BY <2>1, <2>3 DEF IsList
    <3>2. audio # <<>> /\ audio[1] = SetEvents(voices[1])
        BY <1>2, <2>1, <3>1 DEF SetsEvents
    <3>3. (\E s \in 1..Len(mpd.sets) : voices[1] = mpd.sets[s]) /\ HasType(voices[1], "audio")
        BY <1>2, <3>1 DEF SetsOfType
    <3> DEFINE set == voices[1]
    <3>4. IsToldApart(mpd.url, set)
        BY <3>3, SeparableSets
    <3>5. IsWhole(set, set.reps[1])
      <4>1. set.type = "audio" /\ set.mime # "audio/webm"
          BY <3>3 DEF HasType
      <4>2. ~IsRaw(set)
          BY <3>4, <4>1 DEF IsToldApart, IsRaw
      <4> QED BY <3>4, <4>1, <4>2 DEF IsToldApart
    <3>6. LeadsTo(TrackOfSet(mpd, base, set), mpd, set, set.reps[1])
        BY <3>3, <3>5, SetLeads
    <3>7. tracks.audio[1] = TrackOfSet(mpd, base, set)
        BY <1>1, <1>3, <3>2 DEF TrackOfSet
    <3> QED BY <2>3, <3>6, <3>7
  <2> QED BY <2>2, <2>3
<1> QED BY <1>4, <1>5, <1>6 DEF HasMpdTracks, HasVariants

-----------------------------------------------------------------------------
(* What the sandbox takes apart *)

\* The tracks are those of one of the MPDs or master playlists.
TracksInv ==
    /\ read.origin = "tracks" =>
        /\ read.document \in Mpds
        /\ read.tracks = ResolveDashTracks(MpdEvents(read.document), read.document.url)
    /\ read.origin = "master" =>
        /\ read.document \in Masters
        /\ read.tracks = ResolveMasterPlaylist(read.document.lines, read.document.url)

\* No step but ResolveTracks takes a source apart.
LEMMA TracksTurn == ASSUME TracksInv, [ReaderNext]_readerVars PROVE TracksInv'
<1>1. CASE OutputStep \/ DoneReading
    BY <1>1 DEF OutputStep, DoneReading, Unread, TracksInv
<1>2. CASE FetchOutput
  <2>1. read'.origin \in {"hls", "dash"}
      BY <1>2 DEF FetchOutput
  <2> QED BY <2>1 DEF TracksInv
<1>3. CASE FetchOther
  <2>1. \/ \E p \in Playlists : read' = [origin |-> "playlist", document |-> p,
                                         source |-> ParseHlsManifest(p.lines, p.url, p.per)]
        \/ \E d \in Mpds : read' = [origin |-> "mpd", document |-> d, source |-> ReadMpd(d)]
      BY <1>3 DEF FetchOther
  <2>2. read'.origin \in {"playlist", "mpd"}
      BY <2>1
  <2> QED BY <2>2 DEF TracksInv
<1>4. CASE ResolveTracks
  <2>1. \/ \E d \in Mpds : read' = [origin |-> "tracks", document |-> d,
                                    tracks |-> ResolveDashTracks(MpdEvents(d), d.url)]
        \/ \E p \in Masters : read' = [origin |-> "master", document |-> p,
                                       tracks |-> ResolveMasterPlaylist(p.lines, p.url)]
      BY <1>4 DEF ResolveTracks
  <2> QED BY <2>1 DEF TracksInv
<1>5. CASE CombineTracks
  <2>1. read'.origin = "combined"
      BY <1>5 DEF CombineTracks
  <2> QED BY <2>1 DEF TracksInv
<1>6. CASE UNCHANGED readerVars
    BY <1>6 DEF readerVars, TracksInv
<1> QED BY <1>1, <1>2, <1>3, <1>4, <1>5, <1>6 DEF ReaderNext, Read

LEMMA TracksStayTaken == ReaderSpec => []TracksInv
<1>1. ReaderInit => TracksInv
    BY DEF ReaderInit, Unread, TracksInv
<1>2. TracksInv /\ [ReaderNext]_readerVars => TracksInv'
    BY TracksTurn
<1> QED BY <1>1, <1>2, PTL DEF ReaderSpec

\* What the sandbox makes of a source of another origin leads to the tracks of that source.
THEOREM TracksAlwaysResolve ==
    ASSUME ReadableMasters, SeparableMpds
    PROVE  ReaderSpec => []TracksResolve
<1>1. TracksInv => TracksResolve
  <2> SUFFICES ASSUME TracksInv PROVE TracksResolve
      OBVIOUS
  <2>1. ASSUME read.origin = "tracks", ~read.document.base.present
        PROVE  HasMpdTracks(read.tracks, read.document)
    <3>1. IsSeparable(read.document)
        BY <2>1 DEF TracksInv, SeparableMpds
    <3> QED BY <2>1, <3>1, MpdResolved DEF TracksInv
  <2>2. ASSUME read.origin = "master" PROVE HasMasterTracks(read.tracks, read.document)
    <3>1. IsSelectable(read.document)
        BY <2>2 DEF TracksInv, ReadableMasters
    <3> QED BY <2>2, <3>1, MasterResolved DEF TracksInv
  <2> QED BY <2>1, <2>2 DEF TracksResolve
<1> QED BY <1>1, TracksStayTaken, PTL

=============================================================================
