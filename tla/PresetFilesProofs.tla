-------------------------- MODULE PresetFilesProofs --------------------------
(***************************************************************************)
(* Exporting a preset over an earlier bundle, for any disk, presets,       *)
(* destinations, edits and exports, with writes that fail and a process    *)
(* that ends between any two of them: at every moment one whole bundle is  *)
(* on the disk, what was there before or the new one (IInv).  Loading a    *)
(* preset, for any disk: nothing of the preset before is left, and the     *)
(* editor's import previews what load_preset previews.  And what an import *)
(* says of the textures its passes refer to is so (RInv).                  *)
(***************************************************************************)
EXTENDS PresetFiles, SequenceTheorems, NaturalsInduction, WellFoundedInduction, TLAPS

-----------------------------------------------------------------------------
(* Paths. *)

IsSeq(s) == s \in Seq(ToSet(s))

LEMMA SequencesAreSeq ==
  ASSUME NEW S, NEW s \in Seq(S)
  PROVE  IsSeq(s)
<1>1. s \in [1..Len(s) -> S] /\ Len(s) \in Nat
  OBVIOUS
<1>2. \A i \in 1..Len(s) : s[i] \in ToSet(s)
  BY <1>1 DEF ToSet
<1>3. s \in [1..Len(s) -> ToSet(s)]
  BY <1>1, <1>2
<1> QED BY <1>1, <1>3 DEF IsSeq

LEMMA ListsAreSeq ==
  ASSUME NEW s, IsList(s)
  PROVE  IsSeq(s)
<1>1. Len(s) \in Nat /\ s = [k \in 1..Len(s) |-> s[k]]
  BY DEF IsList
<1> DEFINE n == Len(s)
<1>2. n \in Nat /\ s = [k \in 1..n |-> s[k]]
  BY <1>1
<1> HIDE DEF n
<1>3. DOMAIN s = 1..n
  BY <1>2
<1>4. \A k \in 1..n : s[k] \in ToSet(s)
  BY <1>3 DEF ToSet
<1>5. s \in [1..n -> ToSet(s)]
  BY <1>2, <1>4
<1> QED BY <1>2, <1>5 DEF IsSeq

LEMMA DestsAreSeq == \A d \in Dests : IsSeq(d) /\ d # <<>> /\ d[1] # "tmp-bundle"
BY DestsAssumption, ListsAreSeq

LEMMA DisksAreSeq ==
  ASSUME NEW d \in Disks
  PROVE  /\ \A path \in DOMAIN d : IsSeq(path)
         /\ \A path \in Presets \cap DOMAIN d :
               IsSeq(d[path].lines) /\ \A line \in ToSet(d[path].lines) : IsSeq(line.value) /\ line.value # <<>>
<1>1. \A path \in DOMAIN d : IsSeq(path)
  BY DisksAssumption, ListsAreSeq
<1>2. ASSUME NEW path \in Presets \cap DOMAIN d
      PROVE  IsSeq(d[path].lines) /\ \A line \in ToSet(d[path].lines) : IsSeq(line.value) /\ line.value # <<>>
  <2>1. /\ IsList(d[path].lines)
        /\ \A k \in DOMAIN d[path].lines : IsList(d[path].lines[k].value) /\ d[path].lines[k].value # <<>>
    BY DisksAssumption
  <2>2. \A line \in ToSet(d[path].lines) : IsSeq(line.value) /\ line.value # <<>>
    BY <2>1, ListsAreSeq DEF ToSet
  <2> QED BY <2>1, <2>2, ListsAreSeq
<1> QED BY <1>1, <1>2

\* A path under a directory starts with the directory and goes on with the path in it.
LEMMA PathInDirectory ==
  ASSUME NEW d, IsSeq(d), NEW t, IsSeq(t)
  PROVE  /\ IsSeq(d \o t) /\ IsPrefix(d, d \o t) /\ Len(d \o t) = Len(d) + Len(t)
         /\ \A i \in 1..Len(d) : (d \o t)[i] = d[i]
<1> DEFINE S == ToSet(d) \cup ToSet(t)
<1>1. d \in Seq(S) /\ t \in Seq(S)
  BY DEF IsSeq
<1> HIDE DEF S
<1>2. d \o t \in Seq(S) /\ Len(d \o t) = Len(d) + Len(t)
  BY <1>1
<1>3. \A i \in 1..Len(d) : (d \o t)[i] = d[i]
  BY <1>1
<1>4. SubSeq(d, 1, Len(d)) = SubSeq(d \o t, 1, Len(d))
  BY <1>1, <1>2, <1>3
<1>5. Len(d) <= Len(d \o t)
  BY <1>1, <1>2
<1>6. IsPrefix(d, d \o t)
  BY <1>4, <1>5 DEF IsPrefix
<1>7. IsSeq(d \o t)
  BY <1>2, SequencesAreSeq
<1> QED BY <1>2, <1>3, <1>6, <1>7

LEMMA DirectoryOfPath ==
  ASSUME NEW d, IsSeq(d), NEW q, IsSeq(q), IsPrefix(d, q)
  PROVE  /\ d \o SubSeq(q, Len(d) + 1, Len(q)) = q
         /\ \A i \in 1..Len(d) : q[i] = d[i]
         /\ Len(d) <= Len(q)
<1> DEFINE S == ToSet(d) \cup ToSet(q)
<1>1. d \in Seq(S) /\ q \in Seq(S)
  BY DEF IsSeq
<1> HIDE DEF S
<1>2. Len(d) <= Len(q) /\ SubSeq(d, 1, Len(d)) = SubSeq(q, 1, Len(d))
  BY DEF IsPrefix
<1>3. \A i \in 1..Len(d) : q[i] = d[i]
  <2> TAKE i \in 1..Len(d)
  <2>1. SubSeq(d, 1, Len(d))[i] = d[i] /\ SubSeq(q, 1, Len(d))[i] = q[i]
    BY <1>1, <1>2
  <2> QED BY <1>2, <2>1
<1>4. d \o SubSeq(q, Len(d) + 1, Len(q)) = q
  <2> DEFINE r == SubSeq(q, Len(d) + 1, Len(q))
  <2>1. r \in Seq(S) /\ Len(r) = Len(q) - Len(d) /\ \A i \in 1..Len(r) : r[i] = q[Len(d) + i]
    BY <1>1, <1>2
  <2> HIDE DEF r
  <2>2. d \o r \in Seq(S) /\ Len(d \o r) = Len(q)
    BY <1>1, <1>2, <2>1
  <2>3. ASSUME NEW i \in 1..Len(q) PROVE (d \o r)[i] = q[i]
    <3>1. CASE i <= Len(d)
      <4>1. i \in 1..Len(d)
        BY <1>1, <3>1
      <4>2. IsSeq(r)
        BY <2>1, SequencesAreSeq
      <4>3. \A j \in 1..Len(d) : (d \o r)[j] = d[j]
        BY <4>2, PathInDirectory
      <4> QED BY <1>3, <4>1, <4>3
    <3>2. CASE i > Len(d)
      <4>1. i - Len(d) \in 1..Len(r) /\ Len(d) + (i - Len(d)) = i
        BY <1>1, <2>1, <3>2
      <4>2. (d \o r)[i] = r[i - Len(d)]
        BY <1>1, <2>1, <3>2, <4>1
      <4> QED BY <2>1, <4>1, <4>2
    <3>3. i \in Int /\ Len(d) \in Int
      BY <1>1
    <3>4. i <= Len(d) \/ i > Len(d)
      BY <3>3
    <3> QED BY <3>1, <3>2, <3>4, Zenon
  <2> QED BY <1>1, <2>2, <2>3, SeqEqual DEF r
<1> QED BY <1>2, <1>3, <1>4

\* What is under the destination is not under the directory the bundle is built in.
LEMMA StagingIsApart ==
  ASSUME NEW d \in Dests
  PROVE  /\ IsSeq(d) /\ IsSeq(StagingDirFor(d)) /\ StagingDirFor(d) = <<"tmp-bundle">> \o d
         /\ Len(StagingDirFor(d)) = Len(d) + 1
         /\ \A q : ~(IsSeq(q) /\ IsPrefix(StagingDirFor(d), q) /\ IsPrefix(d, q))
<1>1. IsSeq(d) /\ d # <<>> /\ d[1] # "tmp-bundle"
  BY DestsAreSeq
<1>2. <<"tmp-bundle">> \in Seq({"tmp-bundle"}) /\ Len(<<"tmp-bundle">>) = 1 /\ <<"tmp-bundle">>[1] = "tmp-bundle"
  OBVIOUS
<1>3. IsSeq(<<"tmp-bundle">>)
  BY <1>2, SequencesAreSeq
<1>4. Len(d) \in Nat /\ Len(d) >= 1
  BY <1>1 DEF IsSeq
<1> DEFINE staging == <<"tmp-bundle">> \o d
<1>5. /\ IsSeq(staging) /\ Len(staging) = 1 + Len(d)
      /\ \A i \in 1..Len(<<"tmp-bundle">>) : staging[i] = <<"tmp-bundle">>[i]
  BY <1>1, <1>3, <1>2, PathInDirectory
<1>6. staging[1] = "tmp-bundle"
  BY <1>2, <1>5
<1> HIDE DEF staging
<1>7. ASSUME NEW q, IsSeq(q), IsPrefix(staging, q), IsPrefix(d, q) PROVE FALSE
  <2>1. q[1] = staging[1]
    BY <1>4, <1>5, <1>7, DirectoryOfPath
  <2>2. q[1] = d[1]
    BY <1>1, <1>4, <1>7, DirectoryOfPath
  <2> QED BY <1>1, <1>6, <2>1, <2>2
<1>8. StagingDirFor(d) = staging
  BY DEF StagingDirFor, staging
<1> QED BY <1>1, <1>4, <1>5, <1>7, <1>8 DEF staging

-----------------------------------------------------------------------------
(* Directories. *)

\* Under and FilesUnder of a disk that is given.
UnderOf(files, dir) == {p \in DOMAIN files : IsPrefix(dir, p)}
FilesOf(files, dir) == [p \in {SubSeq(q, Len(dir) + 1, Len(q)) : q \in UnderOf(files, dir)} |-> files[dir \o p]]

PathsOK(files) == \A q \in DOMAIN files : IsSeq(q)

\* A directory is what its files are.
LEMMA SameDirectory ==
  ASSUME NEW old, NEW new, NEW d, IsSeq(d), PathsOK(old),
         UnderOf(new, d) = UnderOf(old, d), \A q \in UnderOf(old, d) : new[q] = old[q]
  PROVE  FilesOf(new, d) = FilesOf(old, d)
<1> DEFINE names == {SubSeq(q, Len(d) + 1, Len(q)) : q \in UnderOf(old, d)}
<1>1. ASSUME NEW p \in names PROVE new[d \o p] = old[d \o p]
  <2>1. PICK q \in UnderOf(old, d) : p = SubSeq(q, Len(d) + 1, Len(q))
    OBVIOUS
  <2>2. IsSeq(q) /\ IsPrefix(d, q)
    BY DEF PathsOK, UnderOf
  <2>3. d \o p = q
    BY <2>1, <2>2, DirectoryOfPath
  <2> QED BY <2>3
<1> QED BY <1>1 DEF FilesOf

-----------------------------------------------------------------------------
(* Bundles. *)

ProjectOK(p) == {"passes", "luts"} \subseteq DOMAIN p /\ IsSeq(p.passes) /\ IsSeq(p.luts)

\* The files an export writes for a project, whatever it copies.
FileNames(p) == {<<PassFileNames(p)[k], ".slang">> : k \in DOMAIN p.passes} \cup {<<"preset", ".slangp">>}

Inside(q, d) == IsSeq(q) /\ IsPrefix(d, q)

LEMMA TuplesAreSeq ==
  ASSUME NEW a, NEW b
  PROVE  IsSeq(<<a, b>>) /\ \A c : IsSeq(<<a, b, c>>)
<1>1. <<a, b>> \in Seq({a, b})
  OBVIOUS
<1>2. ASSUME NEW c PROVE IsSeq(<<a, b, c>>)
  <2>1. <<a, b, c>> \in Seq({a, b, c})
    OBVIOUS
  <2> QED BY <2>1, SequencesAreSeq
<1> QED BY <1>1, <1>2, SequencesAreSeq

LEMMA ElementsOfBoth ==
  ASSUME NEW S, NEW s \in Seq(S), NEW t \in Seq(S)
  PROVE  ToSet(s \o t) = ToSet(s) \cup ToSet(t)
<1>1. Range(s \o t) = Range(s) \cup Range(t)
  BY RangeConcatenation
<1>2. \A x : ToSet(x) = Range(x)
  BY Zenon DEF ToSet, Range
<1> QED BY <1>1, <1>2, Zenon

\* An export writes the files of the project, and copies, all into its directory.
LEMMA BundleOfProject ==
  ASSUME NEW p, ProjectOK(p), NEW dir, IsSeq(dir), NEW unknown
  PROVE  LET bundle == WriteBundle(p, dir, unknown)
         IN  /\ IsSeq(bundle)
             /\ \A job \in ToSet(bundle) : job.op \in {"write", "copy"} /\ Inside(job.path, dir)
             /\ {job.path : job \in {j \in ToSet(bundle) : j.op = "write"}} = {dir \o n : n \in FileNames(p)}
<1> DEFINE bundle == WriteBundle(p, dir, unknown)
           passFiles == PassFileNames(p)
           textureFiles == TextureFileNames(p.luts)
           A == [k \in DOMAIN p.passes |-> Write(dir \o <<passFiles[k], ".slang">>, p.passes[k].source)]
           B == [k \in DOMAIN p.luts |->
                   Copy(dir \o <<"textures", textureFiles[k], Extension(p.luts[k])>>, p.luts[k].path)]
           c == Write(dir \o <<"preset", ".slangp">>, RenderSlangp(p, passFiles, textureFiles, unknown))
           S == ToSet(A) \cup ToSet(B) \cup {c}
<1>1. bundle = A \o B \o <<c>>
  BY DEF WriteBundle, Through
<1>2. A \in Seq(S)
  <2>1. DOMAIN p.passes = 1..Len(p.passes) /\ Len(p.passes) \in Nat
    BY DEF ProjectOK, IsSeq
  <2>2. \A k \in DOMAIN p.passes : A[k] \in S
    BY DEF ToSet
  <2>3. A \in [1..Len(p.passes) -> S]
    <3> HIDE DEF S
    <3> QED BY <2>1, <2>2, Zenon
  <2> HIDE DEF A, S
  <2> QED BY <2>1, <2>3
<1>3. B \in Seq(S)
  <2>1. DOMAIN p.luts = 1..Len(p.luts) /\ Len(p.luts) \in Nat
    BY DEF ProjectOK, IsSeq
  <2>2. \A k \in DOMAIN p.luts : B[k] \in S
    BY DEF ToSet
  <2>3. B \in [1..Len(p.luts) -> S]
    <3> HIDE DEF S
    <3> QED BY <2>1, <2>2, Zenon
  <2> HIDE DEF B, S
  <2> QED BY <2>1, <2>3
<1>4. c \in S
  OBVIOUS
<1>5. ASSUME NEW x \in ToSet(A)
      PROVE  x.op = "write" /\ Inside(x.path, dir) /\ x.path \in {dir \o n : n \in FileNames(p)}
  <2>1. PICK k \in DOMAIN p.passes : x = Write(dir \o <<passFiles[k], ".slang">>, p.passes[k].source)
    BY DEF ToSet
  <2>2. x.op = "write" /\ x.path = dir \o <<passFiles[k], ".slang">>
    BY <2>1 DEF Write
  <2>3. <<passFiles[k], ".slang">> \in FileNames(p)
    BY DEF FileNames
  <2>4. IsSeq(<<passFiles[k], ".slang">>)
    BY TuplesAreSeq
  <2>5. Inside(dir \o <<passFiles[k], ".slang">>, dir)
    BY <2>4, PathInDirectory DEF Inside
  <2> QED BY <2>2, <2>3, <2>5
<1>6. ASSUME NEW x \in ToSet(B) PROVE x.op = "copy" /\ Inside(x.path, dir)
  <2>1. PICK k \in DOMAIN p.luts :
          x = Copy(dir \o <<"textures", textureFiles[k], Extension(p.luts[k])>>, p.luts[k].path)
    BY DEF ToSet
  <2>2. x.op = "copy" /\ x.path = dir \o <<"textures", textureFiles[k], Extension(p.luts[k])>>
    BY <2>1 DEF Copy
  <2>3. IsSeq(<<"textures", textureFiles[k], Extension(p.luts[k])>>)
    BY TuplesAreSeq
  <2>4. Inside(dir \o <<"textures", textureFiles[k], Extension(p.luts[k])>>, dir)
    BY <2>3, PathInDirectory DEF Inside
  <2> QED BY <2>2, <2>4
<1>7. /\ c.op = "write" /\ c.path = dir \o <<"preset", ".slangp">> /\ Inside(c.path, dir)
      /\ <<"preset", ".slangp">> \in FileNames(p)
  <2>1. c.op = "write" /\ c.path = dir \o <<"preset", ".slangp">>
    BY DEF Write
  <2> QED BY <2>1, TuplesAreSeq, PathInDirectory DEF Inside, FileNames
<1>8. ASSUME NEW n \in FileNames(p) PROVE \E x \in ToSet(A) \cup {c} : x.op = "write" /\ x.path = dir \o n
  <2>1. CASE n = <<"preset", ".slangp">>
    BY <1>7, <2>1
  <2>2. CASE \E k \in DOMAIN p.passes : n = <<passFiles[k], ".slang">>
    <3>1. PICK k \in DOMAIN p.passes : n = <<passFiles[k], ".slang">>
      BY <2>2
    <3>2. A[k] \in ToSet(A) /\ A[k] = Write(dir \o n, p.passes[k].source)
      BY <3>1 DEF ToSet
    <3>3. A[k].op = "write" /\ A[k].path = dir \o n
      BY <3>2 DEF Write
    <3> QED BY <3>2, <3>3
  <2> QED BY <2>1, <2>2 DEF FileNames
<1> HIDE DEF A, B, c
<1>9. S = ToSet(A \o B \o <<c>>) /\ A \o B \o <<c>> \in Seq(S)
  <2> HIDE DEF S
  <2>1. <<c>> \in Seq(S) /\ ToSet(<<c>>) = {c}
    BY <1>4 DEF ToSet
  <2>2. A \o B \in Seq(S)
    BY <1>2, <1>3
  <2>3. A \o B \o <<c>> \in Seq(S)
    BY <2>1, <2>2
  <2>4. ToSet(A \o B) = ToSet(A) \cup ToSet(B)
    BY <1>2, <1>3, ElementsOfBoth
  <2>5. ToSet(A \o B \o <<c>>) = ToSet(A \o B) \cup ToSet(<<c>>)
    BY <2>1, <2>2, ElementsOfBoth
  <2> QED BY <2>1, <2>3, <2>4, <2>5 DEF S
<1>10. bundle \in Seq(S) /\ ToSet(bundle) = S
  BY <1>1, <1>9
<1> HIDE DEF bundle
<1>11. IsSeq(bundle)
  BY <1>10, SequencesAreSeq
<1>12. \A job \in S : job.op \in {"write", "copy"} /\ Inside(job.path, dir)
  BY <1>5, <1>6, <1>7
<1>13. {job.path : job \in {j \in S : j.op = "write"}} = {dir \o n : n \in FileNames(p)}
  <2>1. \A j \in S : j.op = "write" => j \in ToSet(A) \cup {c}
    BY <1>6
  <2>2. \A j \in ToSet(A) \cup {c} : j.path \in {dir \o n : n \in FileNames(p)}
    BY <1>5, <1>7
  <2> QED BY <1>8, <2>1, <2>2
<1> QED BY <1>10, <1>11, <1>12, <1>13 DEF bundle

-----------------------------------------------------------------------------
(* Loops, and what an import makes of a preset. *)

LEMMA LeastNumber ==
  ASSUME NEW S \in SUBSET Nat, S # {}
  PROVE  \E n \in S : \A m \in S : n <= m
<1> DEFINE Less == OpToRel(<, Nat)
<1>1. \A x, y \in Nat : x < y => <<x, y>> \in Less
  BY Zenon DEF OpToRel
<1>2. IsWellFoundedOn(Less, Nat)
  BY NatLessThanWellFounded
<1> HIDE DEF Less
<1>3. \E x \in S : \A y \in S : ~ (<<y, x>> \in Less)
  BY <1>2, WFMin
<1>4. PICK x \in S : \A y \in S : ~ (<<y, x>> \in Less)
  BY <1>3
<1>5. ASSUME NEW m \in S PROVE x <= m
  <2>1. ~ (m < x)
    BY <1>1, <1>4
  <2> QED BY <2>1
<1> QED BY <1>5

\* What one step of a loop keeps, the loop keeps.
LEMMA LoopKeeps ==
  ASSUME NEW T, NEW n \in Nat, NEW g, g[0] \in T, \A k \in 1..n : g[k-1] \in T => g[k] \in T
  PROVE  \A k \in 0..n : g[k] \in T
<1> DEFINE Bad == {k \in 0..n : g[k] \notin T}
<1>1. SUFFICES ASSUME Bad # {} PROVE FALSE
  OBVIOUS
<1>0. Bad \in SUBSET Nat
  OBVIOUS
<1>2. PICK k \in Bad : \A j \in Bad : k <= j
  BY <1>0, <1>1, LeastNumber, Zenon
<1>3. k # 0 /\ k \in 1..n /\ k - 1 \in 0..n
  BY <1>2
<1>4. k - 1 \notin Bad
  BY <1>2, <1>3
<1> QED BY <1>2, <1>3, <1>4

\* A loop over states has a result.
StaysIn(T, n, F) == \A s \in T, k \in 1..n : F[<<s, k>>] \in T
Runs(g, n, s0, F) == g[0] = s0 /\ \A k \in 1..n : g[k] = F[<<g[k-1], k>>]

LEMMA LoopRuns ==
  ASSUME NEW T, NEW n \in Nat, NEW s0 \in T, NEW F, StaysIn(T, n, F)
  PROVE  \E g \in [0..n -> T] : Runs(g, n, s0, F)
<1>0. \A s \in T, k \in 1..n : F[<<s, k>>] \in T
  BY DEF StaysIn
<1> DEFINE Run(g, m) == g \in [0..m -> T] /\ g[0] = s0 /\ \A k \in 1..m : g[k] = F[<<g[k-1], k>>]
           Bad == {m \in 0..n : ~ \E g : Run(g, m)}
<1>1. ASSUME Bad # {} PROVE FALSE
  <2>0. Bad \in SUBSET Nat
    OBVIOUS
  <2>1. PICK m \in Bad : \A j \in Bad : m <= j
    BY <1>1, <2>0, LeastNumber, Zenon
  <2>2. CASE m = 0
    <3>1. Run([k \in 0..0 |-> s0], 0)
      OBVIOUS
    <3> QED BY <2>1, <2>2, <3>1
  <2>3. CASE m # 0
    <3>1. m \in 1..n /\ m - 1 \in 0..n
      BY <2>1, <2>3
    <3> HIDE DEF Run
    <3>2. m - 1 \notin Bad
      BY <2>1, <3>1
    <3>3. PICK g : Run(g, m - 1)
      BY <3>1, <3>2
    <3> USE DEF Run
    <3> DEFINE h == [k \in 0..m |-> IF k = m THEN F[<<g[m-1], m>>] ELSE g[k]]
    <3>4. g[m-1] \in T /\ F[<<g[m-1], m>>] \in T
      <4>1. g[m-1] \in T
        BY <3>1, <3>3
      <4> QED BY <4>1, <3>1, <1>0
    <3>5. h \in [0..m -> T]
      BY <3>1, <3>3, <3>4
    <3>6. h[0] = s0
      BY <3>1, <3>3
    <3>7. ASSUME NEW k \in 1..m PROVE h[k] = F[<<h[k-1], k>>]
      <4>1. h[k-1] = g[k-1]
        BY <3>1
      <4>2. CASE k = m
        <5>1. h[m] = F[<<g[m-1], m>>]
          BY <3>1
        <5> QED BY <4>1, <4>2, <5>1
      <4>3. CASE k # m
        <5>1. k \in 1..m-1 /\ k \in 0..m
          BY <3>1, <4>3
        <5>2. h[k] = g[k]
          BY <4>3, <5>1
        <5> QED BY <3>3, <4>1, <5>1, <5>2
      <4> QED BY <4>2, <4>3
    <3>8. Run(h, m)
      BY <3>5, <3>6, <3>7
    <3> QED BY <2>1, <3>8
  <2> QED BY <2>2, <2>3
<1>2. n \notin Bad
  BY <1>1
<1>3. \E g : Run(g, n)
  BY <1>2
<1> QED BY <1>3 DEF Runs

\* The names of a preset's textures are a list.
LEMMA TexturesAreListed ==
  ASSUME NEW map, <<"textures">> \in DOMAIN map => IsSeq(map[<<"textures">>]) /\ map[<<"textures">>] # <<>>
  PROVE  IsSeq(LutNames(map))
<1> DEFINE listed == IF <<"textures">> \in DOMAIN map THEN Tail(map[<<"textures">>]) ELSE <<>>
           S == IF <<"textures">> \in DOMAIN map THEN ToSet(map[<<"textures">>]) ELSE {}
           n == Len(listed)
           Turn(s, k) == IF listed[k] \in ToSet(s) THEN s ELSE Append(s, listed[k])
           NextState(s, k) == Through(s, LAMBDA acc : IF listed[k] \in ToSet(acc) THEN acc ELSE Append(acc, listed[k]))
           Is(g) == g = [k \in 0..n |-> IF k = 0 THEN <<>> ELSE NextState(g[k-1], k)]
           at == CHOOSE g : Is(g)
           F == [x \in Seq(S) \X (1..n) |-> Turn(x[1], x[2])]
<1>1. listed \in Seq(S) /\ n \in Nat
  <2>1. CASE <<"textures">> \in DOMAIN map
    <3>1. map[<<"textures">>] \in Seq(S) /\ map[<<"textures">>] # <<>>
      BY <2>1 DEF IsSeq
    <3>2. listed = Tail(map[<<"textures">>])
      BY <2>1
    <3> HIDE DEF S, listed
    <3> QED BY <3>1, <3>2
  <2>2. CASE <<"textures">> \notin DOMAIN map
    BY <2>2
  <2> QED BY <2>1, <2>2
<1>2. LutNames(map) = at[n]
  BY DEF LutNames, Loop
<1> HIDE DEF S, listed
<1>20. ASSUME NEW s, NEW k PROVE NextState(s, k) = Turn(s, k)
  <2>1. NextState(s, k) = CHOOSE r \in {Turn(x, k) : x \in {s}} : TRUE
    BY DEF Through
  <2> HIDE DEF NextState, Turn
  <2>2. {Turn(x, k) : x \in {s}} = {Turn(s, k)}
    OBVIOUS
  <2> QED BY <2>1, <2>2
<1> HIDE DEF NextState
<1>3. \A s \in Seq(S), k \in 1..n : Turn(s, k) \in Seq(S)
  BY <1>1
<1> HIDE DEF Turn
<1>4. \A s \in Seq(S), k \in 1..n : F[<<s, k>>] \in Seq(S)
  BY <1>3
<1>5. <<>> \in Seq(S)
  OBVIOUS
<1>6. PICK g \in [0..n -> Seq(S)] : g[0] = <<>> /\ \A k \in 1..n : g[k] = F[<<g[k-1], k>>]
  <2> HIDE DEF F, n
  <2>1. n \in Nat
    BY <1>1
  <2>2. StaysIn(Seq(S), n, F)
    BY <1>4 DEF StaysIn
  <2>3. \E g \in [0..n -> Seq(S)] : Runs(g, n, <<>>, F)
    BY <2>1, <2>2, <1>5, LoopRuns
  <2> QED BY <2>3 DEF Runs
<1>7. \A k \in 1..n : g[k] = Turn(g[k-1], k)
  <2> TAKE k \in 1..n
  <2>1. g[k-1] \in Seq(S)
    BY <1>1, <1>6
  <2> QED BY <1>6, <2>1
<1>8. Is(g)
  <2>1. \A k \in 0..n : g[k] = IF k = 0 THEN <<>> ELSE NextState(g[k-1], k)
    BY <1>1, <1>6, <1>7, <1>20
  <2> QED BY <1>6, <2>1
<1>9. Is(at)
  BY <1>8
<1> HIDE DEF at
<1>10. at[0] = <<>> /\ \A k \in 1..n : at[k] = Turn(at[k-1], k)
  <2>1. \A k \in 0..n : at[k] = IF k = 0 THEN <<>> ELSE NextState(at[k-1], k)
    BY <1>9
  <2>2. \A k \in 1..n : k \in 0..n /\ k # 0
    BY <1>1
  <2>3. 0 \in 0..n
    BY <1>1
  <2> QED BY <2>1, <2>2, <2>3, <1>20
<1>11. \A k \in 0..n : at[k] \in Seq(S)
  <2>1. \A k \in 1..n : at[k-1] \in Seq(S) => at[k] \in Seq(S)
    BY <1>3, <1>10
  <2> HIDE DEF n
  <2> QED BY <1>1, <1>5, <1>10, <2>1, LoopKeeps
<1>12. at[n] \in Seq(S)
  BY <1>1, <1>11
<1> QED BY <1>2, <1>12, SequencesAreSeq

\* A part of a value is a value.
LEMMA PartsAreSeq ==
  ASSUME NEW value, IsSeq(value), value # <<>>, NEW first \in Nat \ {0}, NEW last \in 0..Len(value)
  PROVE  IsSeq(Part(value, first, last)) /\ Part(value, first, last) # <<>>
<1> DEFINE rest == SubSeq(value, first, last)
<1>1. value \in Seq(ToSet(value)) /\ Len(value) \in Nat /\ value[1] \in ToSet(value)
  <2>1. value \in Seq(ToSet(value)) /\ Len(value) \in Nat
    BY DEF IsSeq
  <2>2. 1 \in 1..Len(value) /\ DOMAIN value = 1..Len(value)
    BY <2>1
  <2> QED BY <2>1, <2>2 DEF ToSet
<1>2. rest \in Seq(ToSet(value))
  BY <1>1
<1> HIDE DEF rest
<1>3. <<value[1]>> \in Seq(ToSet(value)) /\ Len(<<value[1]>>) = 1
  BY <1>1
<1>4. <<value[1]>> \o rest \in Seq(ToSet(value)) /\ Len(<<value[1]>> \o rest) = 1 + Len(rest) /\ Len(rest) \in Nat
  BY <1>2, <1>3
<1>5. <<value[1]>> \o rest # <<>>
  BY <1>4
<1>6. Part(value, first, last) = <<value[1]>> \o rest
  BY DEF Part, rest
<1> QED BY <1>4, <1>5, <1>6, SequencesAreSeq

\* What is left of a value without its comment, its blanks and its quotes.
Plain(value) == Unquote(Trim(StripInlineComment(value)))

LEMMA UncommentedIsSeq ==
  ASSUME NEW value, IsSeq(value), value # <<>>
  PROVE  IsSeq(StripInlineComment(value)) /\ StripInlineComment(value) # <<>>
<1> DEFINE marks == {k \in 2..Len(value) : value[1] = "word" /\ value[k] \in {"#", "//"}
                                           /\ Cardinality(Quotes(value, k)) % 2 = 0}
           first == CHOOSE k \in marks : \A j \in marks : k <= j
<1>1. CASE marks = {}
  BY <1>1 DEF StripInlineComment
<1>2. CASE marks # {}
  <2>1. value \in Seq(ToSet(value)) /\ Len(value) \in Nat
    BY DEF IsSeq
  <2>2. marks \in SUBSET Nat /\ marks \subseteq 2..Len(value)
    OBVIOUS
  <2>3. first \in marks
    <3> HIDE DEF marks
    <3>1. \E k \in marks : \A j \in marks : k <= j
      BY <1>2, <2>2, LeastNumber, Zenon
    <3> QED BY <3>1
  <2>4. StripInlineComment(value) = SubSeq(value, 1, first - 1)
    BY <1>2 DEF StripInlineComment, first
  <2> HIDE DEF marks, first
  <2>5. first \in 2..Len(value)
    BY <2>2, <2>3
  <2>6. SubSeq(value, 1, first - 1) \in Seq(ToSet(value)) /\ Len(SubSeq(value, 1, first - 1)) = first - 1
    BY <2>1, <2>5
  <2>7. first - 1 >= 1
    BY <2>5
  <2>8. SubSeq(value, 1, first - 1) # <<>>
    BY <2>6, <2>7
  <2>9. IsSeq(SubSeq(value, 1, first - 1))
    BY <2>6, SequencesAreSeq
  <2> QED BY <2>4, <2>8, <2>9
<1> QED BY <1>1, <1>2

LEMMA ValuesAreSeq ==
  ASSUME NEW value, IsSeq(value), value # <<>>
  PROVE  IsSeq(Plain(value)) /\ Plain(value) # <<>>
<1>1. ASSUME NEW v, IsSeq(v), v # <<>> PROVE IsSeq(Trim(v)) /\ Trim(v) # <<>>
  <2>1. Len(v) \in Nat /\ Len(v) >= 1
    BY <1>1 DEF IsSeq
  <2>2. \E first \in {2, 3}, last \in {Len(v), Len(v) - 1} : Trim(v) = Part(v, first, last)
    BY DEF Trim
  <2>3. PICK first \in {2, 3}, last \in {Len(v), Len(v) - 1} : Trim(v) = Part(v, first, last)
    BY <2>2
  <2>4. first \in Nat \ {0} /\ last \in 0..Len(v)
    BY <2>1
  <2> QED BY <1>1, <2>3, <2>4, PartsAreSeq
<1>2. ASSUME NEW v, IsSeq(v), v # <<>> PROVE IsSeq(Unquote(v)) /\ Unquote(v) # <<>>
  <2>1. Len(v) \in Nat /\ Len(v) >= 1
    BY <1>2 DEF IsSeq
  <2>2. Unquote(v) \in {v, Part(v, 3, Len(v) - 1)}
    BY DEF Unquote
  <2>3. 3 \in Nat \ {0} /\ Len(v) - 1 \in 0..Len(v)
    BY <2>1
  <2>4. IsSeq(Part(v, 3, Len(v) - 1)) /\ Part(v, 3, Len(v) - 1) # <<>>
    BY <1>2, <2>3, PartsAreSeq
  <2> QED BY <1>2, <2>2, <2>4
<1>3. IsSeq(StripInlineComment(value)) /\ StripInlineComment(value) # <<>>
  BY UncommentedIsSeq
<1>4. IsSeq(Trim(StripInlineComment(value))) /\ Trim(StripInlineComment(value)) # <<>>
  BY <1>1, <1>3
<1> QED BY <1>2, <1>4 DEF Plain

\* A preset read line by line has only values of its lines.
LinesOK(lines) == IsSeq(lines) /\ \A line \in ToSet(lines) : IsSeq(line.value) /\ line.value # <<>>

LEMMA IniValuesAreSeq ==
  ASSUME NEW lines, LinesOK(lines)
  PROVE  LET map == ParseIni(lines) IN \A key \in DOMAIN map : IsSeq(map[key]) /\ map[key] # <<>>
<1> DEFINE n == Len(lines)
           value(line) == Plain(line.value)
           V == {value(line) : line \in ToSet(lines)}
           K == {line.key : line \in ToSet(lines)}
           T == UNION {[D -> V] : D \in SUBSET K}
           empty == [k \in {} |-> <<>>]
           Turn(s, k) == Set(s, lines[k].key, value(lines[k]))
           NextState(s, k) == Through(s, LAMBDA map : Set(map, lines[k].key, value(lines[k])))
           Is(g) == g = [k \in 0..n |-> IF k = 0 THEN empty ELSE NextState(g[k-1], k)]
           at == CHOOSE g : Is(g)
           F == [x \in T \X (1..n) |-> Turn(x[1], x[2])]
<1>1. n \in Nat /\ \A k \in 1..n : lines[k] \in ToSet(lines)
  BY DEF LinesOK, IsSeq, ToSet
<1>2. ParseIni(lines) = at[n]
  BY DEF ParseIni, Loop, Plain
<1>3. ASSUME NEW s, NEW k PROVE NextState(s, k) = Turn(s, k)
  <2>1. NextState(s, k) = CHOOSE r \in {Turn(x, k) : x \in {s}} : TRUE
    BY DEF Through
  <2> HIDE DEF NextState, Turn
  <2>2. {Turn(x, k) : x \in {s}} = {Turn(s, k)}
    OBVIOUS
  <2> QED BY <2>1, <2>2
<1> HIDE DEF NextState, value
<1>4. ASSUME NEW s \in T, NEW k \in 1..n PROVE Turn(s, k) \in T
  <2>1. PICK D \in SUBSET K : s \in [D -> V]
    OBVIOUS
  <2>2. lines[k].key \in K /\ value(lines[k]) \in V
    BY <1>1
  <2>3. D \cup {lines[k].key} \in SUBSET K
    BY <2>2
  <2> HIDE DEF K, V
  <2>4. Turn(s, k) \in [D \cup {lines[k].key} -> V]
    BY <2>1, <2>2 DEF Set
  <2> HIDE DEF Turn
  <2> QED BY <2>3, <2>4
<1>5. empty \in T
  <2>1. empty \in [{} -> V] /\ {} \in SUBSET K
    OBVIOUS
  <2> QED BY <2>1
<1> HIDE DEF T, Turn, n
<1>6. StaysIn(T, n, F)
  BY <1>4 DEF StaysIn
<1>7. PICK g \in [0..n -> T] : Runs(g, n, empty, F)
  <2> HIDE DEF F, empty
  <2> QED BY <1>1, <1>5, <1>6, LoopRuns
<1>8. \A k \in 1..n : g[k] = Turn(g[k-1], k)
  <2> TAKE k \in 1..n
  <2>1. g[k-1] \in T
    BY <1>1, <1>7
  <2> QED BY <1>7, <2>1 DEF Runs
<1>9. Is(at)
  <2>1. \A k \in 0..n : g[k] = IF k = 0 THEN empty ELSE NextState(g[k-1], k)
    <3> HIDE DEF empty
    <3>1. g[0] = empty
      BY <1>7 DEF Runs
    <3>2. \A k \in 0..n : k # 0 => k \in 1..n
      BY <1>1
    <3> QED BY <1>3, <1>8, <3>1, <3>2
  <2>2. Is(g)
    BY <1>7, <2>1
  <2> QED BY <2>2
<1> HIDE DEF at
<1>10. at[0] = empty /\ \A k \in 1..n : at[k] = Turn(at[k-1], k)
  <2>1. \A k \in 0..n : at[k] = IF k = 0 THEN empty ELSE NextState(at[k-1], k)
    BY <1>9
  <2>2. \A k \in 1..n : k \in 0..n /\ k # 0
    BY <1>1
  <2>3. 0 \in 0..n
    BY <1>1
  <2> QED BY <2>1, <2>2, <2>3, <1>3
<1>11. at[n] \in T
  <2>1. \A k \in 1..n : at[k-1] \in T => at[k] \in T
    BY <1>4, <1>10
  <2>2. \A k \in 0..n : at[k] \in T
    BY <1>1, <1>5, <1>10, <2>1, LoopKeeps
  <2> QED BY <1>1, <2>2
<1>12. PICK D \in SUBSET K : at[n] \in [D -> V]
  BY <1>11 DEF T
<1>13. \A v \in V : IsSeq(v) /\ v # <<>>
  BY ValuesAreSeq DEF LinesOK, value
<1> QED BY <1>2, <1>12, <1>13

LEMMA FunctionsAreSeq ==
  ASSUME NEW n \in Nat, NEW f, f = [k \in 1..n |-> f[k]]
  PROVE  IsSeq(f)
<1>1. f \in [1..n -> ToSet(f)]
  BY DEF ToSet
<1>2. f \in Seq(ToSet(f))
  BY <1>1
<1> QED BY <1>2 DEF IsSeq

\* An imported project is a list of passes and a list of textures.
LEMMA ImportMakesProject ==
  ASSUME NEW files, NEW path, CanImport(files, path), LinesOK(files[path].lines)
  PROVE  ProjectOK(ImportPreset(files, path))
<1> DEFINE map == MapAt(files, path)
           preset == ParseSlangp(map, Dir(path))
           counted == Opt(map, <<"shaders">>, "natural")
           count == CHOOSE n \in counted : TRUE
           imported == ImportPreset(files, path)
<1>1. counted # {}
  <2>1. ParseErrors(map) = {}
    BY DEF CanImport
  <2>2. counted = {} => "shaders" \in ParseErrors(map)
    BY DEF ParseErrors
  <2> QED BY <2>1, <2>2
<1>2. counted \subseteq Nat
  BY DEF Opt, Read, Natural
<1>3. count \in Nat
  BY <1>1, <1>2
<1>4. IsSeq(imported.passes)
  <2>1. DOMAIN preset.passes = 1..count
    BY DEF ParseSlangp
  <2>2. imported.passes = [k \in DOMAIN preset.passes |-> imported.passes[k]]
    BY DEF ImportPreset, ImportParsedPreset
  <2> HIDE DEF imported, preset, count
  <2>3. imported.passes = [k \in 1..count |-> imported.passes[k]]
    BY <2>1, <2>2, Zenon
  <2> QED BY <1>3, <2>3, FunctionsAreSeq
<1>5. IsSeq(imported.luts)
  <2> DEFINE names == LutNames(map)
  <2>1. \A key \in DOMAIN map : IsSeq(map[key]) /\ map[key] # <<>>
    BY IniValuesAreSeq DEF MapAt
  <2>2. IsSeq(names)
    BY <2>1, TexturesAreListed
  <2>3. DOMAIN names = 1..Len(names) /\ Len(names) \in Nat
    BY <2>2 DEF IsSeq
  <2>4. preset.luts = [k \in DOMAIN names |-> preset.luts[k]]
    BY DEF ParseSlangp, ParseLuts
  <2>5. imported.luts = [k \in DOMAIN preset.luts |-> imported.luts[k]]
    BY DEF ImportPreset, ImportParsedPreset
  <2> HIDE DEF imported, preset, names
  <2>6. DOMAIN preset.luts = DOMAIN names
    BY <2>4
  <2>7. imported.luts = [k \in 1..Len(names) |-> imported.luts[k]]
    BY <2>3, <2>5, <2>6, Zenon
  <2> QED BY <2>3, <2>7, FunctionsAreSeq
<1>6. {"passes", "luts"} \subseteq DOMAIN imported
  BY DEF ImportPreset, ImportParsedPreset
<1> QED BY <1>4, <1>5, <1>6 DEF ProjectOK

-----------------------------------------------------------------------------
(* The invariant. *)

Staging == StagingDirFor(dest)
WholeBeside(names) == \A n \in names : Staging \o n \in DOMAIN disk

\* One project is open, or none, and it is whole; so is the one that was exported.
ProjectsOK == /\ \A p \in project : ProjectOK(p)
              /\ \A p, q \in project : p = q

ExportOK == /\ exports \in Nat /\ phase \in {"idle"} \cup Exporting
            /\ exports = 0 => exported = {} /\ disk \in Disks
            /\ phase # "idle" => exported # {}
            /\ exported # {} => dest \in Dests /\ \E p \in exported : exported = {p} /\ ProjectOK(p)

\* While the bundle is written, the destination is as it was, and what is not yet in
\* the directory beside it is still to be written there.
WritingOK == phase = "writing" =>
               /\ IsSeq(jobs) /\ \A job \in ToSet(jobs) : Inside(job.path, Staging)
               /\ FilesOf(disk, dest) = before
               /\ \A n \in FileNames(Exported) :
                     \/ Staging \o n \in DOMAIN disk
                     \/ \E job \in ToSet(jobs) : job.op = "write" /\ job.path = Staging \o n

\* While the destination is cleared, the bundle beside it is whole.
ClearingOK == phase = "clearing" => WholeBeside(FileNames(Exported))

RestOK == phase = "idle" /\ exported # {} /\ answer # "SwapFailed" =>
            \/ FilesOf(disk, dest) = before
            \/ WholeBeside(FileNames(Exported))
            \/ \A n \in FileNames(Exported) : dest \o n \in DOMAIN disk

IInv == PathsOK(disk) /\ ProjectsOK /\ ExportOK /\ WritingOK /\ ClearingOK /\ RestOK

LEMMA ExportedIsIt ==
  ASSUME NEW p, exported = {p}
  PROVE  Exported = p
BY DEF Exported

\* What an export puts into a bundle is what NewBundle says.
LEMMA BundleIsNamed ==
  ASSUME NEW p, exported = {p}, ProjectOK(p)
  PROVE  NewBundle = FileNames(Exported)
<1>1. Exported = p
  BY ExportedIsIt
<1>2. IsSeq(<<>>)
  BY DEF IsSeq
<1>3. NewBundle = {<<>> \o n : n \in FileNames(p)}
  BY <1>1, <1>2, BundleOfProject DEF NewBundle
<1>4. \A n \in FileNames(p) : <<>> \o n = n
  <2> TAKE n \in FileNames(p)
  <2>1. IsSeq(n)
    BY TuplesAreSeq DEF FileNames
  <2>2. n \in Seq(ToSet(n))
    BY <2>1 DEF IsSeq
  <2> QED BY <2>2
<1> QED BY <1>1, <1>3, <1>4

\* The invariant gives the property.
LEMMA SomeBundleIsThere ==
  ASSUME IInv
  PROVE  SomeBundleSurvives
<1> SUFFICES ASSUME exported # {}, answer # "SwapFailed"
             PROVE  FilesUnder(dest) = before \/ Whole(StagingDirFor(dest)) \/ Whole(dest)
  BY DEF SomeBundleSurvives
<1>1. PICK p : exported = {p} /\ ProjectOK(p)
  BY DEF IInv, ExportOK
<1>2. NewBundle = FileNames(Exported)
  BY <1>1, BundleIsNamed
<1>3. FilesUnder(dest) = FilesOf(disk, dest)
  BY DEF FilesUnder, FilesOf, Under, UnderOf
<1>4. phase \in {"idle", "writing", "clearing"}
  BY DEF IInv, ExportOK, Exporting
<1> QED BY <1>2, <1>3, <1>4 DEF IInv, WritingOK, ClearingOK, RestOK, WholeBeside, Whole, Staging

LEMMA InitIInv ==
  ASSUME Init
  PROVE  IInv
<1>1. PathsOK(disk)
  BY DisksAreSeq DEF Init, PathsOK
<1> QED BY <1>1 DEF Init, IInv, ProjectsOK, ExportOK, WritingOK, ClearingOK, RestOK

-----------------------------------------------------------------------------
(* The steps. *)

\* An import replaces the project, before anything was exported.
LEMMA ImportKeeps ==
  ASSUME IInv, NEW path \in Presets, Import(path)
  PROVE  IInv'
<1>1. exported = {} /\ disk \in Disks /\ phase = "idle" /\ exports = 0
  BY DEF Import, IInv, ExportOK
<1>2. ProjectsOK'
  <2>1. CASE CanImport(disk, path)
    <3>1. path \in DOMAIN disk
      BY <2>1 DEF CanImport
    <3>2. LinesOK(disk[path].lines)
      BY <1>1, <3>1, DisksAreSeq DEF LinesOK
    <3>3. project' = {ImportPreset(disk, path)}
      BY <2>1 DEF Import
    <3>4. ProjectOK(ImportPreset(disk, path))
      BY <2>1, <3>2, ImportMakesProject
    <3> QED BY <3>3, <3>4 DEF ProjectsOK
  <2>2. CASE ~CanImport(disk, path)
    BY <2>2 DEF Import, IInv, ProjectsOK
  <2> QED BY <2>1, <2>2
<1>3. /\ UNCHANGED <<disk, phase, jobs, dest, exported, before, exports>>
  BY DEF Import
<1> QED BY <1>1, <1>2, <1>3 DEF IInv, ExportOK, WritingOK, ClearingOK, RestOK

LEMMA EditKeeps ==
  ASSUME IInv, NEW p, p \in project, NEW q, ProjectOK(q), project' = {q}, phase = "idle",
         UNCHANGED <<disk, phase, jobs, dest, answer, exported, before, exports>>
  PROVE  IInv'
<1>1. ProjectsOK'
  BY DEF ProjectsOK
<1>2. UNCHANGED <<Exported, Staging>>
  BY DEF Exported, Staging
<1> QED BY <1>1, <1>2 DEF IInv, ExportOK, WritingOK, ClearingOK, RestOK, WholeBeside

LEMMA AppendPassKeeps ==
  ASSUME IInv, NEW pass, AppendPass(pass)
  PROVE  IInv'
<1>1. PICK p \in project : project' = {[p EXCEPT !.passes = Append(@, pass)]}
  BY DEF AppendPass, Edit
<1> DEFINE q == [p EXCEPT !.passes = Append(@, pass)]
<1>2. ProjectOK(p)
  BY DEF IInv, ProjectsOK
<1>3. DOMAIN q = DOMAIN p /\ q.passes = Append(p.passes, pass) /\ q.luts = p.luts
  BY <1>2 DEF ProjectOK
<1>4. IsSeq(Append(p.passes, pass))
  <2>1. p.passes \in Seq(ToSet(p.passes) \cup {pass})
    BY <1>2 DEF ProjectOK, IsSeq
  <2>2. Append(p.passes, pass) \in Seq(ToSet(p.passes) \cup {pass})
    BY <2>1
  <2> QED BY <2>2, SequencesAreSeq
<1> HIDE DEF q
<1>5. ProjectOK(q)
  BY <1>2, <1>3, <1>4 DEF ProjectOK
<1>6. phase = "idle" /\ UNCHANGED <<disk, phase, jobs, dest, answer, exported, before, exports>>
  BY DEF AppendPass, Edit
<1> QED BY <1>1, <1>5, <1>6, EditKeeps DEF q

LEMMA SetPassSettingsKeeps ==
  ASSUME IInv, NEW s, SetPassSettings(s)
  PROVE  IInv'
<1>1. PICK p \in project : project' = {[p EXCEPT !.passes[1].settings = s]}
  BY DEF SetPassSettings, Edit
<1> DEFINE q == [p EXCEPT !.passes[1].settings = s]
           first == [p.passes[1] EXCEPT !.settings = s]
<1>2. ProjectOK(p)
  BY DEF IInv, ProjectsOK
<1>3. DOMAIN q = DOMAIN p /\ q.passes = [p.passes EXCEPT ![1] = first] /\ q.luts = p.luts
  BY <1>2 DEF ProjectOK
<1> HIDE DEF first
<1>4. IsSeq([p.passes EXCEPT ![1] = first])
  <2>1. p.passes \in Seq(ToSet(p.passes) \cup {first})
    BY <1>2 DEF ProjectOK, IsSeq
  <2> DEFINE S == ToSet(p.passes) \cup {first}
             n == Len(p.passes)
  <2>2. p.passes \in [1..n -> S] /\ n \in Nat /\ first \in S
    BY <2>1
  <2> HIDE DEF S, n
  <2>3. [p.passes EXCEPT ![1] = first] \in [1..n -> S]
    BY <2>2
  <2>4. [p.passes EXCEPT ![1] = first] \in Seq(S)
    BY <2>2, <2>3
  <2> QED BY <2>4, SequencesAreSeq
<1> HIDE DEF q
<1>5. ProjectOK(q)
  BY <1>2, <1>3, <1>4 DEF ProjectOK
<1>6. phase = "idle" /\ UNCHANGED <<disk, phase, jobs, dest, answer, exported, before, exports>>
  BY DEF SetPassSettings, Edit
<1> QED BY <1>1, <1>5, <1>6, EditKeeps DEF q

\* Files are taken away, but none of a directory.
LEMMA RemovingElsewhere ==
  ASSUME NEW files, PathsOK(files), NEW d, IsSeq(d), NEW left1 \in SUBSET DOMAIN files,
         UnderOf(files, d) \subseteq left1
  PROVE  LET rest == [p \in left1 |-> files[p]]
         IN  PathsOK(rest) /\ FilesOf(rest, d) = FilesOf(files, d)
<1> DEFINE left == [p \in left1 |-> files[p]]
<1>1. DOMAIN left = left1 /\ \A p \in left1 : left[p] = files[p]
  OBVIOUS
<1> HIDE DEF left
<1>2. PathsOK(left)
  BY <1>1 DEF PathsOK
<1>3. UnderOf(left, d) = UnderOf(files, d) /\ \A q \in UnderOf(files, d) : left[q] = files[q]
  BY <1>1 DEF UnderOf
<1>4. FilesOf(left, d) = FilesOf(files, d)
  BY <1>3, SameDirectory
<1> QED BY <1>2, <1>4 DEF left

\* The directory the bundle is built in is taken away.
LEMMA StagingRemoved ==
  ASSUME PathsOK(disk), NEW d \in Dests
  PROVE  LET rest == Only(DOMAIN disk \ Under(StagingDirFor(d)))
         IN  PathsOK(rest) /\ FilesOf(rest, d) = FilesOf(disk, d)
<1> DEFINE left1 == DOMAIN disk \ Under(StagingDirFor(d))
<1>1. IsSeq(d)
  BY StagingIsApart
<1>2. UnderOf(disk, d) \subseteq left1
  <2>1. \A q \in DOMAIN disk : IsPrefix(d, q) => ~IsPrefix(StagingDirFor(d), q)
    BY StagingIsApart DEF PathsOK
  <2> QED BY <2>1 DEF UnderOf, Under
<1>3. left1 \in SUBSET DOMAIN disk
  OBVIOUS
<1>4. Only(left1) = [p \in left1 |-> disk[p]]
  BY DEF Only
<1> HIDE DEF left1
<1>5. PathsOK(Only(left1)) /\ FilesOf(Only(left1), d) = FilesOf(disk, d)
  BY <1>1, <1>2, <1>3, <1>4, RemovingElsewhere
<1> QED BY <1>5 DEF left1

LEMMA ExportKeeps ==
  ASSUME IInv, NEW d \in Dests, NEW threaded, Export(d, threaded)
  PROVE  IInv'
<1>1. /\ phase = "idle" /\ project # {} /\ exported' = project /\ dest' = d /\ exports' = exports + 1
      /\ before' = FilesUnder(d) /\ project' = project
  BY DEF Export
<1>2. PICK p \in project :
         IF ValidateForExport(p) # {}
         THEN answer' = "Refused" /\ UNCHANGED <<disk, phase, jobs>>
         ELSE /\ phase' = "writing"
              /\ jobs' = WriteBundle(p, StagingDirFor(d), IF threaded THEN extras ELSE [k \in {} |-> <<>>])
              /\ disk' = Only(DOMAIN disk \ Under(StagingDirFor(d)))
  BY DEF Export
<1>3. ProjectOK(p) /\ project = {p} /\ exported' = {p} /\ Exported' = p
  BY <1>1, <1>2 DEF IInv, ProjectsOK, Exported
<1>4. ProjectsOK'
  BY <1>1 DEF IInv, ProjectsOK
<1>5. before' = FilesOf(disk, d) /\ PathsOK(disk)
  BY <1>1 DEF FilesUnder, FilesOf, Under, UnderOf, IInv
<1>6. exports' \in Nat /\ exports' # 0
  BY <1>1 DEF IInv, ExportOK
<1>7. CASE ValidateForExport(p) # {}
  <2>1. UNCHANGED <<disk, phase>> /\ phase' = "idle"
    BY <1>1, <1>2, <1>7
  <2>2. ExportOK'
    BY <1>1, <1>3, <1>6, <2>1 DEF ExportOK
  <2>3. FilesOf(disk, d)' = before'
    BY <1>5, <2>1
  <2> QED BY <1>1, <1>4, <1>5, <2>1, <2>2, <2>3 DEF IInv, WritingOK, ClearingOK, RestOK
<1>8. CASE ValidateForExport(p) = {}
  <2> DEFINE unknown == IF threaded THEN extras ELSE [k \in {} |-> <<>>]
             bundle == WriteBundle(p, StagingDirFor(d), unknown)
  <2>1. phase' = "writing" /\ jobs' = bundle /\ disk' = Only(DOMAIN disk \ Under(StagingDirFor(d)))
    BY <1>2, <1>8
  <2>2. PathsOK(disk') /\ FilesOf(disk', d) = FilesOf(disk, d)
    BY <1>5, <2>1, StagingRemoved
  <2>3. IsSeq(StagingDirFor(d))
    BY StagingIsApart
  <2> HIDE DEF unknown
  <2>4. /\ IsSeq(bundle)
        /\ \A job \in ToSet(bundle) : Inside(job.path, StagingDirFor(d))
        /\ {job.path : job \in {j \in ToSet(bundle) : j.op = "write"}}
              = {StagingDirFor(d) \o n : n \in FileNames(p)}
    BY <1>3, <2>3, BundleOfProject
  <2> HIDE DEF bundle
  <2>5. \A n \in FileNames(p) : \E job \in ToSet(bundle) : job.op = "write" /\ job.path = StagingDirFor(d) \o n
    BY <2>4
  <2>6. Staging' = StagingDirFor(d)
    BY <1>1 DEF Staging
  <2>7. WritingOK'
    BY <1>1, <1>3, <1>5, <2>1, <2>2, <2>4, <2>5, <2>6 DEF WritingOK
  <2>8. ExportOK'
    BY <1>1, <1>3, <1>6, <2>1 DEF ExportOK, Exporting
  <2>9. ClearingOK' /\ RestOK'
    BY <2>1 DEF ClearingOK, RestOK
  <2> QED BY <1>4, <2>2, <2>7, <2>8, <2>9 DEF IInv
<1> QED BY <1>7, <1>8

LEMMA WriteNextKeeps ==
  ASSUME IInv, WriteNext
  PROVE  IInv'
<1> DEFINE job == Head(jobs)
           missing == job.op = "copy" /\ job.from \notin DOMAIN disk
           content == IF job.op = "copy" THEN disk[job.from] ELSE job.file
<1>1. /\ phase = "writing" /\ phase' = "writing" /\ jobs # <<>> /\ jobs' = Tail(jobs)
      /\ disk' = IF missing THEN disk ELSE Set(disk, job.path, content)
      /\ UNCHANGED <<project, dest, answer, exported, before, exports>>
  BY DEF WriteNext
<1>2. UNCHANGED <<Exported, Staging>>
  BY <1>1 DEF Exported, Staging
<1>3. /\ IsSeq(jobs) /\ \A j \in ToSet(jobs) : Inside(j.path, Staging)
      /\ FilesOf(disk, dest) = before /\ PathsOK(disk) /\ exported # {} /\ dest \in Dests
      /\ \A n \in FileNames(Exported) :
            \/ Staging \o n \in DOMAIN disk
            \/ \E j \in ToSet(jobs) : j.op = "write" /\ j.path = Staging \o n
  BY <1>1 DEF IInv, WritingOK, ExportOK
<1>4. IsSeq(jobs') /\ ToSet(jobs) = {job} \cup ToSet(jobs')
  <2>1. jobs \in Seq(ToSet(jobs)) /\ Len(jobs) \in Nat /\ Len(jobs) # 0
    BY <1>1, <1>3 DEF IsSeq
  <2>2. jobs' \in Seq(ToSet(jobs)) /\ Len(jobs') = Len(jobs) - 1 /\ \A i \in 1..Len(jobs') : jobs'[i] = jobs[i + 1]
    BY <1>1, <2>1
  <2>3. DOMAIN jobs = 1..Len(jobs) /\ DOMAIN jobs' = 1..Len(jobs') /\ job = jobs[1]
    BY <1>1, <2>1, <2>2
  <2>4. \A i \in 1..Len(jobs) : i = 1 \/ (i - 1 \in 1..Len(jobs') /\ jobs'[i - 1] = jobs[i])
    BY <2>1, <2>2
  <2>5. \A i \in 1..Len(jobs') : i + 1 \in 1..Len(jobs)
    BY <2>1, <2>2
  <2>6. 1 \in 1..Len(jobs)
    BY <2>1
  <2> HIDE DEF job
  <2>7. ToSet(jobs) = {job} \cup ToSet(jobs')
    <3>1. ASSUME NEW x \in ToSet(jobs) PROVE x \in {job} \cup ToSet(jobs')
      <4>1. PICK i \in 1..Len(jobs) : x = jobs[i]
        BY <2>3 DEF ToSet
      <4> QED BY <2>3, <2>4, <4>1 DEF ToSet
    <3>2. ASSUME NEW x \in ToSet(jobs') PROVE x \in ToSet(jobs)
      <4>1. PICK i \in 1..Len(jobs') : x = jobs'[i]
        BY <2>3 DEF ToSet
      <4>2. i + 1 \in DOMAIN jobs /\ jobs[i + 1] = x
        BY <2>2, <2>3, <2>5, <4>1
      <4> QED BY <4>2 DEF ToSet
    <3>3. job \in ToSet(jobs)
      BY <2>3, <2>6 DEF ToSet
    <3> QED BY <3>1, <3>2, <3>3
  <2> QED BY <2>2, <2>7, SequencesAreSeq
<1>5. IsSeq(job.path) /\ IsPrefix(StagingDirFor(dest), job.path)
  BY <1>3, <1>4 DEF Inside, Staging
<1>6. /\ DOMAIN disk \subseteq DOMAIN disk' /\ DOMAIN disk' \subseteq DOMAIN disk \cup {job.path}
      /\ \A q \in DOMAIN disk : q # job.path => disk'[q] = disk[q]
      /\ ~missing => job.path \in DOMAIN disk'
  BY <1>1 DEF Set
<1> HIDE DEF job
<1>7. PathsOK(disk')
  BY <1>3, <1>5, <1>6 DEF PathsOK
<1>8. FilesOf(disk', dest) = FilesOf(disk, dest)
  <2>1. ~IsPrefix(dest, job.path) /\ IsSeq(dest)
    BY <1>3, <1>5, StagingIsApart
  <2>2. UnderOf(disk', dest) = UnderOf(disk, dest) /\ \A q \in UnderOf(disk, dest) : disk'[q] = disk[q]
    BY <1>6, <2>1 DEF UnderOf
  <2> QED BY <1>3, <2>1, <2>2, SameDirectory
<1>9. ASSUME NEW n \in FileNames(Exported)
      PROVE  \/ Staging \o n \in DOMAIN disk'
             \/ \E j \in ToSet(jobs') : j.op = "write" /\ j.path = Staging \o n
  <2>1. CASE Staging \o n \in DOMAIN disk
    BY <1>6, <2>1
  <2>2. CASE \E j \in ToSet(jobs) : j.op = "write" /\ j.path = Staging \o n
    <3>1. PICK j \in ToSet(jobs) : j.op = "write" /\ j.path = Staging \o n
      BY <2>2
    <3>2. CASE j = job
      BY <1>6, <3>1, <3>2
    <3>3. CASE j \in ToSet(jobs')
      BY <3>1, <3>3
    <3> QED BY <1>4, <3>1, <3>2, <3>3
  <2> QED BY <1>3, <2>1, <2>2
<1>10. WritingOK'
  <2>1. \A j \in ToSet(jobs') : Inside(j.path, Staging)
    BY <1>3, <1>4
  <2> QED BY <1>1, <1>2, <1>3, <1>4, <1>8, <1>9, <2>1 DEF WritingOK
<1>11. ProjectsOK' /\ ExportOK' /\ ClearingOK' /\ RestOK'
  BY <1>1 DEF IInv, ProjectsOK, ExportOK, ClearingOK, RestOK
<1> QED BY <1>7, <1>10, <1>11 DEF IInv

LEMMA WriteFailsKeeps ==
  ASSUME IInv, WriteFails
  PROVE  IInv'
<1>1. /\ phase = "writing" /\ phase' = "idle" /\ disk' = Only(DOMAIN disk \ Under(StagingDirFor(dest)))
      /\ UNCHANGED <<project, dest, exported, before, exports>>
  BY DEF WriteFails, Stop
<1>2. PathsOK(disk) /\ exported # {} /\ dest \in Dests /\ FilesOf(disk, dest) = before
  BY <1>1 DEF IInv, ExportOK, WritingOK
<1>3. PathsOK(disk') /\ FilesOf(disk', dest) = before
  BY <1>1, <1>2, StagingRemoved
<1>4. ProjectsOK' /\ ExportOK' /\ WritingOK' /\ ClearingOK'
  BY <1>1, <1>2 DEF IInv, ProjectsOK, ExportOK, WritingOK, ClearingOK
<1>5. RestOK'
  BY <1>1, <1>3 DEF RestOK
<1> QED BY <1>3, <1>4, <1>5 DEF IInv

\* When nothing is left to write, everything is there.
LEMMA WrittenKeeps ==
  ASSUME IInv, Written
  PROVE  IInv'
<1>1. /\ phase = "writing" /\ jobs = <<>> /\ phase' = "clearing"
      /\ UNCHANGED <<disk, jobs, project, dest, answer, exported, before, exports>>
  BY DEF Written
<1>2. ToSet(jobs) = {}
  BY <1>1 DEF ToSet
<1>3. WholeBeside(FileNames(Exported))
  BY <1>1, <1>2 DEF IInv, WritingOK, WholeBeside
<1>4. UNCHANGED <<Exported, Staging>>
  BY <1>1 DEF Exported, Staging
<1>5. ClearingOK'
  BY <1>1, <1>3, <1>4 DEF ClearingOK, WholeBeside
<1>6. PathsOK(disk') /\ ProjectsOK' /\ ExportOK' /\ WritingOK' /\ RestOK'
  BY <1>1 DEF IInv, ProjectsOK, ExportOK, Exporting, WritingOK, RestOK
<1> QED BY <1>5, <1>6 DEF IInv

\* What is taken away from the destination was not in the directory beside it.
LEMMA RemoveOldKeeps ==
  ASSUME IInv, NEW path \in Under(dest), RemoveOld(path)
  PROVE  IInv'
<1>1. /\ phase = "clearing" /\ disk' = Only(DOMAIN disk \ {path})
      /\ UNCHANGED <<phase, project, dest, exported, before, exports>>
  BY DEF RemoveOld
<1>2. PathsOK(disk) /\ dest \in Dests /\ WholeBeside(FileNames(Exported))
  BY <1>1 DEF IInv, ExportOK, ClearingOK
<1>3. DOMAIN disk' = DOMAIN disk \ {path}
  BY <1>1 DEF Only
<1>4. PathsOK(disk')
  BY <1>2, <1>3 DEF PathsOK
<1>5. ASSUME NEW n \in FileNames(Exported) PROVE Staging \o n # path
  <2>1. IsSeq(n) /\ IsSeq(Staging)
    BY <1>2, TuplesAreSeq, StagingIsApart DEF FileNames, Staging
  <2>2. IsSeq(Staging \o n) /\ IsPrefix(Staging, Staging \o n)
    BY <2>1, PathInDirectory
  <2>3. ~IsPrefix(dest, Staging \o n)
    BY <1>2, <2>2, StagingIsApart DEF Staging
  <2> QED BY <2>3 DEF Under
<1>6. UNCHANGED <<Exported, Staging>>
  BY <1>1 DEF Exported, Staging
<1>7. ClearingOK'
  BY <1>2, <1>3, <1>5, <1>6 DEF ClearingOK, WholeBeside
<1>8. ProjectsOK' /\ ExportOK' /\ WritingOK' /\ RestOK'
  BY <1>1, <1>2 DEF IInv, ProjectsOK, ExportOK, WritingOK, RestOK
<1> QED BY <1>4, <1>7, <1>8 DEF IInv

LEMMA RemoveFailsKeeps ==
  ASSUME IInv, RemoveFails
  PROVE  IInv'
<1>1. /\ phase = "clearing" /\ phase' = "idle"
      /\ UNCHANGED <<disk, project, dest, exported, before, exports>>
  BY DEF RemoveFails, Stop
<1>2. UNCHANGED <<Exported, Staging>>
  BY <1>1 DEF Exported, Staging
<1>3. WholeBeside(FileNames(Exported))
  BY <1>1 DEF IInv, ClearingOK
<1>4. RestOK'
  BY <1>1, <1>2, <1>3 DEF RestOK, WholeBeside
<1>5. PathsOK(disk') /\ ProjectsOK' /\ ExportOK' /\ WritingOK' /\ ClearingOK'
  BY <1>1 DEF IInv, ProjectsOK, ExportOK, WritingOK, ClearingOK
<1> QED BY <1>4, <1>5 DEF IInv

\* One sequence, then the other.
IsJoin(S, u, v, w) == /\ w \in Seq(S) /\ Len(w) = Len(u) + Len(v)
                      /\ \A i \in 1..Len(u) : w[i] = u[i]
                      /\ \A i \in 1..Len(v) : w[Len(u) + i] = v[i]

LEMMA Joined ==
  ASSUME NEW S, NEW u \in Seq(S), NEW v \in Seq(S)
  PROVE  IsJoin(S, u, v, u \o v)
<1>1. u \o v \in Seq(S) /\ Len(u \o v) = Len(u) + Len(v) /\ Len(u) \in Nat /\ Len(v) \in Nat
  OBVIOUS
<1>2. \A i \in 1..Len(u) + Len(v) : (u \o v)[i] = IF i <= Len(u) THEN u[i] ELSE v[i - Len(u)]
  OBVIOUS
<1>3. ASSUME NEW i \in 1..Len(v) PROVE (u \o v)[Len(u) + i] = v[i]
  <2>1. Len(u) + i \in 1..Len(u) + Len(v) /\ ~(Len(u) + i <= Len(u)) /\ Len(u) + i - Len(u) = i
    BY <1>1
  <2> QED BY <1>2, <2>1
<1> QED BY <1>1, <1>2, <1>3 DEF IsJoin

\* A path in the directory beside the destination, without the first part of its
\* name, is the path in the destination.
LEMMA OutOfStaging ==
  ASSUME NEW d, IsSeq(d), NEW n, IsSeq(n)
  PROVE  LET q == (<<"tmp-bundle">> \o d) \o n IN SubSeq(q, 2, Len(q)) = d \o n
<1> DEFINE S == ToSet(d) \cup ToSet(n) \cup {"tmp-bundle"}
           t == <<"tmp-bundle">>
           td == t \o d
           q == td \o n
           r == SubSeq(q, 2, Len(q))
<1>1. d \in Seq(S) /\ n \in Seq(S) /\ t \in Seq(S) /\ Len(t) = 1
  <2>1. d \in Seq(ToSet(d)) /\ n \in Seq(ToSet(n))
    BY DEF IsSeq
  <2> QED BY <2>1
<1> HIDE DEF S, t
<1>2. Len(d) \in Nat /\ Len(n) \in Nat
  BY <1>1
<1>3. /\ td \in Seq(S) /\ Len(td) = 1 + Len(d)
      /\ \A i \in 1..Len(d) : td[1 + i] = d[i]
  <2>1. IsJoin(S, t, d, td)
    BY <1>1, Joined
  <2> HIDE DEF td
  <2> QED BY <1>1, <2>1 DEF IsJoin
<1> HIDE DEF td
<1>4. /\ q \in Seq(S) /\ Len(q) = 1 + Len(d) + Len(n)
      /\ \A i \in 1..1 + Len(d) : q[i] = td[i]
      /\ \A i \in 1..Len(n) : q[1 + Len(d) + i] = n[i]
  <2>1. IsJoin(S, td, n, q)
    BY <1>1, <1>3, Joined
  <2> HIDE DEF q
  <2> QED BY <1>3, <2>1 DEF IsJoin
<1>5. /\ d \o n \in Seq(S) /\ Len(d \o n) = Len(d) + Len(n)
      /\ \A i \in 1..Len(d) : (d \o n)[i] = d[i]
      /\ \A i \in 1..Len(n) : (d \o n)[Len(d) + i] = n[i]
  BY <1>1, Joined DEF IsJoin
<1> HIDE DEF q
<1> DEFINE m == Len(d) + Len(n)
<1>6. /\ r \in Seq(S) /\ Len(r) = m
      /\ \A i \in 1..m : r[i] = q[1 + i]
  BY <1>2, <1>4
<1> HIDE DEF r
<1>7. ASSUME NEW i \in 1..m PROVE r[i] = (d \o n)[i]
  <2>1. r[i] = q[1 + i]
    BY <1>6
  <2>2. CASE i <= Len(d)
    <3>1. i \in 1..Len(d) /\ 1 + i \in 1..1 + Len(d)
      BY <1>2, <2>2
    <3> QED BY <1>3, <1>4, <1>5, <2>1, <3>1
  <2>3. CASE ~(i <= Len(d))
    <3>1. i - Len(d) \in 1..Len(n) /\ i = Len(d) + (i - Len(d)) /\ 1 + i = 1 + Len(d) + (i - Len(d))
      BY <1>2, <2>3
    <3> DEFINE k == i - Len(d)
    <3> HIDE DEF k
    <3>2. k \in 1..Len(n) /\ i = Len(d) + k /\ 1 + i = 1 + Len(d) + k
      BY <3>1 DEF k
    <3>3. q[1 + i] = n[k] /\ (d \o n)[i] = n[k]
      BY <1>4, <1>5, <3>2
    <3> QED BY <2>1, <3>3
  <2> QED BY <2>2, <2>3
<1> DEFINE dn == d \o n
<1>8. dn \in Seq(S) /\ Len(dn) = m /\ \A i \in 1..m : r[i] = dn[i]
  BY <1>5, <1>7
<1> HIDE DEF dn, m
<1>9. r = dn
  <2>1. r \in [1..Len(r) -> S] /\ dn \in [1..Len(dn) -> S]
    BY <1>6, <1>8
  <2>2. r \in [1..m -> S] /\ dn \in [1..m -> S]
    BY <1>6, <1>8, <2>1
  <2> QED BY <1>8, <2>2
<1> QED BY <1>9 DEF r, q, td, t, dn

LEMMA RenameKeeps ==
  ASSUME IInv, Rename
  PROVE  IInv'
<1>1. /\ phase = "clearing" /\ phase' = "idle" /\ disk' = Moved
      /\ UNCHANGED <<project, dest, exported, before, exports>>
  BY DEF Rename, Stop
<1>2. PathsOK(disk) /\ exported # {} /\ dest \in Dests /\ WholeBeside(FileNames(Exported))
  BY <1>1 DEF IInv, ExportOK, ClearingOK
<1> DEFINE Place(q) == IF IsPrefix(Staging, q) THEN SubSeq(q, 2, Len(q)) ELSE q
<1>3. DOMAIN disk' = {Place(q) : q \in DOMAIN disk}
  BY <1>1 DEF Moved, Staging
<1>4. ASSUME NEW q \in DOMAIN disk PROVE IsSeq(Place(q))
  <2>1. q \in Seq(ToSet(q)) /\ IsSeq(q)
    BY <1>2 DEF PathsOK, IsSeq
  <2>2. SubSeq(q, 2, Len(q)) \in Seq(ToSet(q))
    BY <2>1
  <2> QED BY <2>1, <2>2, SequencesAreSeq
<1>5. PathsOK(disk')
  BY <1>3, <1>4 DEF PathsOK
<1>6. ASSUME NEW n \in FileNames(Exported) PROVE dest \o n \in DOMAIN disk'
  <2>1. IsSeq(n) /\ IsSeq(dest) /\ IsSeq(Staging) /\ Staging = <<"tmp-bundle">> \o dest
    BY <1>2, TuplesAreSeq, StagingIsApart DEF FileNames, Staging
  <2>2. IsPrefix(Staging, Staging \o n)
    BY <2>1, PathInDirectory
  <2>3. SubSeq(Staging \o n, 2, Len(Staging \o n)) = dest \o n
    BY <2>1, OutOfStaging
  <2>4. Staging \o n \in DOMAIN disk
    BY <1>2 DEF WholeBeside
  <2> QED BY <1>3, <2>2, <2>3, <2>4
<1>7. UNCHANGED Exported
  BY <1>1 DEF Exported
<1>8. RestOK'
  BY <1>1, <1>6, <1>7 DEF RestOK
<1>9. ProjectsOK' /\ ExportOK' /\ WritingOK' /\ ClearingOK'
  BY <1>1, <1>2 DEF IInv, ProjectsOK, ExportOK, WritingOK, ClearingOK
<1> QED BY <1>5, <1>8, <1>9 DEF IInv

LEMMA RenameFailsKeeps ==
  ASSUME IInv, RenameFails
  PROVE  IInv'
<1>1. /\ phase' = "idle" /\ answer' = "SwapFailed" /\ phase = "clearing"
      /\ disk' = Only(DOMAIN disk \ Under(StagingDirFor(dest)))
      /\ UNCHANGED <<project, dest, exported, before, exports>>
  BY DEF RenameFails, Stop
<1>2. PathsOK(disk) /\ exported # {} /\ dest \in Dests
  BY <1>1 DEF IInv, ExportOK
<1>3. PathsOK(disk')
  BY <1>1, <1>2, StagingRemoved
<1>4. ProjectsOK' /\ ExportOK' /\ WritingOK' /\ ClearingOK' /\ RestOK'
  BY <1>1, <1>2 DEF IInv, ProjectsOK, ExportOK, WritingOK, ClearingOK, RestOK
<1> QED BY <1>3, <1>4 DEF IInv

LEMMA CrashKeeps ==
  ASSUME IInv, Crash
  PROVE  IInv'
<1>1. /\ phase \in {"writing", "clearing"} /\ phase' = "idle" /\ project' = {}
      /\ UNCHANGED <<disk, dest, exported, before, exports>>
  BY DEF Crash, Exporting
<1>2. UNCHANGED <<Exported, Staging>>
  BY <1>1 DEF Exported, Staging
<1>3. RestOK'
  BY <1>1, <1>2 DEF IInv, WritingOK, ClearingOK, WholeBeside, RestOK
<1>4. PathsOK(disk') /\ ProjectsOK' /\ ExportOK' /\ WritingOK' /\ ClearingOK'
  BY <1>1 DEF IInv, ProjectsOK, ExportOK, WritingOK, ClearingOK
<1> QED BY <1>3, <1>4 DEF IInv

LEMMA NextIInv ==
  ASSUME IInv, [Next]_vars
  PROVE  IInv'
<1>1. ASSUME NEW p \in Presets, Import(p) PROVE IInv'
  BY <1>1, ImportKeeps
<1>2. ASSUME NEW pass \in NewPasses, AppendPass(pass) PROVE IInv'
  BY <1>2, AppendPassKeeps
<1>3. ASSUME NEW s \in NewSettings, SetPassSettings(s) PROVE IInv'
  BY <1>3, SetPassSettingsKeeps
<1>4. ASSUME NEW d \in Dests, NEW threaded \in BOOLEAN, Export(d, threaded) PROVE IInv'
  BY <1>4, ExportKeeps
<1>5. CASE Step
  <2>1. ASSUME NEW p \in Under(dest), RemoveOld(p) PROVE IInv'
    BY <2>1, RemoveOldKeeps
  <2> QED BY <1>5, <2>1, WriteNextKeeps, WriteFailsKeeps, WrittenKeeps, RemoveFailsKeeps,
             RenameKeeps, RenameFailsKeeps DEF Step
<1>6. CASE Crash
  BY <1>6, CrashKeeps
<1>7. CASE UNCHANGED vars
  <2>1. UNCHANGED <<disk, project, phase, jobs, dest, answer, exported, before, exports>>
    BY <1>7 DEF vars
  <2>2. UNCHANGED <<Exported, Staging>>
    BY <2>1 DEF Exported, Staging
  <2> QED BY <2>1, <2>2 DEF IInv, ProjectsOK, ExportOK, WritingOK, ClearingOK, RestOK, WholeBeside
<1> QED BY <1>1, <1>2, <1>3, <1>4, <1>5, <1>6, <1>7 DEF Next

\* Whatever fails and whenever the process ends, the destination holds what it held
\* before the export, or the whole new bundle is beside it or in its place
\* (export_preset, export.rs:31).
THEOREM SomeBundleAlwaysSurvives == Spec => []SomeBundleSurvives
<1>1. Init => IInv
  BY InitIInv
<1>2. IInv /\ [Next]_vars => IInv'
  BY NextIInv
<1>3. IInv => SomeBundleSurvives
  BY SomeBundleIsThere
<1> QED BY <1>1, <1>2, <1>3, PTL DEF Spec

-----------------------------------------------------------------------------
(* Loading a preset into the preview. *)

IsRun(e, commands, at) ==
    at[0] = e /\ \A k \in 1..Len(commands) : at[k] = Apply(at[k - 1], commands[k])

\* The commands are applied one after the other.
LEMMA CommandsRun ==
  ASSUME NEW e, NEW commands, Len(commands) \in Nat
  PROVE  \E at : IsRun(e, commands, at) /\ Drained(e, commands) = at[Len(commands)]
<1> DEFINE n == Len(commands)
           Turn(s, k) == Through(s, LAMBDA x : Apply(x, commands[k]))
           Is(g) == g = [k \in 0..n |-> IF k = 0 THEN e ELSE Turn(g[k-1], k)]
           at == CHOOSE g : Is(g)
           Run(g, m) == DOMAIN g = 0..m /\ g[0] = e /\ \A k \in 1..m : g[k] = Turn(g[k-1], k)
           Bad == {m \in 0..n : ~ \E g : Run(g, m)}
<1>1. Drained(e, commands) = at[n]
  BY DEF Drained, Loop
<1>2. ASSUME NEW s, NEW k PROVE Turn(s, k) = Apply(s, commands[k])
  <2>1. Turn(s, k) = CHOOSE r \in {Apply(x, commands[k]) : x \in {s}} : TRUE
    BY DEF Through
  <2> HIDE DEF Turn
  <2>2. {Apply(x, commands[k]) : x \in {s}} = {Apply(s, commands[k])}
    OBVIOUS
  <2> QED BY <2>1, <2>2
<1> HIDE DEF Turn
<1>3. n \in Nat
  OBVIOUS
<1> HIDE DEF n
<1>4. ASSUME Bad # {} PROVE FALSE
  <2>1. PICK m \in Bad : \A j \in Bad : m <= j
    <3>1. Bad \in SUBSET Nat
      OBVIOUS
    <3> HIDE DEF Bad
    <3> QED BY <1>4, <3>1, LeastNumber, Zenon
  <2>2. CASE m = 0
    <3> DEFINE g == [k \in 0..0 |-> e]
    <3>1. DOMAIN g = 0..0 /\ g[0] = e
      OBVIOUS
    <3>2. Run(g, 0)
      BY <3>1
    <3> QED BY <2>1, <2>2, <3>2
  <2>3. CASE m # 0
    <3>1. m \in 1..n /\ m - 1 \in 0..n /\ m \in Nat
      BY <1>3, <2>1, <2>3
    <3>2. m - 1 \notin Bad
      BY <2>1, <3>1
    <3>3. PICK g : Run(g, m - 1)
      BY <3>1, <3>2
    <3> DEFINE h == [k \in 0..m |-> IF k = m THEN Turn(g[m-1], m) ELSE g[k]]
    <3>4. DOMAIN h = 0..m /\ h[m] = Turn(g[m-1], m) /\ \A k \in 0..m-1 : h[k] = g[k]
      BY <3>1
    <3> HIDE DEF h
    <3>5. h[0] = e
      BY <3>1, <3>3, <3>4
    <3>6. ASSUME NEW k \in 1..m PROVE h[k] = Turn(h[k-1], k)
      <4>1. h[k-1] = g[k-1]
        BY <3>1, <3>4
      <4>2. CASE k = m
        BY <3>4, <4>1, <4>2
      <4>3. CASE k # m
        <5>1. k \in 1..m-1 /\ k \in 0..m-1
          BY <3>1, <4>3
        <5> QED BY <3>3, <3>4, <4>1, <5>1
      <4> QED BY <4>2, <4>3
    <3>7. Run(h, m)
      BY <3>4, <3>5, <3>6
    <3> QED BY <2>1, <3>7
  <2> QED BY <2>2, <2>3
<1>5. PICK g : Run(g, n)
  BY <1>3, <1>4
<1>6. Is([k \in 0..n |-> g[k]])
  <2> DEFINE h == [k \in 0..n |-> g[k]]
  <2>1. \A k \in 0..n : h[k] = IF k = 0 THEN e ELSE Turn(h[k-1], k)
    <3> TAKE k \in 0..n
    <3>1. CASE k = 0
      BY <1>3, <1>5, <3>1
    <3>2. CASE k # 0
      <4>1. k \in 1..n /\ k - 1 \in 0..n
        BY <1>3, <3>2
      <4> QED BY <1>5, <3>2, <4>1
    <3> QED BY <3>1, <3>2
  <2>2. h = [k \in 0..n |-> h[k]]
    OBVIOUS
  <2> HIDE DEF h
  <2>3. Is(h)
    BY <2>1, <2>2
  <2> QED BY <2>3 DEF h
<1>7. Is(at)
  BY <1>6
<1> HIDE DEF at
<1>8. \A k \in 0..n : at[k] = IF k = 0 THEN e ELSE Turn(at[k-1], k)
  BY <1>7
<1>9. at[0] = e /\ \A k \in 1..n : at[k] = Apply(at[k-1], commands[k])
  <2>1. 0 \in 0..n /\ \A k \in 1..n : k \in 0..n /\ k # 0
    BY <1>3
  <2> QED BY <1>2, <1>8, <2>1
<1>10. IsRun(e, commands, at)
  BY <1>9 DEF IsRun, n
<1> QED BY <1>1, <1>10 DEF n

IsEngine(e) == e = [luts |-> e.luts, chain |-> e.chain, store |-> e.store]

\* The parameters of a chain at their defaults.
Collected(chain) == Store!Collect([k \in DOMAIN chain |-> chain[k].parameters], [n \in {} |-> <<>>])

LEMMA EachCommand ==
  ASSUME NEW e, IsEngine(e)
  PROVE  /\ \A luts : /\ IsEngine(Apply(e, SetLuts(luts)))
                      /\ Apply(e, SetLuts(luts)).luts = ToSet(luts)
         /\ \A chain : /\ IsEngine(Apply(e, SetChain(chain)))
                       /\ Apply(e, SetChain(chain)).luts = e.luts
                       /\ Apply(e, SetChain(chain)).chain = chain
                       /\ Apply(e, SetChain(chain)).store = Collected(chain)
         /\ \A overrides : /\ IsEngine(Apply(e, ApplyParameterOverrides(overrides)))
                           /\ Apply(e, ApplyParameterOverrides(overrides)).chain = e.chain
<1>1. ASSUME NEW luts
      PROVE  IsEngine(Apply(e, SetLuts(luts))) /\ Apply(e, SetLuts(luts)).luts = ToSet(luts)
  <2>1. Apply(e, SetLuts(luts)) = [e EXCEPT !.luts = ToSet(luts)]
    BY DEF Apply, SetLuts
  <2> QED BY <2>1 DEF IsEngine
<1>2. ASSUME NEW chain
      PROVE  /\ IsEngine(Apply(e, SetChain(chain)))
             /\ Apply(e, SetChain(chain)).luts = e.luts
             /\ Apply(e, SetChain(chain)).chain = chain
             /\ Apply(e, SetChain(chain)).store = Collected(chain)
  <2>1. Apply(e, SetChain(chain)) = [e EXCEPT !.chain = chain, !.store = Collected(chain)]
    BY DEF Apply, SetChain, Collected
  <2> QED BY <2>1 DEF IsEngine
<1>3. ASSUME NEW overrides
      PROVE  /\ IsEngine(Apply(e, ApplyParameterOverrides(overrides)))
             /\ Apply(e, ApplyParameterOverrides(overrides)).chain = e.chain
  <2> DEFINE ids == SetToSeq(DOMAIN overrides)
             s == Store!ApplyOverrides(e.store, [k \in DOMAIN ids |-> [name |-> ids[k], value |-> overrides[ids[k]]]])
  <2>1. Apply(e, ApplyParameterOverrides(overrides)) = [e EXCEPT !.store = s]
    BY DEF Apply, ApplyParameterOverrides
  <2> HIDE DEF s
  <2> QED BY <2>1 DEF IsEngine
<1> QED BY <1>1, <1>2, <1>3

IsLoad(load) ==
    \E luts, chain, overrides :
        \/ load = <<SetLuts(luts), SetChain(chain)>>
        \/ load = <<SetLuts(luts), SetChain(chain), ApplyParameterOverrides(overrides)>>

LEMMA LoadsAreLoads ==
  ASSUME NEW files, NEW path, NEW load \in LoadPreset(files, path)
  PROVE  /\ CanImport(files, path)
         /\ \E preset \in {ParseSlangp(MapAt(files, path), Dir(path))} :
                CanLoadChain(files, preset) /\ load[2] = SetChain(CompilePresetChain(files, preset))
         /\ IsLoad(load)
<1>1. CanImport(files, path)
  BY DEF LoadPreset
<1> DEFINE preset == ParseSlangp(MapAt(files, path), Dir(path))
           G(p) == IF CanLoadChain(files, p) /\ \A l \in ToSet(p.luts) : OnDisk(files, l.path)
                   THEN {LoadCommands(files, p)} ELSE {}
<1>2. load \in UNION {G(p) : p \in {preset}}
  BY <1>1 DEF LoadPreset
<1> HIDE DEF preset, G
<1>3. load \in G(preset)
  BY <1>2
<1>4. CanLoadChain(files, preset) /\ load = LoadCommands(files, preset)
  BY <1>3 DEF G
<1>5. IsLoad(load) /\ load[2] = SetChain(CompilePresetChain(files, preset))
  <2> DEFINE a == SetLuts(CompilePresetLuts(preset))
             b == SetChain(CompilePresetChain(files, preset))
             c == ApplyParameterOverrides(preset.overrides)
  <2>1. \/ load = <<a, b>> \o <<>>
        \/ load = <<a, b>> \o <<c>>
    BY <1>4 DEF LoadCommands
  <2>2. <<a, b>> \o <<>> = <<a, b>> /\ <<a, b>> \o <<c>> = <<a, b, c>>
    <3> DEFINE S == {a, b, c}
    <3> HIDE DEF a, b, c
    <3>1. <<a, b>> \in Seq(S) /\ <<c>> \in Seq(S) /\ <<a, b, c>> \in Seq(S)
      OBVIOUS
    <3>2. <<a, b>> \o <<c>> \in Seq(S) /\ Len(<<a, b>> \o <<c>>) = 3
      BY <3>1
    <3>3. \A k \in 1..3 : (<<a, b>> \o <<c>>)[k] = <<a, b, c>>[k]
      BY <3>1
    <3>4. Len(<<a, b, c>>) = 3
      OBVIOUS
    <3> DEFINE joined == <<a, b>> \o <<c>>
               triple == <<a, b, c>>
    <3>5. /\ joined \in Seq(S) /\ Len(joined) = 3 /\ triple \in Seq(S) /\ Len(triple) = 3
          /\ \A k \in 1..3 : joined[k] = triple[k]
      BY <3>1, <3>2, <3>3, <3>4
    <3> HIDE DEF joined, triple
    <3>6. joined = triple
      BY <3>5
    <3> QED BY <3>1, <3>6 DEF joined, triple
  <2>3. load = <<a, b>> \/ load = <<a, b, c>>
    <3> HIDE DEF a, b, c
    <3> QED BY <2>1, <2>2
  <2>4. load[2] = b
    <3> HIDE DEF a, b, c
    <3> QED BY <2>3
  <2> QED BY <2>3, <2>4 DEF IsLoad
<1> QED BY <1>1, <1>4, <1>5 DEF preset

\* What an engine is after a load does not depend on what it was before.
LEMMA LoadForgets ==
  ASSUME NEW load, IsLoad(load), NEW a, IsEngine(a), NEW b, IsEngine(b),
         NEW a1, a1 = Apply(a, load[1]), NEW a2, a2 = Apply(a1, load[2]),
         NEW b1, b1 = Apply(b, load[1]), NEW b2, b2 = Apply(b1, load[2])
  PROVE  /\ a2 = b2 /\ IsEngine(a2) /\ load[2].op = "SetChain" /\ a2.chain = load[2].chain
         /\ Len(load) \in {2, 3}
         /\ Len(load) = 3 => IsEngine(Apply(a2, load[3]))
         /\ Len(load) = 3 => Apply(a2, load[3]).chain = a2.chain
<1>1. PICK luts, chain, overrides :
        \/ load = <<SetLuts(luts), SetChain(chain)>>
        \/ load = <<SetLuts(luts), SetChain(chain), ApplyParameterOverrides(overrides)>>
  BY DEF IsLoad
<1>2. /\ load[1] = SetLuts(luts) /\ load[2] = SetChain(chain) /\ Len(load) \in {2, 3}
      /\ Len(load) = 3 => load[3] = ApplyParameterOverrides(overrides)
  BY <1>1
<1>3. a1 = Apply(a, SetLuts(luts)) /\ b1 = Apply(b, SetLuts(luts))
  BY <1>2
<1>4. IsEngine(a1) /\ IsEngine(b1) /\ a1.luts = ToSet(luts) /\ b1.luts = ToSet(luts)
  BY <1>3, EachCommand
<1>8. a2 = Apply(a1, SetChain(chain)) /\ b2 = Apply(b1, SetChain(chain))
  BY <1>2
<1>9. /\ IsEngine(a2) /\ a2.luts = a1.luts /\ a2.chain = chain /\ a2.store = Collected(chain)
      /\ IsEngine(b2) /\ b2.luts = b1.luts /\ b2.chain = chain /\ b2.store = Collected(chain)
  BY <1>4, <1>8, EachCommand
<1>5. a2 = b2
  BY <1>4, <1>9 DEF IsEngine
<1>6. load[2].op = "SetChain" /\ load[2].chain = chain
  BY <1>2 DEF SetChain
<1>7. Len(load) = 3 => IsEngine(Apply(a2, load[3])) /\ Apply(a2, load[3]).chain = a2.chain
  <2>1. Len(load) = 3 => Apply(a2, load[3]) = Apply(a2, ApplyParameterOverrides(overrides))
    BY <1>2
  <2>2. /\ IsEngine(Apply(a2, ApplyParameterOverrides(overrides)))
        /\ Apply(a2, ApplyParameterOverrides(overrides)).chain = a2.chain
    BY <1>9, EachCommand
  <2> QED BY <2>1, <2>2
<1> QED BY <1>2, <1>5, <1>6, <1>7, <1>9

LEMMA FreshIsEngine == IsEngine(Fresh)
BY DEF IsEngine, Fresh


\* An engine stays an engine, whatever is loaded.
LEMMA LoadKeepsEngines ==
  ASSUME NEW load, IsLoad(load), NEW e, IsEngine(e), NEW at, IsRun(e, load, at)
  PROVE  IsEngine(at[Len(load)])
<1>1. /\ Len(load) \in {2, 3} /\ at[0] = e /\ at[1] = Apply(at[0], load[1]) /\ at[2] = Apply(at[1], load[2])
      /\ Len(load) = 3 => at[3] = Apply(at[2], load[3])
  <2>1. Len(load) \in {2, 3}
    BY DEF IsLoad
  <2>2. 1 \in 1..Len(load) /\ 2 \in 1..Len(load) /\ (Len(load) = 3 => 3 \in 1..Len(load))
    BY <2>1
  <2>3. at[0] = e /\ \A k \in 1..Len(load) : at[k] = Apply(at[k - 1], load[k])
    BY DEF IsRun
  <2> QED BY <2>1, <2>2, <2>3
<1>2. IsEngine(at[2]) /\ (Len(load) = 3 => IsEngine(Apply(at[2], load[3])))
  BY <1>1, LoadForgets
<1> QED BY <1>1, <1>2

LEMMA LoadAfterLoad ==
  ASSUME NEW last, IsLoad(last), NEW load, IsLoad(load)
  PROVE  Drained(Fresh, last \o load) = Drained(Fresh, load)
<1> DEFINE m == Len(last)
           n == Len(load)
           S == {last[k] : k \in 1..m} \cup {load[k] : k \in 1..n}
           both == last \o load
<1>1. m \in {2, 3} /\ n \in {2, 3} /\ last \in Seq(S) /\ load \in Seq(S)
  <2>1. ASSUME NEW s, IsLoad(s) PROVE Len(s) \in {2, 3} /\ s = [k \in 1..Len(s) |-> s[k]]
    <3>1. PICK a, b, c : s = <<a, b>> \/ s = <<a, b, c>>
      BY <2>1 DEF IsLoad
    <3> QED BY <3>1
  <2>2. m \in {2, 3} /\ n \in {2, 3} /\ last = [k \in 1..m |-> last[k]] /\ load = [k \in 1..n |-> load[k]]
    BY <2>1
  <2> HIDE DEF m, n
  <2>3. last \in [1..m -> S] /\ load \in [1..n -> S] /\ m \in Nat /\ n \in Nat
    BY <2>2
  <2> HIDE DEF S
  <2>4. last \in Seq(S) /\ load \in Seq(S)
    BY <2>3
  <2> QED BY <2>2, <2>4
<1>2. /\ Len(both) = m + n
      /\ \A k \in 1..m : both[k] = last[k]
      /\ \A k \in 1..n : both[m + k] = load[k]
  BY <1>1, Joined DEF IsJoin
<1> HIDE DEF both, S
<1>3. PICK at : IsRun(Fresh, both, at) /\ Drained(Fresh, both) = at[Len(both)]
  BY <1>1, <1>2, CommandsRun
<1>4. PICK bt : IsRun(Fresh, load, bt) /\ Drained(Fresh, load) = bt[Len(load)]
  BY <1>1, CommandsRun
<1>5. \A k \in 1..m + n : at[k] = Apply(at[k - 1], both[k])
  BY <1>2, <1>3 DEF IsRun
<1>6. IsRun(Fresh, last, at)
  BY <1>1, <1>2, <1>3, <1>5 DEF IsRun
<1>7. IsEngine(at[m])
  BY <1>6, FreshIsEngine, LoadKeepsEngines
<1>8. /\ at[m + 1] = Apply(at[m], load[1]) /\ at[m + 2] = Apply(at[m + 1], load[2])
      /\ n = 3 => at[m + 3] = Apply(at[m + 2], load[3])
  <2>1. ASSUME NEW k \in 1..n PROVE at[m + k] = Apply(at[m + k - 1], load[k])
    <3>1. m + k \in 1..m + n
      BY <1>1
    <3> QED BY <1>2, <1>5, <3>1
  <2>2. 1 \in 1..n /\ 2 \in 1..n /\ (n = 3 => 3 \in 1..n)
    BY <1>1
  <2>3. m + 1 - 1 = m /\ m + 2 - 1 = m + 1 /\ m + 3 - 1 = m + 2
    BY <1>1
  <2> HIDE DEF m, n
  <2> QED BY <2>1, <2>2, <2>3
<1>9. /\ bt[0] = Fresh /\ bt[1] = Apply(bt[0], load[1]) /\ bt[2] = Apply(bt[1], load[2])
      /\ n = 3 => bt[3] = Apply(bt[2], load[3])
  <2>1. 1 \in 1..n /\ 2 \in 1..n /\ (n = 3 => 3 \in 1..n)
    BY <1>1
  <2>2. bt[0] = Fresh /\ \A k \in 1..n : bt[k] = Apply(bt[k - 1], load[k])
    BY <1>4 DEF IsRun
  <2> QED BY <2>1, <2>2
<1>10. at[m + 2] = bt[2]
  BY <1>7, <1>8, <1>9, FreshIsEngine, LoadForgets
<1>11. at[m + n] = bt[n]
  BY <1>1, <1>8, <1>9, <1>10
<1> QED BY <1>2, <1>3, <1>4, <1>11 DEF both

-----------------------------------------------------------------------------
(* The settings the importer keeps of a pass. *)

AtMostOne(S) == S = {} \/ \E x : S = {x}

ScaleTypeKeys == {"scale_type", "scale_type_x", "scale_type_y"}
ScaleFactorKeys == {"scale", "scale_x", "scale_y"}

\* A key of a pass has at most one value.
LEMMA KeysAreOptions ==
  ASSUME NEW map, NEW n, NEW base
  PROVE  \A f \in ScaleTypeKeys \cup ScaleFactorKeys : AtMostOne(ParsePass(map, n, base).keys[f])
<1>1. ASSUME NEW key PROVE AtMostOne(Opt(map, key, "float")) /\ AtMostOne(Opt(map, key, "type"))
  <2>1. ASSUME NEW v PROVE AtMostOne(Float(v))
    BY DEF Float, AtMostOne
  <2>2. ASSUME NEW v PROVE AtMostOne({Word(v)} \cap ScaleTypes)
    <3> DEFINE w == Word(v)
    <3> HIDE DEF w
    <3>1. {w} \cap ScaleTypes = {} \/ {w} \cap ScaleTypes = {w}
      OBVIOUS
    <3> QED BY <3>1 DEF AtMostOne, w
  <2>3. Read("float", map[key]) = Float(map[key]) /\ Read("type", map[key]) = {Word(map[key])} \cap ScaleTypes
    BY DEF Read
  <2>4. AtMostOne({})
    BY DEF AtMostOne
  <2> QED BY <2>1, <2>2, <2>3, <2>4 DEF Opt
<1>2. ASSUME NEW f \in ScaleTypeKeys \cup ScaleFactorKeys
      PROVE  f \in DOMAIN PassFields /\ PassFields[f] \in {"float", "type"}
  BY DEF ScaleTypeKeys, ScaleFactorKeys, PassFields
<1>3. ASSUME NEW f \in ScaleTypeKeys \cup ScaleFactorKeys
      PROVE  ParsePass(map, n, base).keys[f] = Opt(map, <<f, n>>, PassFields[f])
  BY <1>2 DEF ParsePass
<1> QED BY <1>1, <1>2, <1>3

\* A size the importer keeps is the size the engine reads.
LEMMA SameAxis ==
  ASSUME NEW type, AtMostOne(type), NEW factor, AtMostOne(factor),
         AxisScale(type, factor).type = "absolute" => Trunc(AxisScale(type, factor).factor) = AxisScale(type, factor).factor
  PROVE  LET axis == MapScaleAxis(type, factor)
         IN  /\ AxisScale(axis.type, axis.scale) = AxisScale(type, factor)
             /\ axis.type = type /\ (axis.scale = {} <=> factor = {})
<1> DEFINE axis == MapScaleAxis(type, factor)
<1>1. axis.type = type /\ axis.scale = IF type = {"absolute"} THEN {Trunc(f) : f \in factor} ELSE factor
  BY DEF MapScaleAxis
<1>2. CASE type # {"absolute"} \/ factor = {}
  <2>1. axis.scale = factor
    BY <1>1, <1>2
  <2> QED BY <1>1, <2>1
<1>3. CASE type = {"absolute"} /\ factor # {}
  <2>1. PICK h : factor = {h}
    BY <1>3 DEF AtMostOne
  <2>2. One(type, "source") = "absolute" /\ One(factor, 2) = h
    BY <1>3, <2>1 DEF One
  <2>3. AxisScale(type, factor).type = "absolute" /\ AxisScale(type, factor).factor = h
    BY <2>2 DEF AxisScale
  <2>4. {Trunc(f) : f \in factor} = {h}
    BY <2>1, <2>3
  <2>5. axis.scale = factor
    BY <1>1, <1>3, <2>1, <2>4
  <2> QED BY <1>1, <2>5
<1> QED BY <1>2, <1>3

LEMMA SameScale ==
  ASSUME NEW pass, \A f \in ScaleTypeKeys \cup ScaleFactorKeys : AtMostOne(pass.keys[f]),
         \A s \in ScaleConfig(pass) : \A axis \in {s.x, s.y} :
             axis.type = "absolute" => Trunc(axis.factor) = axis.factor
  PROVE  ModelScaleConfig(MapSettings(pass)) = ScaleConfig(pass)
<1> DEFINE s == MapSettings(pass)
           tx == ScaleTypeX(pass)
           ty == ScaleTypeY(pass)
           fx == ScaleFactorX(pass)
           fy == ScaleFactorY(pass)
<1>1. AtMostOne(tx) /\ AtMostOne(ty) /\ AtMostOne(fx) /\ AtMostOne(fy)
  BY DEF ScaleTypeX, ScaleTypeY, ScaleFactorX, ScaleFactorY, ScaleTypeKeys, ScaleFactorKeys
<1>2. s.scale_x = MapScaleAxis(tx, fx) /\ s.scale_y = MapScaleAxis(ty, fy)
  BY DEF MapSettings
<1>3. ~ HasScale(pass) <=> tx \cup ty = {} /\ fx \cup fy = {}
  BY DEF HasScale, ScaleTypeX, ScaleTypeY, ScaleFactorX, ScaleFactorY
<1> HIDE DEF s, tx, ty, fx, fy
<1>4. CASE ~ HasScale(pass)
  <2>1. tx = {} /\ ty = {} /\ fx = {} /\ fy = {}
    BY <1>3, <1>4
  <2>2. s.scale_x.type = {} /\ s.scale_y.type = {} /\ s.scale_x.scale = {} /\ s.scale_y.scale = {}
    BY <1>2, <2>1 DEF MapScaleAxis
  <2>3. ModelScaleConfig(s) = {}
    BY <2>2 DEF ModelScaleConfig
  <2>4. ScaleConfig(pass) = {}
    BY <1>4 DEF ScaleConfig
  <2> QED BY <2>3, <2>4 DEF s
<1>5. CASE HasScale(pass)
  <2>1. ScaleConfig(pass) = {[x |-> AxisScale(tx, fx), y |-> AxisScale(ty, fy)]}
    BY <1>5 DEF ScaleConfig, tx, ty, fx, fy
  <2>2. /\ AxisScale(tx, fx).type = "absolute" => Trunc(AxisScale(tx, fx).factor) = AxisScale(tx, fx).factor
        /\ AxisScale(ty, fy).type = "absolute" => Trunc(AxisScale(ty, fy).factor) = AxisScale(ty, fy).factor
    BY <2>1
  <2>3. /\ AxisScale(s.scale_x.type, s.scale_x.scale) = AxisScale(tx, fx)
        /\ AxisScale(s.scale_y.type, s.scale_y.scale) = AxisScale(ty, fy)
        /\ s.scale_x.type = tx /\ s.scale_y.type = ty
        /\ (s.scale_x.scale = {} <=> fx = {}) /\ (s.scale_y.scale = {} <=> fy = {})
    BY <1>1, <1>2, <2>2, SameAxis
  <2>4. ~ (s.scale_x.type \cup s.scale_y.type = {} /\ s.scale_x.scale \cup s.scale_y.scale = {})
    BY <1>3, <1>5, <2>3
  <2>5. ModelScaleConfig(s) = {[x |-> AxisScale(tx, fx), y |-> AxisScale(ty, fy)]}
    BY <2>3, <2>4 DEF ModelScaleConfig
  <2> QED BY <2>1, <2>5 DEF s
<1> QED BY <1>4, <1>5

\* Pass by pass, from the file and from the settings of the project.
LEMMA SamePass ==
  ASSUME NEW pass, NEW source, ModelScaleConfig(MapSettings(pass)) = ScaleConfig(pass)
  PROVE  PassFromSettings(NewPass(ScanParameters(source)), MapSettings(pass))
           = WithOptions(NewPass(ScanParameters(source)), ScaleConfig(pass), pass.keys)
<1> DEFINE s == MapSettings(pass)
<1>1. /\ s.filter_linear = pass.keys.filter_linear /\ s.wrap_mode = pass.keys.wrap_mode
      /\ s.mipmap_input = pass.keys.mipmap_input /\ s.float_framebuffer = pass.keys.float_framebuffer
      /\ s.srgb_framebuffer = pass.keys.srgb_framebuffer /\ s.alias = pass.keys.alias
      /\ s.frame_count_mod = pass.keys.frame_count_mod
  BY DEF MapSettings
<1> HIDE DEF s
<1>2. WithOptions(NewPass(ScanParameters(source)), ScaleConfig(pass), s)
        = WithOptions(NewPass(ScanParameters(source)), ScaleConfig(pass), pass.keys)
  BY <1>1 DEF WithOptions
<1> QED BY <1>2 DEF PassFromSettings, s

-----------------------------------------------------------------------------
(* The editor's import of a preset. *)

\* A chain alone: what the editor sends.
LEMMA ChainAlone ==
  ASSUME NEW chain
  PROVE  Drained(Fresh, <<SetChain(chain)>>).chain = chain
<1> DEFINE c == <<SetChain(chain)>>
<1>1. Len(c) = 1 /\ c[1] = SetChain(chain)
  OBVIOUS
<1>2. PICK at : IsRun(Fresh, c, at) /\ Drained(Fresh, c) = at[Len(c)]
  BY <1>1, CommandsRun
<1>3. at[1] = Apply(Fresh, SetChain(chain))
  BY <1>1, <1>2 DEF IsRun
<1> QED BY <1>1, <1>2, <1>3, FreshIsEngine, EachCommand

LEMMA ChainOfLoad ==
  ASSUME NEW load, IsLoad(load)
  PROVE  Drained(Fresh, load).chain = load[2].chain
<1>1. Len(load) \in {2, 3}
  BY DEF IsLoad
<1>2. PICK at : IsRun(Fresh, load, at) /\ Drained(Fresh, load) = at[Len(load)]
  BY <1>1, CommandsRun
<1>3. 1 \in 1..Len(load) /\ 2 \in 1..Len(load) /\ (Len(load) = 3 => 3 \in 1..Len(load))
  BY <1>1
<1>4. /\ at[0] = Fresh /\ at[1] = Apply(at[0], load[1]) /\ at[2] = Apply(at[1], load[2])
      /\ Len(load) = 3 => at[3] = Apply(at[2], load[3])
  <2>1. at[0] = Fresh /\ \A k \in 1..Len(load) : at[k] = Apply(at[k - 1], load[k])
    BY <1>2 DEF IsRun
  <2> QED BY <1>3, <2>1
<1>5. /\ at[2].chain = load[2].chain
      /\ Len(load) = 3 => Apply(at[2], load[3]).chain = at[2].chain
  BY <1>4, FreshIsEngine, LoadForgets
<1> QED BY <1>1, <1>2, <1>4, <1>5

\* The source of an imported pass, without its directory.
LEMMA SelfContainedCompiles ==
  ASSUME NEW source, Compiles(source, TRUE), ~ SourceHasInclude(source)
  PROVE  Compiles(source, FALSE)
BY DEF Compiles, SourceHasInclude

LEMMA EditorTakesThePreset ==
  ASSUME NEW path
  PROVE  EditorChains(path, WholeSizes)
<1> DEFINE preset == ParseSlangp(MapAt(disk, path), Dir(path))
           imported == ImportPreset(disk, path)
           source(k) == SourceAt(disk, preset.passes[k].shader)
<1>1. SUFFICES ASSUME NEW load \in LoadPreset(disk, path),
                      NEW chain, chain = Drained(Fresh, load).chain,
                      WholeSizes(chain), SelfContained(imported.passes)
               PROVE  \E edit \in LoadChainSources(imported.passes) : Drained(Fresh, edit).chain = chain
  BY DEF EditorChains
<1>2. CanLoadChain(disk, preset) /\ load[2] = SetChain(CompilePresetChain(disk, preset)) /\ IsLoad(load)
  BY LoadsAreLoads
<1>3. chain = CompilePresetChain(disk, preset)
  BY <1>1, <1>2, ChainOfLoad DEF SetChain
<1>4. /\ DOMAIN imported.passes = DOMAIN preset.passes
      /\ \A k \in DOMAIN preset.passes :
            imported.passes[k].source = source(k) /\ imported.passes[k].settings = MapSettings(preset.passes[k])
  BY DEF ImportPreset, ImportParsedPreset
<1>5. ASSUME NEW k \in DOMAIN preset.passes
      PROVE  /\ Compiles(source(k), FALSE)
             /\ PassFromSettings(NewPass(ScanParameters(source(k))), MapSettings(preset.passes[k])) = chain[k]
  <2>1. Compiles(source(k), TRUE)
    BY <1>2 DEF CanLoadChain, ToSet
  <2>2. ~ SourceHasInclude(source(k))
    BY <1>1, <1>4 DEF SelfContained
  <2>3. Compiles(source(k), FALSE)
    BY <2>1, <2>2, SelfContainedCompiles
  <2>4. \A f \in ScaleTypeKeys \cup ScaleFactorKeys : AtMostOne(preset.passes[k].keys[f])
    BY KeysAreOptions DEF ParseSlangp
  <2>5. k \in DOMAIN chain
        /\ chain[k] = WithOptions(NewPass(ScanParameters(source(k))), ScaleConfig(preset.passes[k]), preset.passes[k].keys)
    BY <1>3 DEF CompilePresetChain
  <2>6. chain[k].scale = ScaleConfig(preset.passes[k])
    BY <2>5 DEF WithOptions, NewPass
  <2>7. ModelScaleConfig(MapSettings(preset.passes[k])) = ScaleConfig(preset.passes[k])
    BY <1>1, <2>4, <2>5, <2>6, SameScale DEF WholeSizes
  <2> QED BY <2>3, <2>5, <2>7, SamePass
<1> DEFINE edited == [k \in DOMAIN imported.passes |->
                        PassFromSettings(NewPass(ScanParameters(imported.passes[k].source)), imported.passes[k].settings)]
<1>6. edited = chain
  <2>1. DOMAIN chain = DOMAIN preset.passes /\ chain = [k \in DOMAIN preset.passes |-> chain[k]]
    BY <1>3 DEF CompilePresetChain
  <2>2. \A k \in DOMAIN preset.passes :
          PassFromSettings(NewPass(ScanParameters(imported.passes[k].source)), imported.passes[k].settings) = chain[k]
    BY <1>4, <1>5
  <2> QED BY <1>4, <2>1, <2>2
<1>7. LoadChainSources(imported.passes) = {<<SetChain(edited)>>}
  <2>1. \A p \in ToSet(imported.passes) : Compiles(p.source, FALSE)
    BY <1>4, <1>5 DEF ToSet
  <2> QED BY <2>1 DEF LoadChainSources
<1> QED BY <1>6, <1>7, ChainAlone

\* Whatever is on the disk: loading a preset leaves nothing of the one before, and the
\* editor's import of it gives the engine the passes load_preset gives it, with sizes
\* that are whole and sources without includes (preview.rs:375, 471).
THEOREM PresetsArePreviewed == Spec => []PreviewTakesThePreset
<1>1. LoadReplacesTheLastPreset
  <2> DEFINE L == UNION {LoadPreset(disk, path) : path \in Loadable}
  <2>1. \A load \in L : IsLoad(load)
    BY LoadsAreLoads
  <2> HIDE DEF L
  <2>2. \A load, last \in L : Drained(Fresh, last \o load) = Drained(Fresh, load)
    BY <2>1, LoadAfterLoad
  <2>3. \E loads \in {L} : \A load, last \in loads : Drained(Fresh, last \o load) = Drained(Fresh, load)
    BY <2>2
  <2> QED BY <2>3 DEF LoadReplacesTheLastPreset, L
<1>2. EditorPreviewsThePreset
  BY EditorTakesThePreset DEF EditorPreviewsThePreset
<1>3. PreviewTakesThePreset
  BY <1>1, <1>2 DEF PreviewTakesThePreset
<1> QED BY <1>3, PTL

-----------------------------------------------------------------------------
(* What an import says of references. *)

OneAlias(passes, n) == \A k \in 1..n : AtMostOne(passes[k].settings.alias)

\* After m passes, aliases holds the alias of each, at the first pass that has it.
Listed(aliases, passes, m) ==
    /\ \A b \in ToSet(aliases) : b.pass \in 1..m /\ passes[b.pass].settings.alias = {b.alias}
    /\ \A k \in 1..m : \A a \in passes[k].settings.alias :
          \E b \in ToSet(aliases) : b.alias = a /\ b.pass <= k

LEMMA OneMore ==
  ASSUME NEW S, NEW s \in Seq(S), NEW e \in S
  PROVE  ToSet(Append(s, e)) = ToSet(s) \cup {e}
<1>1. Append(s, e) = s \o <<e>> /\ <<e>> \in Seq(S)
  OBVIOUS
<1>2. ToSet(<<e>>) = {e}
  BY DEF ToSet
<1>3. ToSet(s \o <<e>>) = ToSet(s) \cup ToSet(<<e>>)
  BY <1>1, ElementsOfBoth, Zenon
<1> QED BY <1>1, <1>2, <1>3

LEMMA AliasesAreListed ==
  ASSUME NEW passes, NEW n \in Nat, DOMAIN passes = 1..n, OneAlias(passes, n)
  PROVE  Listed(Aliases(passes), passes, n)
<1> DEFINE seq == [k \in DOMAIN passes |-> k]
           alias(k) == passes[k].settings.alias
           new(k) == [alias |-> CHOOSE a \in alias(k) : TRUE, pass |-> k]
           E == {new(k) : k \in 1..n}
           Turn(s, k) == IF alias(seq[k]) = {} \/ \E b \in ToSet(s) : {b.alias} = alias(seq[k])
                         THEN s ELSE Append(s, new(seq[k]))
           NextState(s, k) == Through(s, LAMBDA acc :
               IF passes[seq[k]].settings.alias = {} \/ \E b \in ToSet(acc) : {b.alias} = passes[seq[k]].settings.alias
               THEN acc
               ELSE Append(acc, [alias |-> CHOOSE a \in passes[seq[k]].settings.alias : TRUE, pass |-> seq[k]]))
           m == Len(seq)
           Is(g) == g = [k \in 0..m |-> IF k = 0 THEN <<>> ELSE NextState(g[k-1], k)]
           at == CHOOSE g : Is(g)
           F == [x \in Seq(E) \X (1..n) |-> Turn(x[1], x[2])]
<1>1. m = n /\ \A k \in 1..n : seq[k] = k
  OBVIOUS
<1>2. Aliases(passes) = at[m]
  BY DEF Aliases, Loop
<1>3. ASSUME NEW s, NEW k PROVE NextState(s, k) = Turn(s, k)
  <2>1. NextState(s, k) = CHOOSE r \in {Turn(x, k) : x \in {s}} : TRUE
    BY DEF Through
  <2> HIDE DEF NextState, Turn
  <2>2. {Turn(x, k) : x \in {s}} = {Turn(s, k)}
    OBVIOUS
  <2> QED BY <2>1, <2>2
<1> HIDE DEF NextState
<1>4. ASSUME NEW s, NEW k \in 1..n
      PROVE  Turn(s, k) = IF alias(k) = {} \/ \E b \in ToSet(s) : {b.alias} = alias(k) THEN s ELSE Append(s, new(k))
  BY <1>1
<1> HIDE DEF Turn, seq
<1>5. \A s \in Seq(E), k \in 1..n : Turn(s, k) \in Seq(E)
  <2> HIDE DEF new, alias
  <2>1. \A k \in 1..n : new(k) \in E
    OBVIOUS
  <2> HIDE DEF E
  <2> QED BY <1>4, <2>1
<1>6. \A s \in Seq(E), k \in 1..n : F[<<s, k>>] \in Seq(E)
  BY <1>5
<1>7. <<>> \in Seq(E)
  OBVIOUS
<1>8. PICK g \in [0..n -> Seq(E)] : g[0] = <<>> /\ \A k \in 1..n : g[k] = F[<<g[k-1], k>>]
  <2> HIDE DEF F, E
  <2>1. StaysIn(Seq(E), n, F)
    BY <1>6 DEF StaysIn
  <2>2. \E g \in [0..n -> Seq(E)] : Runs(g, n, <<>>, F)
    BY <2>1, <1>7, LoopRuns
  <2> QED BY <2>2 DEF Runs
<1> HIDE DEF E
<1>9. \A k \in 1..n : g[k] = Turn(g[k-1], k)
  <2> TAKE k \in 1..n
  <2>1. g[k-1] \in Seq(E)
    BY <1>8
  <2> QED BY <1>8, <2>1
<1>10. Is(g)
  <2>1. \A k \in 0..m : g[k] = IF k = 0 THEN <<>> ELSE NextState(g[k-1], k)
    BY <1>1, <1>8, <1>9, <1>3
  <2> QED BY <1>1, <1>8, <2>1
<1>11. Is(at)
  BY <1>10
<1> HIDE DEF at
<1>12. at[0] = <<>> /\ \A k \in 1..n : at[k] = Turn(at[k-1], k)
  <2>1. \A k \in 0..m : at[k] = IF k = 0 THEN <<>> ELSE NextState(at[k-1], k)
    BY <1>11
  <2>2. \A k \in 1..n : k \in 0..n /\ k # 0
    OBVIOUS
  <2> QED BY <1>1, <2>1, <2>2, <1>3
<1> DEFINE OK(k) == at[k] \in Seq(E) /\ Listed(at[k], passes, k)
<1>13. OK(0)
  <2>1. ToSet(at[0]) = {} /\ 1..0 = {}
    BY <1>12 DEF ToSet
  <2> QED BY <1>7, <1>12, <2>1 DEF Listed
<1>14. ASSUME NEW k \in 1..n, OK(k - 1) PROVE OK(k)
  <2> DEFINE s == at[k-1]
  <2>0. k \in Nat /\ k - 1 \in Nat /\ 1..k = 1..(k-1) \cup {k} /\ \A j \in 1..(k-1) : j <= k /\ j # k
    OBVIOUS
  <2>1. s \in Seq(E) /\ Listed(s, passes, k - 1) /\ at[k] = Turn(s, k)
    BY <1>12, <1>14
  <2>2. at[k] \in Seq(E)
    BY <1>5, <2>1
  <2> HIDE DEF s
  <2>3. CASE alias(k) = {}
    <3>1. at[k] = s
      BY <1>4, <2>1, <2>3
    <3> QED BY <2>0, <2>1, <2>2, <2>3, <3>1 DEF Listed
  <2>4. CASE alias(k) # {} /\ \E b \in ToSet(s) : {b.alias} = alias(k)
    <3>1. at[k] = s
      BY <1>4, <2>1, <2>4
    <3>2. PICK b \in ToSet(s) : {b.alias} = alias(k)
      BY <2>4
    <3>3. b.pass \in 1..(k-1)
      BY <2>1 DEF Listed
    <3>4. \A a \in passes[k].settings.alias : b.alias = a /\ b.pass <= k
      BY <3>2, <3>3, <2>0
    <3>5. \A j \in 1..k : \A a \in passes[j].settings.alias : \E c \in ToSet(s) : c.alias = a /\ c.pass <= j
      BY <2>0, <2>1, <3>2, <3>4 DEF Listed
    <3>6. \A c \in ToSet(s) : c.pass \in 1..k /\ passes[c.pass].settings.alias = {c.alias}
      BY <2>0, <2>1 DEF Listed
    <3> QED BY <2>2, <3>1, <3>5, <3>6 DEF Listed
  <2>5. CASE alias(k) # {} /\ ~ \E b \in ToSet(s) : {b.alias} = alias(k)
    <3>1. at[k] = Append(s, new(k))
      BY <1>4, <2>1, <2>5
    <3>2. PICK a : alias(k) = {a}
      BY <2>5 DEF AtMostOne, OneAlias
    <3>3. new(k).alias = a /\ new(k).pass = k
      BY <3>2
    <3> DEFINE e == new(k)
    <3> HIDE DEF e, new
    <3>4. ToSet(at[k]) = ToSet(s) \cup {e}
      <4>1. new(k) \in E
        BY DEF E
      <4> QED BY <2>1, <3>1, <4>1, OneMore DEF e
    <3>5. \A c \in ToSet(at[k]) : c.pass \in 1..k /\ passes[c.pass].settings.alias = {c.alias}
      BY <2>0, <2>1, <3>2, <3>3, <3>4 DEF Listed, e
    <3>6. \A x \in passes[k].settings.alias : e.alias = x /\ e.pass <= k
      BY <2>0, <3>2, <3>3 DEF e
    <3>7. ASSUME NEW j \in 1..k, NEW x \in passes[j].settings.alias
          PROVE  \E c \in ToSet(at[k]) : c.alias = x /\ c.pass <= j
      <4>1. CASE j = k
        <5>1. e \in ToSet(at[k])
          BY <3>4
        <5> QED BY <3>6, <3>7, <4>1, <5>1
      <4>2. CASE j # k
        <5>1. j \in 1..(k-1)
          BY <2>0, <4>2
        <5>2. PICK c \in ToSet(s) : c.alias = x /\ c.pass <= j
          BY <2>1, <3>7, <5>1 DEF Listed
        <5>3. c \in ToSet(at[k])
          BY <3>4
        <5> QED BY <5>2, <5>3
      <4> QED BY <4>1, <4>2
    <3> QED BY <2>2, <3>5, <3>7 DEF Listed
  <2> QED BY <2>3, <2>4, <2>5
<1> DEFINE Bad == {k \in 0..n : ~ OK(k)}
<1>15. Bad = {}
  <2>1. SUFFICES ASSUME Bad # {} PROVE FALSE
    OBVIOUS
  <2> HIDE DEF OK
  <2>2. Bad \in SUBSET Nat
    OBVIOUS
  <2>3. PICK k \in Bad : \A j \in Bad : k <= j
    BY <2>1, <2>2, LeastNumber, Zenon
  <2>4. k \in 1..n /\ k - 1 \in 0..n /\ ~ (k <= k - 1)
    BY <1>13, <2>3
  <2>5. OK(k - 1)
    BY <2>3, <2>4
  <2> QED BY <1>14, <2>3, <2>4, <2>5
<1>16. OK(n)
  <2> HIDE DEF OK
  <2>1. n \in 0..n /\ n \notin Bad
    BY <1>15
  <2> QED BY <2>1
<1> QED BY <1>1, <1>2, <1>16

\* A name is read the same way by the scan and by the binding table.
LEMMA OneReading ==
  ASSUME NEW name, NEW aliases, NEW luts, aliases \cap {"Source", "Original"} = {}, luts \cap {"Source", "Original"} = {},
         ScanKind(name, aliases, luts) # "none"
  PROVE  SameReading(ScanKind(name, aliases, luts), Textures!Classify(name, aliases)[1])
<1> DEFINE kind == ScanKind(name, aliases, luts)
           class == Textures!Classify(name, aliases)
<1>1. CASE name \in {<<n>> : n \in aliases \cup luts}
  <2>1. PICK n \in aliases \cup luts : name = <<n>>
    BY <1>1
  <2>2. kind = "Alias"
    BY <1>1 DEF ScanKind
  <2>3. n \notin {"Source", "Original"} /\ Len(name) = 1 /\ name[1] = n
    BY <2>1
  <2>4. class[1] \in {"Alias", "Lut"}
    <3>1. name \notin {<<"Source">>, <<"Original">>} /\ name # <<"OriginalHistory", "0">>
      BY <2>1, <2>3
    <3>2. class = IF n \in aliases THEN <<"Alias", n>> ELSE <<"Lut">> \o name
      BY <2>3, <3>1 DEF Textures!Classify
    <3>3. (<<"Lut">> \o name)[1] = "Lut"
      BY <2>1
    <3> QED BY <3>2, <3>3
  <2> QED BY <2>2, <2>4 DEF SameReading
<1>2. CASE name \notin {<<n>> : n \in aliases \cup luts} /\ name \in aliases \X {"Feedback"}
  <2>1. PICK n \in aliases : name = <<n, "Feedback">>
    BY <1>2
  <2>2. kind = "Feedback"
    BY <1>2 DEF ScanKind
  <2>3. Len(name) = 2 /\ name[1] = n /\ name[2] = "Feedback" /\ name \notin {<<"Source">>, <<"Original">>}
    BY <2>1
  <2>4. class = <<"AliasFeedback", n>>
    BY <2>3 DEF Textures!Classify
  <2> QED BY <2>2, <2>4 DEF SameReading
<1>3. CASE name \notin {<<n>> : n \in aliases \cup luts} /\ name \notin aliases \X {"Feedback"}
  <2>1. CASE name \in {<<"Original">>, <<"Source">>}
    <3>1. kind = name[1] /\ class = name
      BY <1>3, <2>1 DEF ScanKind, Textures!Classify
    <3>2. name[1] \in {"Original", "Source"}
      BY <2>1
    <3> QED BY <3>1, <3>2 DEF SameReading
  <2>2. CASE name \in {"PassOutput", "Pass", "PassFeedback", "OriginalHistory", "User"} \X Digits
    <3>1. PICK b \in {"PassOutput", "Pass", "PassFeedback", "OriginalHistory", "User"}, d \in Digits : name = <<b, d>>
      BY <2>2
    <3>2. Len(name) = 2 /\ name[1] = b /\ name[2] = d /\ name \notin {<<"Source">>, <<"Original">>}
      BY <3>1
    <3>3. d # "Feedback" /\ d \in Textures!Digits
      BY DEF Digits, Textures!Digits
    <3>4. kind = CASE b \in {"PassOutput", "Pass"} -> "PassOutput" [] b = "PassFeedback" -> "Feedback"
                   [] b = "OriginalHistory" -> "History" [] b = "User" -> "User"
      BY <1>3, <3>1, <3>2 DEF ScanKind
    <3>5. class[1] = CASE b \in {"PassOutput", "Pass"} -> "PassOutput" [] b = "PassFeedback" -> "PassFeedback"
                       [] b = "OriginalHistory" -> (IF d = "0" THEN "Original" ELSE "OriginalHistory") [] b = "User" -> "Lut"
      <4>1. class = IF b \in {"PassOutput", "Pass"} THEN <<"PassOutput", d>>
                    ELSE IF <<b, d>> = <<"OriginalHistory", "0">> THEN <<"Original">>
                    ELSE IF b \in {"PassFeedback", "OriginalHistory"} THEN name
                    ELSE <<"Lut">> \o name
        BY <3>1, <3>2, <3>3 DEF Textures!Classify
      <4>2. (<<"Lut">> \o name)[1] = "Lut"
        BY <3>1
      <4> QED BY <3>1, <3>2, <4>1, <4>2
    <3> QED BY <3>4, <3>5 DEF SameReading
  <2>3. name \in {<<"Original">>, <<"Source">>}
        \/ name \in {"PassOutput", "Pass", "PassFeedback", "OriginalHistory", "User"} \X Digits
    BY <1>3 DEF ScanKind
  <2> QED BY <2>1, <2>2, <2>3
<1> QED BY <1>1, <1>2, <1>3

\* A reference is warned about exactly when its name is not in the list.
LEMMA CausalIsAvailable ==
  ASSUME NEW passes, NEW n \in Nat, DOMAIN passes = 1..n, Listed(Aliases(passes), passes, n),
         \A b \in ToSet(Aliases(passes)) : Len(b.alias) = 1 /\ b.alias[1] \notin {"Source", "Original"},
         NEW luts, luts \cap {"Source", "Original"} = {},
         NEW aliases, aliases = {b.alias[1] : b \in ToSet(Aliases(passes))},
         NEW r, r.kind = ScanKind(r.name, aliases, luts), r.kind \in {"PassOutput", "Alias"},
         NEW i \in 1..n
  PROVE  Causal(passes, luts, i, r) <=> Normal(r.name) \in Availability(passes, luts)[i]
<1> DEFINE A == Availability(passes, luts)[i]
           earlier == UNION {passes[k].settings.alias : k \in 1..(i - 1)}
<1>1. A = {<<"Original">>, <<"Source">>} \cup {<<l>> : l \in luts}
          \cup {<<"PassOutput", d>> : d \in {e \in Digits : IndexDigit[e] < i - 1}} \cup earlier
  BY DEF Availability
<1>2. \A a : a \in earlier <=> \E b \in ToSet(Aliases(passes)) : b.alias = a /\ b.pass < i
  <2>1. ASSUME NEW k \in 1..(i - 1), NEW a \in passes[k].settings.alias
        PROVE  \E b \in ToSet(Aliases(passes)) : b.alias = a /\ b.pass < i
    <3>1. k \in 1..n /\ k < i
      OBVIOUS
    <3>2. PICK b \in ToSet(Aliases(passes)) : b.alias = a /\ b.pass <= k
      BY <3>1 DEF Listed
    <3>3. b.pass \in 1..n
      BY DEF Listed
    <3> QED BY <3>1, <3>2, <3>3
  <2>2. ASSUME NEW b \in ToSet(Aliases(passes)), b.pass < i
        PROVE  b.alias \in earlier
    <3>1. b.pass \in 1..n /\ passes[b.pass].settings.alias = {b.alias}
      BY DEF Listed
    <3>2. b.pass \in 1..(i - 1)
      BY <2>2, <3>1
    <3> QED BY <3>1, <3>2
  <2> QED BY <2>1, <2>2
<1>3. \A a \in earlier : Len(a) = 1 /\ a \notin {<<"Source">>, <<"Original">>}
  BY <1>2
<1> HIDE DEF earlier, A
<1>4. CASE r.kind = "PassOutput"
  <2>1. r.name \in {"PassOutput", "Pass"} \X Digits
    BY <1>4 DEF ScanKind
  <2>2. PICK b \in {"PassOutput", "Pass"}, d \in Digits : r.name = <<b, d>>
    BY <2>1
  <2>3. Normal(r.name) = <<"PassOutput", d>> /\ r.name[2] = d
    BY <2>2 DEF Normal
  <2>4. Causal(passes, luts, i, r) <=> IndexDigit[d] < i - 1
    BY <1>4, <2>3 DEF Causal
  <2>5. <<"PassOutput", d>> \in A <=> IndexDigit[d] < i - 1
    <3>1. <<"PassOutput", d>> \notin earlier
      BY <1>3
    <3> QED BY <1>1, <3>1
  <2> QED BY <2>3, <2>4, <2>5 DEF A
<1>5. CASE r.kind = "Alias"
  <2>1. r.name \in {<<m>> : m \in aliases \cup luts}
    <3>1. \A name : ScanKind(name, aliases, luts) = "Alias" => name \in {<<m>> : m \in aliases \cup luts}
      BY DEF ScanKind
    <3> QED BY <1>5, <3>1
  <2>2. PICK m \in aliases \cup luts : r.name = <<m>>
    BY <2>1
  <2>3. Len(r.name) = 1 /\ m \notin {"Source", "Original"} /\ Normal(r.name) = r.name
    BY <2>2 DEF Normal
  <2>4. Causal(passes, luts, i, r) <=> r.name \in {<<l>> : l \in luts} \/ r.name \in earlier
    BY <1>2, <1>5 DEF Causal
  <2>5. r.name \in A <=> r.name \in {<<l>> : l \in luts} \/ r.name \in earlier
    BY <1>1, <2>2, <2>3
  <2> QED BY <2>3, <2>4, <2>5 DEF A
<1> QED BY <1>4, <1>5

LEMMA AliasIsOption ==
  ASSUME NEW map, NEW n, NEW base
  PROVE  AtMostOne(ParsePass(map, n, base).keys.alias)
<1>1. ParsePass(map, n, base).keys.alias = Opt(map, <<"alias", n>>, "text")
  BY DEF ParsePass, PassFields
<1>2. Read("text", map[<<"alias", n>>]) = {Tail(map[<<"alias", n>>])}
  BY DEF Read
<1> QED BY <1>1, <1>2 DEF Opt, AtMostOne

\* A name the scan knows is one identifier, alone or with a digit or Feedback.
IsScanned(name) == \E n : name = <<n>> \/ \E suffix \in Digits \cup {"Feedback"} : name = <<n, suffix>>

LEMMA ScannedIsAName ==
  ASSUME NEW name, NEW aliases, NEW luts, ScanKind(name, aliases, luts) # "none"
  PROVE  IsScanned(name)
<1>1. CASE name \in {<<n>> : n \in aliases \cup luts} \/ name \in aliases \X {"Feedback"}
  BY <1>1 DEF IsScanned
<1>2. CASE ~(name \in {<<n>> : n \in aliases \cup luts} \/ name \in aliases \X {"Feedback"})
  <2>1. \/ name \in {<<"Original">>, <<"Source">>}
        \/ name \in {"PassOutput", "Pass", "PassFeedback", "OriginalHistory", "User"} \X Digits
    BY <1>2 DEF ScanKind
  <2> QED BY <2>1 DEF IsScanned
<1> QED BY <1>1, <1>2

\* The binding table reads a name by the aliases it can be a use of, and no others.
LEMMA ReadByItsAliases ==
  ASSUME NEW r, IsScanned(r.name), NEW A, NEW B, Named(r, A) = Named(r, B)
  PROVE  Textures!Classify(r.name, A) = Textures!Classify(r.name, B)
<1> DEFINE name == r.name
<1>1. \A a : name \in {<<a>>, <<a, "Feedback">>} => (a \in A <=> a \in B)
  BY DEF Named
<1>2. Len(name) = 1 => name = <<name[1]>>
  BY DEF IsScanned
<1>3. Len(name) = 2 /\ name[2] = "Feedback" => name = <<name[1], "Feedback">>
  BY DEF IsScanned
<1> HIDE DEF name
<1>4. Len(name) = 1 => (name[1] \in A <=> name[1] \in B)
  BY <1>1, <1>2
<1>5. Len(name) = 2 /\ name[2] = "Feedback" => (name[1] \in A <=> name[1] \in B)
  BY <1>1, <1>3
<1>6. Textures!Classify(name, A) = Textures!Classify(name, B)
  BY <1>4, <1>5 DEF Textures!Classify
<1> QED BY <1>6 DEF name

\* The scan of every reference by the aliases of the import.
Scanned(p) ==
  \A i \in DOMAIN p.passes : \A r \in p.passes[i].references :
     IsScanned(r.name) /\ SameReading(r.kind, Textures!Classify(r.name, ScannedNames(p))[1])

LEMMA ScannedAgrees == ASSUME NEW p, Scanned(p) PROVE ScannerAgrees(p)
<1> SUFFICES ASSUME NEW i \in DOMAIN p.passes, NEW r \in p.passes[i].references, AliasIsKept(p, r)
             PROVE  AsScanned(p, r)
  BY DEF ScannerAgrees
<1>1. IsScanned(r.name) /\ SameReading(r.kind, Textures!Classify(r.name, ScannedNames(p))[1])
  BY DEF Scanned
<1>2. Textures!Classify(r.name, ScannedNames(p)) = Textures!Classify(r.name, BoundNames(p))
  BY <1>1, ReadByItsAliases DEF AliasIsKept
<1> QED BY <1>1, <1>2 DEF AsScanned

\* What an import says of references, for any files.
LEMMA ImportExplains ==
  ASSUME NEW path, CanImport(disk, path), NEW p, p = ImportPreset(disk, path), NamesAreTheirOwn(p)
  PROVE  WarningsMatch(p) /\ Scanned(p)
<1> DEFINE map == MapAt(disk, path)
           preset == ParseSlangp(map, Dir(path))
           counted == Opt(map, <<"shaders">>, "natural")
           n == CHOOSE m \in counted : TRUE
           luts == {l.name : l \in ToSet(preset.luts)}
           aliases == {a[1] : a \in UNION {q.keys.alias : q \in ToSet(preset.passes)}}
           source(k) == SourceAt(disk, preset.passes[k].shader)
           listed == Aliases(p.passes)
<1>1. n \in Nat
  <2>1. counted # {}
    BY DEF CanImport, ParseErrors
  <2>2. counted \subseteq Nat
    BY DEF Opt, Read, Natural
  <2> QED BY <2>1, <2>2
<1>2. DOMAIN preset.passes = 1..n /\ \A k \in 1..n : AtMostOne(preset.passes[k].keys.alias)
  <2>1. preset.passes = [k \in 1..n |-> ParsePass(map, k - 1, Dir(path))]
    BY DEF ParseSlangp
  <2> HIDE DEF preset, n, map
  <2> QED BY <2>1, AliasIsOption
<1>3. /\ DOMAIN p.passes = DOMAIN preset.passes
      /\ \A k \in DOMAIN preset.passes :
            /\ p.passes[k].references = ScanReferences(source(k), aliases, luts)
            /\ p.passes[k].settings = MapSettings(preset.passes[k])
      /\ p.aliases = listed
      /\ p.availability = Availability(p.passes, luts)
      /\ p.warnings = CrossCheckReferences(p.passes, luts)
      /\ DOMAIN p.luts = DOMAIN preset.luts /\ \A k \in DOMAIN preset.luts : p.luts[k].name = preset.luts[k].name
  BY DEF ImportPreset, ImportParsedPreset, MapLut
<1>4. \A k \in 1..n : p.passes[k].settings.alias = preset.passes[k].keys.alias
  <2>1. \A q : MapSettings(q).alias = q.keys.alias
    BY DEF MapSettings
  <2>2. \A k \in 1..n : p.passes[k].settings = MapSettings(preset.passes[k])
    BY <1>2, <1>3
  <2> HIDE DEF n, preset
  <2> QED BY <2>1, <2>2
<1>5. luts \cap {"Source", "Original"} = {}
  BY <1>3 DEF NamesAreTheirOwn, ToSet
<1> HIDE DEF n, map, preset, luts
<1>6. DOMAIN p.passes = 1..n /\ Listed(listed, p.passes, n)
  <2>1. DOMAIN p.passes = 1..n /\ OneAlias(p.passes, n)
    BY <1>2, <1>3, <1>4 DEF OneAlias
  <2> QED BY <1>1, <2>1, AliasesAreListed
<1>7. \A b \in ToSet(listed) : Len(b.alias) = 1 /\ b.alias[1] \notin {"Source", "Original"}
  BY <1>3 DEF NamesAreTheirOwn
<1>8. aliases = {b.alias[1] : b \in ToSet(listed)}
  <2> DEFINE given == UNION {q.keys.alias : q \in ToSet(preset.passes)}
  <2>1. ToSet(preset.passes) = {preset.passes[k] : k \in 1..n}
    BY <1>2 DEF ToSet
  <2>2. ASSUME NEW a \in given PROVE \E b \in ToSet(listed) : b.alias = a
    <3>1. PICK k \in 1..n : a \in preset.passes[k].keys.alias
      BY <2>1
    <3> QED BY <1>4, <1>6, <3>1 DEF Listed
  <2>3. ASSUME NEW b \in ToSet(listed) PROVE b.alias \in given
    <3>1. b.pass \in 1..n /\ p.passes[b.pass].settings.alias = {b.alias}
      BY <1>6 DEF Listed
    <3>2. b.alias \in preset.passes[b.pass].keys.alias
      BY <1>4, <3>1
    <3>3. preset.passes[b.pass] \in ToSet(preset.passes)
      BY <2>1, <3>1
    <3> QED BY <3>2, <3>3
  <2> HIDE DEF given
  <2>4. aliases = {a[1] : a \in given}
    BY DEF given
  <2>5. ASSUME NEW x \in aliases PROVE x \in {b.alias[1] : b \in ToSet(listed)}
    BY <2>2, <2>4
  <2>6. ASSUME NEW b \in ToSet(listed) PROVE b.alias[1] \in aliases
    BY <2>3, <2>4
  <2> HIDE DEF aliases, listed
  <2> QED BY <2>5, <2>6
<1>9. aliases \cap {"Source", "Original"} = {}
  BY <1>7, <1>8
<1> HIDE DEF aliases, listed
<1>10. ASSUME NEW i \in 1..n, NEW r \in p.passes[i].references
       PROVE  /\ r = [name |-> r.name, kind |-> r.kind]
              /\ r.kind = ScanKind(r.name, aliases, luts) /\ r.kind # "none"
  BY <1>2, <1>3 DEF ScanReferences
<1>11. ASSUME NEW i \in 1..n, NEW r \in p.passes[i].references, r.kind \in {"PassOutput", "Alias"}
       PROVE  <<i, r.name>> \in p.warnings <=> Normal(r.name) \notin p.availability[i]
  <2>1. Causal(p.passes, luts, i, r) <=> Normal(r.name) \in p.availability[i]
    <3> DEFINE passes == p.passes
    <3>1. n \in Nat /\ DOMAIN passes = 1..n /\ Listed(Aliases(passes), passes, n)
      BY <1>1, <1>6 DEF listed
    <3>2. /\ \A b \in ToSet(Aliases(passes)) : Len(b.alias) = 1 /\ b.alias[1] \notin {"Source", "Original"}
          /\ aliases = {b.alias[1] : b \in ToSet(Aliases(passes))}
      BY <1>7, <1>8 DEF listed
    <3>3. r.kind = ScanKind(r.name, aliases, luts) /\ r.kind \in {"PassOutput", "Alias"}
      BY <1>10, <1>11
    <3> HIDE DEF passes
    <3>4. Causal(passes, luts, i, r) <=> Normal(r.name) \in Availability(passes, luts)[i]
      BY <1>5, <3>1, <3>2, <3>3, CausalIsAvailable
    <3>5. p.availability = Availability(passes, luts)
      BY <1>3 DEF passes
    <3> QED BY <3>4, <3>5 DEF passes
  <2>2. <<i, r.name>> \in p.warnings <=> ~ Causal(p.passes, luts, i, r)
    <3>1. \A q \in p.passes[i].references : q.name = r.name => q = r
      BY <1>10
    <3>2. p.warnings = UNION {{<<j, q.name>> : q \in {x \in p.passes[j].references : ~ Causal(p.passes, luts, j, x)}} : j \in 1..n}
      BY <1>3, <1>6 DEF CrossCheckReferences
    <3> QED BY <3>1, <3>2
  <2> QED BY <2>1, <2>2
<1>12. WarningsMatch(p)
  BY <1>6, <1>11 DEF WarningsMatch
<1>13. Scanned(p)
  <2>1. ScannedNames(p) = aliases
    BY <1>3, <1>8 DEF ScannedNames
  <2> SUFFICES ASSUME NEW i \in 1..n, NEW r \in p.passes[i].references
               PROVE  IsScanned(r.name) /\ SameReading(r.kind, Textures!Classify(r.name, aliases)[1])
    BY <1>6, <2>1 DEF Scanned
  <2>2. IsScanned(r.name)
    BY <1>10, ScannedIsAName
  <2>3. SameReading(r.kind, Textures!Classify(r.name, aliases)[1])
    BY <1>5, <1>9, <1>10, OneReading
  <2> QED BY <2>2, <2>3
<1> QED BY <1>12, <1>13

\* A project, and its passes, have the fields an edit does not change.
FieldsOK(p) == "aliases" \in DOMAIN p /\ \A i \in DOMAIN p.passes : "references" \in DOMAIN p.passes[i]

\* The invariant of the references: no edit touches a reference or the list of the
\* aliases it was scanned with, whatever it does to the aliases of the passes.
RInv == /\ edits \in Nat
        /\ \A p \in project : FieldsOK(p) /\ (NamesAreTheirOwn(p) => Scanned(p) /\ (edits = 0 => WarningsMatch(p)))

LEMMA RInvExplains == RInv => ReferencesAreExplained
BY ScannedAgrees DEF RInv, ReferencesAreExplained, Explained

LEMMA ImportKeepsReferences ==
  ASSUME RInv, NEW path, Import(path)
  PROVE  RInv'
<1>1. CASE CanImport(disk, path)
  <2> DEFINE p == ImportPreset(disk, path)
  <2>1. project' = {p} /\ edits' = 0
    BY <1>1 DEF Import
  <2>2. FieldsOK(p)
    BY DEF FieldsOK, ImportPreset, ImportParsedPreset
  <2>3. NamesAreTheirOwn(p) => WarningsMatch(p) /\ Scanned(p)
    BY <1>1, ImportExplains
  <2> HIDE DEF p
  <2> QED BY <2>1, <2>2, <2>3 DEF RInv
<1>2. CASE ~ CanImport(disk, path)
  <2>1. UNCHANGED <<project, edits>>
    BY <1>2 DEF Import
  <2> QED BY <2>1 DEF RInv
<1> QED BY <1>1, <1>2

\* An edit leaves the references a pass has, or adds a pass that has none.
LEMMA EditKeepsReferences ==
  ASSUME RInv, NEW p \in project, NEW q, project' = {q}, edits' = edits + 1,
         q.aliases = p.aliases, q.luts = p.luts, FieldsOK(q),
         \A i \in DOMAIN q.passes :
            q.passes[i].references = {} \/ (i \in DOMAIN p.passes /\ q.passes[i].references = p.passes[i].references)
  PROVE  RInv'
<1>1. edits' \in Nat /\ edits' # 0
  BY DEF RInv
<1>2. ASSUME NamesAreTheirOwn(q) PROVE Scanned(q)
  <2>1. NamesAreTheirOwn(p)
    BY <1>2 DEF NamesAreTheirOwn
  <2>2. Scanned(p)
    BY <2>1 DEF RInv
  <2>3. ScannedNames(q) = ScannedNames(p)
    BY DEF ScannedNames
  <2> QED BY <2>2, <2>3 DEF Scanned
<1> QED BY <1>1, <1>2 DEF RInv

LEMMA AppendPassKeepsReferences ==
  ASSUME IInv, RInv, NEW pass \in NewPasses, AppendPass(pass)
  PROVE  RInv'
<1>1. PICK p \in project : project' = {[p EXCEPT !.passes = Append(@, pass)]}
  BY DEF AppendPass, Edit
<1> DEFINE q == [p EXCEPT !.passes = Append(@, pass)]
<1>2. edits' = edits + 1
  BY DEF AppendPass, Edit
<1>3. ProjectOK(p) /\ FieldsOK(p)
  BY DEF IInv, ProjectsOK, RInv
<1>4. q.aliases = p.aliases /\ q.luts = p.luts /\ DOMAIN q = DOMAIN p /\ q.passes = Append(p.passes, pass)
  BY <1>3 DEF ProjectOK, FieldsOK
<1> HIDE DEF q
<1>5. ASSUME NEW i \in DOMAIN q.passes
      PROVE  \/ q.passes[i] = pass
             \/ i \in DOMAIN p.passes /\ q.passes[i] = p.passes[i]
  <2>1. p.passes \in Seq(ToSet(p.passes) \cup {pass})
    BY <1>3 DEF ProjectOK, IsSeq
  <2> QED BY <1>4, <2>1
<1>6. "references" \in DOMAIN pass /\ pass.references = {}
  BY NewPassesAssumption
<1>7. FieldsOK(q)
  BY <1>3, <1>4, <1>5, <1>6 DEF FieldsOK
<1>8. \A i \in DOMAIN q.passes :
        q.passes[i].references = {} \/ (i \in DOMAIN p.passes /\ q.passes[i].references = p.passes[i].references)
  BY <1>5, <1>6
<1>9. project' = {q}
  BY <1>1 DEF q
<1> QED BY <1>2, <1>4, <1>7, <1>8, <1>9, EditKeepsReferences

LEMMA SetPassSettingsKeepsReferences ==
  ASSUME IInv, RInv, NEW s, SetPassSettings(s)
  PROVE  RInv'
<1>1. PICK p \in project : project' = {[p EXCEPT !.passes[1].settings = s]}
  BY DEF SetPassSettings, Edit
<1> DEFINE q == [p EXCEPT !.passes[1].settings = s]
           first == [p.passes[1] EXCEPT !.settings = s]
<1>2. edits' = edits + 1
  BY DEF SetPassSettings, Edit
<1>3. ProjectOK(p) /\ FieldsOK(p)
  BY DEF IInv, ProjectsOK, RInv
<1>4. q.aliases = p.aliases /\ q.luts = p.luts /\ DOMAIN q = DOMAIN p /\ q.passes = [p.passes EXCEPT ![1] = first]
  BY <1>3 DEF ProjectOK, FieldsOK
<1> HIDE DEF q
<1>5. ASSUME NEW i \in DOMAIN q.passes
      PROVE  /\ i \in DOMAIN p.passes
             /\ "references" \in DOMAIN q.passes[i] /\ q.passes[i].references = p.passes[i].references
  <2>1. i \in DOMAIN p.passes /\ q.passes[i] = IF i = 1 THEN first ELSE p.passes[i]
    BY <1>4
  <2>2. "references" \in DOMAIN p.passes[i]
    BY <1>3, <2>1 DEF FieldsOK
  <2>3. CASE i = 1
    <3>1. DOMAIN first = DOMAIN p.passes[1] /\ first.references = p.passes[1].references
      BY <2>2, <2>3
    <3> HIDE DEF first
    <3> QED BY <2>1, <2>2, <2>3, <3>1
  <2>4. CASE i # 1
    BY <2>1, <2>2, <2>4
  <2> QED BY <2>3, <2>4
<1>6. FieldsOK(q)
  BY <1>3, <1>4, <1>5 DEF FieldsOK
<1>7. project' = {q}
  BY <1>1 DEF q
<1> QED BY <1>2, <1>4, <1>5, <1>6, <1>7, EditKeepsReferences

LEMMA NextRInv ==
  ASSUME IInv, RInv, [Next]_vars
  PROVE  RInv'
<1>1. ASSUME NEW p \in Presets, Import(p) PROVE RInv'
  BY <1>1, ImportKeepsReferences
<1>2. ASSUME NEW pass \in NewPasses, AppendPass(pass) PROVE RInv'
  BY <1>2, AppendPassKeepsReferences
<1>3. ASSUME NEW s \in NewSettings, SetPassSettings(s) PROVE RInv'
  BY <1>3, SetPassSettingsKeepsReferences
<1>4. ASSUME UNCHANGED <<project, edits>> PROVE RInv'
  BY <1>4 DEF RInv
<1>5. ASSUME NEW d \in Dests, NEW threaded \in BOOLEAN, Export(d, threaded) PROVE RInv'
  BY <1>4, <1>5 DEF Export
<1>6. CASE Step
  <2>1. UNCHANGED <<project, edits>>
    BY <1>6 DEF Step, WriteNext, WriteFails, Written, RemoveOld, RemoveFails, Rename, RenameFails
  <2> QED BY <1>4, <2>1
<1>7. CASE Crash
  BY <1>7 DEF Crash, RInv
<1>8. CASE UNCHANGED vars
  BY <1>4, <1>8 DEF vars
<1> QED BY <1>1, <1>2, <1>3, <1>5, <1>6, <1>7, <1>8 DEF Next

\* Whatever preset is imported, unless an alias or a look-up texture of it is called
\* Source or Original: a reference is warned about exactly when its name is not in the
\* list of what the pass may read, and the binding table reads each name as the scan
\* did, before and after any edits of settings and aliases, but for a name whose own
\* alias was given or taken (import.rs:330, 382; scan.rs:54; bindtable.rs:97; preview.rs:479).
THEOREM ScansAreRight == Spec => []ReferencesAreExplained
<1>1. Init => IInv /\ RInv
  <2>1. Init => RInv
    BY DEF Init, RInv
  <2> QED BY <2>1, InitIInv
<1>2. IInv /\ RInv /\ [Next]_vars => (IInv /\ RInv)'
  BY NextIInv, NextRInv
<1>3. RInv => ReferencesAreExplained
  BY RInvExplains
<1> QED BY <1>1, <1>2, <1>3, PTL DEF Spec
=============================================================================
