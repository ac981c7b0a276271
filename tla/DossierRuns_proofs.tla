--------------------------- MODULE DossierRuns_proofs ---------------------------
(***************************************************************************)
(* Proofs about DossierRuns for every directory the first deep dive finds, *)
(* all inputs of the deep dives, all tears of the files, every clock and   *)
(* every number of builds.                                                 *)
(***************************************************************************)
EXTENDS DossierRuns, FiniteOrders, SequenceTheorems

-----------------------------------------------------------------------------
(***************************************************************************)
(* Nothing disappears.                                                     *)
(***************************************************************************)
\* A build is a record.
IsBuild ==
  /\ build.at \in {"idle", "read", "check"}
  /\ build.at # "idle" =>
       build = [at |-> build.at, todo |-> build.todo, found |-> build.found,
                skipped |-> build.skipped, before |-> build.before, touched |-> build.touched]

\* A dossier has a day, whoever wrote it.
HasDay(file) == file.front # None => file.front.at \in Int
DayInv == \A f \in DOMAIN files : HasDay(files[f].file)

\* What the build makes of a file that nobody touches: it waits to be read, or it stands behind
\* a dossier of its ticker that is as new; in the second reading it is skipped when it is none.
StandsBehind(name, d) ==
  /\ d.dossier.front.ticker = Parsed(name).front.ticker
  /\ d.dossier.front.at >= Parsed(name).front.at
IsBehind(name) == \E d \in build.found : StandsBehind(name, d)
Untouched == DOMAIN build.before \ build.touched
IsFaithful(d) ==
  /\ d.dossier.front.at \in Int
  /\ d.name \in Untouched => d.dossier = Parsed(d.name) /\ Parsed(d.name) # None
IsOnItsWay(name) ==
  /\ name \in DOMAIN files
  /\ build.at = "read" => name \in build.todo \/ Parsed(name) = None \/ IsBehind(name)
  /\ build.at = "check" /\ Parsed(name) = None => name \in build.todo \cup build.skipped
  /\ build.at = "check" /\ Parsed(name) # None => IsBehind(name)
ReadInv ==
  build.at # "idle" =>
    /\ build.todo \subseteq DOMAIN files
    /\ \A d \in build.found : IsFaithful(d)
    /\ \A name \in Untouched : IsOnItsWay(name)

\* A step of a deep dive leaves everything as it is but one file, which is touched.
LEMMA OtherFilesStay ==
  ASSUME IsBuild, ReadInv, NEW name,
         \A f \in DOMAIN files : f \in DOMAIN files' /\ (f # name => files'[f] = files[f]),
         Touch(name)
  PROVE  IsBuild' /\ ReadInv'
<1>1. CASE build.at = "idle"
  BY <1>1 DEF IsBuild, ReadInv, Touch
<1>2. CASE build.at # "idle"
  <2>1. build' = [at |-> build.at, todo |-> build.todo, found |-> build.found,
                  skipped |-> build.skipped, before |-> build.before,
                  touched |-> build.touched \cup {name}]
    BY <1>2 DEF IsBuild, Touch
  <2>2. IsBuild'
    BY <2>1, <1>2 DEF IsBuild
  <2>3. Untouched' = Untouched \ {name}
    BY <2>1 DEF Untouched
  <2>4. \A f \in DOMAIN files \ {name} : Parsed(f)' = Parsed(f)
    BY DEF Parsed
  <2>5. ASSUME NEW d \in build.found PROVE IsFaithful(d)'
    <3>1. IsFaithful(d)
      BY <1>2 DEF ReadInv
    <3>2. d.name \in Untouched => d.name \in DOMAIN files
      BY <1>2 DEF ReadInv, IsOnItsWay
    <3>3. QED
      BY <2>3, <2>4, <3>1, <3>2 DEF IsFaithful
  <2>6. ASSUME NEW f \in Untouched' PROVE IsOnItsWay(f)'
    <3>1. IsOnItsWay(f) /\ f # name
      BY <1>2, <2>3 DEF ReadInv
    <3>2. f \in DOMAIN files /\ Parsed(f)' = Parsed(f)
      BY <2>4, <3>1 DEF IsOnItsWay
    <3>3. IsBehind(f) => IsBehind(f)'
      BY <2>1, <3>2 DEF IsBehind, StandsBehind
    <3>4. QED
      BY <2>1, <3>1, <3>2, <3>3 DEF IsOnItsWay
  <2>7. QED
    BY <1>2, <2>1, <2>2, <2>5, <2>6 DEF ReadInv
<1>3. QED
  BY <1>1, <1>2

\* Of the dossiers of a ticker the build keeps one that is as new as all it read.
LEMMA NewestStaysAhead ==
  ASSUME NEW found, NEW new, \A d \in found \cup {new} : d.dossier.front.at \in Int
  PROVE  /\ Newest(found, new) \subseteq found \cup {new}
         /\ \A e \in found \cup {new} : \E d \in Newest(found, new) :
              /\ d.dossier.front.ticker = e.dossier.front.ticker
              /\ d.dossier.front.at >= e.dossier.front.at
<1> DEFINE same == {d \in found : d.dossier.front.ticker = new.dossier.front.ticker}
<1>1. CASE \A d \in same : new.dossier.front.at > d.dossier.front.at
  <2>1. Newest(found, new) = (found \ same) \cup {new}
    BY <1>1 DEF Newest
  <2>2. QED
    BY <1>1, <2>1
<1>2. CASE ~(\A d \in same : new.dossier.front.at > d.dossier.front.at)
  <2>1. Newest(found, new) = found
    BY <1>2 DEF Newest
  <2>2. QED
    BY <1>2, <2>1
<1>3. QED
  BY <1>1, <1>2

\* The two readings of the directory keep it.
LEMMA ReadInvSteps ==
  ASSUME IsBuild, ReadInv, DayInv, Next
  PROVE  IsBuild' /\ ReadInv'
<1>1. CASE UNCHANGED <<files, build>>
  BY <1>1 DEF IsBuild, ReadInv, IsFaithful, IsOnItsWay, IsBehind, StandsBehind, Untouched, Parsed
<1>2. CASE OpenFile
  BY <1>2, OtherFilesStay DEF OpenFile
<1>3. ASSUME NEW file, Write(file)
      PROVE  IsBuild' /\ ReadInv'
  BY <1>3, OtherFilesStay DEF Write
<1>4. CASE StartBuild
  <2>1. build' = [at |-> "read", todo |-> DOMAIN files, found |-> {}, skipped |-> {},
                  before |-> files, touched |-> {}] /\ files' = files
    BY <1>4 DEF StartBuild
  <2>2. QED
    BY <2>1 DEF IsBuild, ReadInv, Untouched, IsOnItsWay
<1>5. CASE ReadFile
  <2> DEFINE name == CHOOSE f \in build.todo : TRUE
  <2>1. name \in build.todo /\ build.at = "read" /\ files' = files /\ name \in DOMAIN files
    BY <1>5 DEF ReadFile, ReadInv
  <2> DEFINE found == IF Parsed(name) = None THEN build.found ELSE Newest(build.found, Found(name))
  <2>2. build' = [at |-> "read", todo |-> build.todo \ {name}, found |-> found,
                  skipped |-> build.skipped, before |-> build.before, touched |-> build.touched]
    BY <1>5, <2>1 DEF ReadFile, IsBuild
  <2> HIDE DEF name
  <2>3. Parsed(name) # None => Found(name).dossier = Parsed(name) /\ Found(name).name = name
                               /\ Parsed(name).front.at \in Int
    BY <2>1 DEF Found, Parsed, ParseDossier, DayInv, HasDay
  <2>4. /\ found \subseteq build.found \cup (IF Parsed(name) = None THEN {} ELSE {Found(name)})
        /\ \A e \in build.found \cup (IF Parsed(name) = None THEN {} ELSE {Found(name)}) :
             \E d \in found : /\ d.dossier.front.ticker = e.dossier.front.ticker
                              /\ d.dossier.front.at >= e.dossier.front.at
    <3>1. \A d \in build.found : d.dossier.front.at \in Int
      BY <2>1 DEF ReadInv, IsFaithful
    <3>2. CASE Parsed(name) = None
      BY <3>1, <3>2
    <3>3. CASE Parsed(name) # None
      BY <2>3, <3>1, <3>3, NewestStaysAhead
    <3>4. QED
      BY <3>2, <3>3
  <2> HIDE DEF found
  <2>5. Untouched' = Untouched /\ (\A f : Parsed(f)' = Parsed(f)) /\ build'.at = "read"
    BY <2>1, <2>2 DEF Untouched, Parsed
  <2>6. ASSUME NEW d \in found PROVE IsFaithful(d)' /\ d.dossier.front.at \in Int
    <3>1. CASE d \in build.found
      BY <2>1, <2>5, <3>1 DEF ReadInv, IsFaithful
    <3>2. CASE d \notin build.found
      BY <2>3, <2>4, <2>5, <3>2 DEF IsFaithful
    <3>3. QED
      BY <3>1, <3>2
  <2>7. ASSUME NEW f \in Untouched PROVE IsOnItsWay(f)'
    <3>1. IsOnItsWay(f)
      BY <2>1 DEF ReadInv
    <3>2. CASE f = name /\ Parsed(name) # None
      <4>1. \E d \in found : StandsBehind(f, d)
        BY <2>3, <2>4, <3>2 DEF StandsBehind
      <4>2. IsBehind(f)'
        BY <2>1, <2>2, <2>5, <4>1 DEF IsBehind, StandsBehind
      <4>3. QED
        BY <2>1, <2>5, <3>1, <4>2 DEF IsOnItsWay
    <3>3. CASE f # name /\ f \notin build.todo /\ Parsed(f) # None
      <4>1. PICK e \in build.found : StandsBehind(f, e)
        BY <2>1, <3>1, <3>3 DEF IsOnItsWay, IsBehind
      <4>2. PICK d \in found : /\ d.dossier.front.ticker = e.dossier.front.ticker
                               /\ d.dossier.front.at >= e.dossier.front.at
        BY <2>4, <4>1
      <4>3. Parsed(f).front.at \in Int /\ e.dossier.front.at \in Int
        <5>1. f \in DOMAIN files
          BY <3>1 DEF IsOnItsWay
        <5>2. QED
          BY <2>1, <3>3, <5>1 DEF ReadInv, IsFaithful, Parsed, ParseDossier, DayInv, HasDay
      <4>4. StandsBehind(f, d)
        BY <2>6, <4>1, <4>2, <4>3 DEF StandsBehind
      <4>5. IsBehind(f)'
        BY <2>1, <2>2, <2>5, <4>4 DEF IsBehind, StandsBehind
      <4>6. QED
        BY <2>1, <2>5, <3>1, <4>5 DEF IsOnItsWay
    <3>4. CASE (f # name /\ f \in build.todo) \/ Parsed(f) = None
      BY <2>1, <2>2, <2>5, <3>1, <3>4 DEF IsOnItsWay
    <3>5. QED
      BY <3>2, <3>3, <3>4
  <2>8. QED
    BY <2>1, <2>2, <2>5, <2>6, <2>7 DEF IsBuild, ReadInv
<1>6. CASE ListAgain
  <2>1. build.at = "read" /\ build.todo = {} /\ files' = files
    BY <1>6 DEF ListAgain
  <2>2. build' = [at |-> "check", todo |-> DOMAIN files \ {d.name : d \in build.found},
                  found |-> build.found, skipped |-> build.skipped, before |-> build.before,
                  touched |-> build.touched]
    BY <1>6, <2>1 DEF ListAgain, IsBuild
  <2>3. Untouched' = Untouched /\ (\A f : Parsed(f)' = Parsed(f)) /\ build'.at = "check"
    BY <2>1, <2>2 DEF Untouched, Parsed
  <2>4. ASSUME NEW d \in build.found PROVE IsFaithful(d)'
    BY <2>1, <2>3 DEF ReadInv, IsFaithful
  <2>5. ASSUME NEW f \in Untouched PROVE IsOnItsWay(f)'
    <3>1. IsOnItsWay(f)
      BY <2>1 DEF ReadInv
    <3>2. Parsed(f) = None => f \notin {d.name : d \in build.found}
      BY <2>1 DEF ReadInv, IsFaithful
    <3>3. IsBehind(f) => IsBehind(f)'
      BY <2>2, <2>3 DEF IsBehind, StandsBehind
    <3>4. QED
      BY <2>1, <2>2, <2>3, <3>1, <3>2, <3>3 DEF IsOnItsWay
  <2>6. QED
    BY <2>1, <2>2, <2>3, <2>4, <2>5 DEF IsBuild, ReadInv
<1>7. CASE CheckFile
  <2> DEFINE name == CHOOSE f \in build.todo : TRUE
  <2>1. name \in build.todo /\ build.at = "check" /\ files' = files
    BY <1>7 DEF CheckFile
  <2> DEFINE skipped == IF Parsed(name) = None THEN build.skipped \cup {name} ELSE build.skipped
  <2>2. build' = [at |-> "check", todo |-> build.todo \ {name}, found |-> build.found,
                  skipped |-> skipped, before |-> build.before, touched |-> build.touched]
    BY <1>7, <2>1 DEF CheckFile, IsBuild
  <2> HIDE DEF name
  <2>3. Untouched' = Untouched /\ (\A f : Parsed(f)' = Parsed(f)) /\ build'.at = "check"
    BY <2>1, <2>2 DEF Untouched, Parsed
  <2>4. ASSUME NEW d \in build.found PROVE IsFaithful(d)'
    BY <2>1, <2>3 DEF ReadInv, IsFaithful
  <2>5. ASSUME NEW f \in Untouched PROVE IsOnItsWay(f)'
    <3>1. IsOnItsWay(f)
      BY <2>1 DEF ReadInv
    <3>2. IsBehind(f) => IsBehind(f)'
      BY <2>2, <2>3 DEF IsBehind, StandsBehind
    <3>3. QED
      BY <2>1, <2>2, <2>3, <3>1, <3>2 DEF IsOnItsWay
  <2>6. QED
    BY <2>1, <2>2, <2>3, <2>4, <2>5 DEF IsBuild, ReadInv
<1>8. CASE GenerateSite
  <2>1. build' = Idle
    BY <1>8 DEF GenerateSite
  <2>2. QED
    BY <2>1 DEF Idle, IsBuild, ReadInv
<1>9. QED
  <2>1. Next => \/ UNCHANGED <<files, build>> \/ OpenFile \/ (\E file : Write(file))
                \/ StartBuild \/ ReadFile \/ ListAgain \/ CheckFile \/ GenerateSite
    BY DEF Next, StartRun, QuantOnlyDossier, GatherAndAsk, TakeAnswer, RunEnds, WriteFile, WriteTorn,
           Tick, viewer
  <2>2. QED
    BY <1>1, <1>2, <1>3, <1>4, <1>5, <1>6, <1>7, <1>8, <2>1

\* A build that ends has accounted for every file.
LEMMA SiteAccounts ==
  ASSUME IsBuild, ReadInv, GenerateSite, NEW name \in Untouched
  PROVE  Accounted(name)
<1> DEFINE renderable == {d \in build.found : IsWritable(d)}
           twins == DuplicateNames({d.dossier : d \in renderable})
<1>1. /\ build.at = "check" /\ build.todo = {}
      /\ site'.rows = {[name |-> d.name, at |-> d.dossier.front.at,
                        row |-> BuildOverviewRow(d.dossier, twins)] : d \in renderable}
      /\ site'.notices = build.skipped \cup UnwritableNotices(build.found)
  BY DEF GenerateSite
<1>2. IsOnItsWay(name)
  BY <1>1 DEF ReadInv
<1>3. CASE Parsed(name) = None
  BY <1>1, <1>2, <1>3 DEF IsOnItsWay, Accounted
<1>4. CASE Parsed(name) # None
  <2>1. PICK d \in build.found : StandsBehind(name, d)
    BY <1>1, <1>2, <1>4 DEF IsOnItsWay, IsBehind
  <2>2. CASE IsWritable(d)
    <3> DEFINE r == [name |-> d.name, at |-> d.dossier.front.at,
                     row |-> BuildOverviewRow(d.dossier, twins)]
    <3>1. r \in site'.rows
      BY <1>1, <2>2
    <3>2. r.at = d.dossier.front.at /\ r.row.ticker = d.dossier.front.ticker
      BY DEF BuildOverviewRow
    <3> HIDE DEF r
    <3>3. QED
      BY <1>4, <2>1, <3>1, <3>2 DEF Accounted, StandsBehind
  <2>3. CASE ~IsWritable(d)
    <3>1. d.name \in site'.notices
      BY <1>1, <2>3 DEF UnwritableNotices
    <3>2. QED
      BY <1>4, <2>1, <3>1 DEF Accounted, StandsBehind
  <2>4. QED
    BY <2>2, <2>3
<1>5. QED
  BY <1>3, <1>4
-----------------------------------------------------------------------------
(***************************************************************************)
(* What a reader finds in an excerpt of a dossier.                         *)
(***************************************************************************)
\* One list behind another.
IsJoint(e, a, b, S) ==
  /\ e \in Seq(S) /\ Len(e) = Len(a) + Len(b)
  /\ \A k \in 1..(Len(a) + Len(b)) : e[k] = IF k <= Len(a) THEN a[k] ELSE b[k - Len(a)]

\* That is what \o makes of two lists.
LEMMA JointIs == \A S : \A a, b \in Seq(S) : IsJoint(a \o b, a, b, S)
  BY ConcatProperties DEF IsJoint

\* Where the elements of three lists stand, one behind the other.
Row(e, a, b, c, l, m, n) ==
  /\ DOMAIN e = 1..(l + m + n) /\ Len(e) = l + m + n /\ \E S : e \in Seq(S)
  /\ \A k \in 1..l : e[k] = a[k]
  /\ \A k \in 1..m : e[l + k] = b[k]
  /\ \A k \in 1..n : e[l + m + k] = c[k]

\* That is where they stand in the three lists joined.
LEMMA ThreeLists ==
  ASSUME NEW S, NEW a \in Seq(S), NEW b \in Seq(S), NEW c \in Seq(S),
         NEW l \in Nat, NEW m \in Nat, NEW n \in Nat,
         Len(a) = l, Len(b) = m, Len(c) = n
  PROVE  Row((a \o b) \o c, a, b, c, l, m, n)
<1> DEFINE e == (a \o b) \o c
<1> DEFINE d == a \o b
<1>1. IsJoint(d, a, b, S)
  BY JointIs, Zenon
<1>2. e = d \o c
  BY Zenon
<1> HIDE DEF d, e
<1>3. IsJoint(e, d, c, S)
  <2>1. d \in Seq(S)
    BY <1>1, Zenon DEF IsJoint
  <2>2. IsJoint(d \o c, d, c, S)
    BY <2>1, JointIs, Zenon
  <2>3. QED
    BY <1>2, <2>2, Zenon
<1>4. \A k \in 1..l : e[k] = a[k]
  BY <1>1, <1>3 DEF IsJoint
<1>5. \A k \in 1..m : e[l + k] = b[k]
  BY <1>1, <1>3 DEF IsJoint
<1>6. \A k \in 1..n : e[l + m + k] = c[k]
  BY <1>1, <1>3 DEF IsJoint
<1>7. DOMAIN e = 1..(l + m + n) /\ Len(e) = l + m + n
  BY <1>1, <1>3 DEF IsJoint
<1>8. Row(e, a, b, c, l, m, n)
  <2>1. \E T : e \in Seq(T)
    BY <1>3, Zenon DEF IsJoint
  <2>2. QED
    BY <1>7, <1>4, <1>5, <1>6, <2>1, Zenon DEF Row
<1>9. QED
  BY <1>8, Zenon DEF e

\* Where the chunks of a dossier stand.
IsBodyOf(body, record, n) ==
  /\ DOMAIN body = 1..(n + 7) /\ Len(body) = n + 7 /\ \E S : body \in Seq(S)
  /\ body[1].section = "title" /\ body[2].section = "summary" /\ body[3].section = "headline"
  /\ body[4] = Chunk("valuation", RenderValuationBlock(record.quant))
  /\ body[5] = Chunk("insider", RenderInsiderBlock(record.insider))
  /\ \A k \in 1..n : body[5 + k] = PointChunk(record.points[k])
  /\ body[n + 6] = Chunk("coverage", SourceCoverage(record))
  /\ body[n + 7].section = "notes"

\* That is what GenerateDossier writes.
LEMMA BodyOfDossier ==
  ASSUME NEW record, NEW at, NEW n \in Nat, DOMAIN record.points = 1..n
  PROVE  IsBodyOf(GenerateDossier(record, at).body, record, n)
<1> DEFINE body == GenerateDossier(record, at).body
<1> DEFINE a == <<Chunk("title", record.quant.pit.name),
                  Chunk("summary", IF record.reason # None THEN [text |-> TRUE] ELSE Placeholder),
                  Chunk("headline", Headline(record.quant)),
                  Chunk("valuation", RenderValuationBlock(record.quant)),
                  Chunk("insider", RenderInsiderBlock(record.insider))>>
           b == [k \in 1..n |-> PointChunk(record.points[k])]
           c == <<Chunk("coverage", SourceCoverage(record)), Chunk("notes", Placeholder)>>
           S == {a[k] : k \in 1..5} \cup {b[k] : k \in 1..n} \cup {c[k] : k \in 1..2}
<1>1. body = (a \o b) \o c
  BY Zenon DEF GenerateDossier, a, b, c
<1>2. Len(a) = 5 /\ Len(c) = 2
      /\ a[1].section = "title" /\ a[2].section = "summary" /\ a[3].section = "headline"
      /\ c[2].section = "notes"
  BY DEF Chunk
<1>3. a \in Seq(S) /\ b \in Seq(S) /\ c \in Seq(S) /\ Len(b) = n
  OBVIOUS
<1>4. /\ a[4] = Chunk("valuation", RenderValuationBlock(record.quant))
      /\ a[5] = Chunk("insider", RenderInsiderBlock(record.insider))
      /\ \A k \in 1..n : b[k] = PointChunk(record.points[k])
      /\ c[1] = Chunk("coverage", SourceCoverage(record))
  OBVIOUS
<1> HIDE DEF a, b, c, S, body
<1>5. /\ DOMAIN body = 1..(5 + n + 2) /\ Len(body) = 5 + n + 2 /\ \E T : body \in Seq(T)
      /\ \A k \in 1..5 : body[k] = a[k]
      /\ \A k \in 1..n : body[5 + k] = b[k]
      /\ \A k \in 1..2 : body[5 + n + k] = c[k]
  <2>1. 5 \in Nat /\ 2 \in Nat
    OBVIOUS
  <2>2. Row((a \o b) \o c, a, b, c, 5, n, 2)
    BY <1>2, <1>3, <2>1, ThreeLists, Zenon
  <2>3. Row(body, a, b, c, 5, n, 2)
    BY <1>1, <2>2, Zenon
  <2>4. QED
    BY <2>3, Zenon DEF Row
<1>6. 5 + n + 2 = n + 7 /\ 5 + n + 1 = n + 6
  OBVIOUS
<1>7. body[1] = a[1] /\ body[2] = a[2] /\ body[3] = a[3] /\ body[4] = a[4] /\ body[5] = a[5]
  BY <1>5
<1>8. body[n + 6] = c[1] /\ body[n + 7] = c[2]
  BY <1>5, <1>6
<1>9. IsBodyOf(body, record, n)
  BY <1>2, <1>4, <1>5, <1>6, <1>7, <1>8 DEF IsBodyOf
<1>10. QED
  BY <1>9, Zenon DEF body

\* Which section stands where.
LEMMA SectionsOfDossier ==
  ASSUME NEW record, NEW n \in Nat, NEW body, IsBodyOf(body, record, n), NEW i \in DOMAIN body
  PROVE  /\ (body[i].section = "valuation") <=> (i = 4)
         /\ (body[i].section = "insider") <=> (i = 5)
         /\ (body[i].section = "points") <=> (i \in 6..(n + 5))
         /\ (body[i].section = "coverage") <=> (i = n + 6)
<1>1. /\ DOMAIN body = 1..(n + 7)
      /\ body[1].section = "title" /\ body[2].section = "summary" /\ body[3].section = "headline"
      /\ body[4].section = "valuation" /\ body[5].section = "insider"
      /\ \A k \in 1..n : body[5 + k].section = "points"
      /\ body[n + 6].section = "coverage" /\ body[n + 7].section = "notes"
  <2>1. \A section, content : Chunk(section, content).section = section
    BY DEF Chunk
  <2>2. \A p : PointChunk(p).section = "points"
    BY <2>1, Zenon DEF PointChunk
  <2>3. /\ DOMAIN body = 1..(n + 7)
        /\ body[1].section = "title" /\ body[2].section = "summary" /\ body[3].section = "headline"
        /\ body[n + 7].section = "notes"
    BY Zenon DEF IsBodyOf
  <2>4. body[4].section = "valuation" /\ body[5].section = "insider" /\ body[n + 6].section = "coverage"
    BY <2>1, Zenon DEF IsBodyOf
  <2>5. \A k \in 1..n : body[5 + k].section = "points"
    BY <2>2, Zenon DEF IsBodyOf
  <2>6. QED
    BY <2>3, <2>4, <2>5
<1>2. i \in {1, 2, 3, 4, 5, n + 6, n + 7} \/ (i - 5 \in 1..n /\ i = 5 + (i - 5))
  BY <1>1
<1>3. CASE i \in {1, 2, 3, 4, 5, n + 6, n + 7}
  BY <1>1, <1>3
<1>4. CASE i - 5 \in 1..n /\ i = 5 + (i - 5)
  <2>1. body[i].section = "points"
    BY <1>1, <1>4
  <2>2. QED
    BY <1>4, <2>1
<1>5. QED
  BY <1>2, <1>3, <1>4

\* An excerpt keeps some chunks, in their order.
IsPlaced(q, body, place) ==
  /\ Len(q) \in Nat /\ DOMAIN q = 1..Len(q)
  /\ place \in [DOMAIN q -> DOMAIN body]
  /\ \A k, l \in DOMAIN q : k < l => place[k] < place[l]
  /\ \A k \in DOMAIN q : q[k] = body[place[k]]

\* A section of one chunk is found as it was written, or not at all.
LEMMA OnlyChunk ==
  ASSUME NEW q, NEW body, DOMAIN body \subseteq Int, NEW place, IsPlaced(q, body, place),
         NEW section, NEW j \in DOMAIN body,
         \A i \in DOMAIN body : (body[i].section = section) <=> (i = j)
  PROVE  IF \E k \in DOMAIN q : q[k].section = section
         THEN InSection(q, section) = body[j].content ELSE InSection(q, section) = None
<1> DEFINE found == {k \in DOMAIN q : q[k].section = section}
<1>1. \A k \in found : place[k] = j /\ q[k] = body[j] /\ k \in Int
  BY DEF IsPlaced
<1>2. \A k, l \in found : l <= k
  BY <1>1 DEF IsPlaced
<1>3. CASE found = {}
  BY <1>3 DEF InSection
<1>4. CASE found # {}
  <2> DEFINE last == CHOOSE k \in found : \A l \in found : l <= k
  <2>1. last \in found
    BY <1>2, <1>4
  <2>2. InSection(q, section) = q[last].content
    BY <1>4, Zenon DEF InSection
  <2> HIDE DEF last
  <2>3. QED
    BY <1>1, <2>1, <2>2
<1>5. QED
  BY <1>3, <1>4

\* The card of a point.
PointOfCard(card, p) ==
  /\ card.absent = FALSE /\ card.stars = p.rating /\ card.dot = p.confidence
  /\ card.sources = p.tail \o p.sources

\* A card shows the last point of its number that the excerpt has, or none.
LEMMA CardOfExcerpt ==
  ASSUME NEW record, NEW n \in Nat, DOMAIN record.points = 1..n, NEW body, IsBodyOf(body, record, n),
         NEW q, NEW place, IsPlaced(q, body, place), NEW num \in FISHER_POINTS
  PROVE  LET card == PointCard(ParsePoints(q)[num])
             here == {k \in 1..n : record.points[k].number = num /\ \E l \in DOMAIN q : place[l] = k + 5}
         IN IF here = {} THEN card.absent
            ELSE \E k \in here : PointOfCard(card, record.points[k]) /\ \A l \in here : l <= k
<1> DEFINE found == {k \in DOMAIN q : q[k].section = "points" /\ q[k].content.number = num}
           here == {k \in 1..n : record.points[k].number = num /\ \E l \in DOMAIN q : place[l] = k + 5}
           card == PointCard(ParsePoints(q)[num])
<1>1. DOMAIN body = 1..(n + 7) /\ \A k \in 1..n : body[5 + k] = PointChunk(record.points[k])
  BY DEF IsBodyOf
<1>2. \A p : /\ PointChunk(p).section = "points" /\ PointChunk(p).content.number = p.number
             /\ PointChunk(p).content.rating = p.rating
             /\ PointChunk(p).content.confidence = p.confidence
             /\ PointChunk(p).content.markers = p.tail \o p.sources
  BY Zenon DEF PointChunk, Chunk
<1>3. \A k \in DOMAIN q : /\ k \in Int /\ place[k] \in 1..(n + 7) /\ q[k] = body[place[k]]
                          /\ (q[k].section = "points" => place[k] \in 6..(n + 5))
  BY <1>1, SectionsOfDossier DEF IsPlaced
<1>4. ASSUME NEW k \in found
      PROVE  place[k] - 5 \in here /\ q[k] = PointChunk(record.points[place[k] - 5])
             /\ place[k] = (place[k] - 5) + 5
  <2>1. place[k] \in 6..(n + 5) /\ q[k] = body[place[k]]
    BY <1>3
  <2>2. place[k] - 5 \in 1..n /\ place[k] = 5 + (place[k] - 5) /\ place[k] = (place[k] - 5) + 5
    BY <2>1
  <2>3. q[k] = PointChunk(record.points[place[k] - 5])
    BY <1>1, <2>1, <2>2
  <2>4. record.points[place[k] - 5].number = num
    BY <1>2, <2>3
  <2>5. QED
    BY <2>2, <2>3, <2>4
<1>5. ASSUME NEW k \in here
      PROVE  \E l \in found : place[l] = k + 5
  <2>1. PICK l \in DOMAIN q : place[l] = k + 5
    OBVIOUS
  <2>2. q[l] = PointChunk(record.points[k])
    BY <1>1, <1>3, <2>1
  <2>3. QED
    BY <1>2, <2>1, <2>2
<1>6. CASE found = {}
  <2>1. here = {}
    BY <1>5, <1>6
  <2>2. ParsePoints(q)[num] = [placeholder |-> TRUE]
    BY <1>6, Zenon DEF ParsePoints
  <2>3. card = [absent |-> TRUE]
    BY <2>2 DEF PointCard
  <2>4. QED
    BY <2>1, <2>3
<1>7. CASE found # {}
  <2> DEFINE last == CHOOSE k \in found : \A l \in found : l <= k
  <2>1. last \in found /\ \A l \in found : l <= last
    <3>1. found \in SUBSET Int /\ IsFiniteSet(found)
      <4>1. Len(q) \in Nat /\ found \in SUBSET (1..Len(q))
        BY DEF IsPlaced
      <4> HIDE DEF found
      <4>2. IsFiniteSet(1..Len(q))
        BY <4>1, FS_Interval
      <4>3. IsFiniteSet(found)
        BY <4>1, <4>2, FS_Subset
      <4>4. QED
        BY <4>1, <4>3
    <3>2. \E k \in found : \A l \in found : l <= k
      BY <1>7, <3>1, ExtremesExist
    <3>3. QED
      BY <3>2
  <2> DEFINE p == record.points[place[last] - 5]
  <2>2. ParsePoints(q)[num] = [placeholder |-> FALSE, rating |-> q[last].content.rating,
                               confidence |-> q[last].content.confidence,
                               sources |-> q[last].content.markers]
    BY <1>7, Zenon DEF ParsePoints
  <2> HIDE DEF last, card
  <2>3. q[last] = PointChunk(p) /\ place[last] - 5 \in here
    BY <1>4, <2>1
  <2>4. PointOfCard(card, p)
    <3> DEFINE shown == ParsePoints(q)[num]
    <3>1. /\ shown.placeholder = FALSE /\ shown.rating = q[last].content.rating
          /\ shown.confidence = q[last].content.confidence
          /\ shown.sources = q[last].content.markers
      BY <2>2
    <3> HIDE DEF shown
    <3>2. /\ PointCard(shown).absent = FALSE /\ PointCard(shown).stars = shown.rating
          /\ PointCard(shown).dot = shown.confidence /\ PointCard(shown).sources = shown.sources
      BY <3>1 DEF PointCard
    <3>3. card = PointCard(shown)
      BY Zenon DEF card, shown
    <3> HIDE DEF p
    <3>4. QED
      BY <1>2, <2>3, <3>1, <3>2, <3>3, Zenon DEF PointOfCard
  <2>5. ASSUME NEW k \in here PROVE k <= place[last] - 5
    <3>1. PICK l \in found : place[l] = k + 5
      BY <1>5
    <3>2. l <= last /\ l \in Int /\ last \in Int /\ place[last] \in Int
      BY <1>3, <2>1
    <3>3. l = last \/ place[l] < place[last]
      BY <2>1, <3>2 DEF IsPlaced
    <3>4. QED
      BY <3>1, <3>2, <3>3
  <2>6. QED
    BY <2>3, <2>4, <2>5 DEF card
<1>8. QED
  BY <1>6, <1>7

\* The only line of ranges is that of the record, segment by segment.
LEMMA RangesOfExcerpt ==
  ASSUME NEW quant, NEW dossier, NEW block, block \in {None, RenderValuationBlock(quant)},
         dossier.valuation = ParseValuationSection(block),
         \A k \in DOMAIN RenderValuationRange(quant).segments :
            RenderValuationRange(quant).segments[k].val = None
  PROVE  \A line \in QuantSection(dossier).ranges :
           \A k \in DOMAIN line.segments : line.segments[k].val = None
<1> DEFINE lines == RenderValuationBlock(quant).lines
           metrics == dossier.valuation.metrics
<1>1. DOMAIN lines = 1..5 /\ lines[2] = RenderValuationRange(quant)
      /\ \A k \in 1..5 : lines[k].label = "Bewertungs-Range" => k = 2
  <2>1. \A label, x : Line(label, x).label = label
    BY DEF Line
  <2>2. RenderConsensus(quant.pit).label = "Analyst Consensus"
        /\ RenderForward(quant.forward).label = "Forward-Konsens"
    BY <2>1, Zenon DEF RenderConsensus, RenderForward
  <2> DEFINE a == Line("Bewertung", <<Maybe("P/E trail.", quant.pit.pe), EvEbit(quant.pit), EvSales(quant),
                                    FcfYield("FCF-Yield", quant.pit.fcf, quant.pit.cap),
                                    Maybe("Div-Yield", quant.pit.dividend), Maybe("Payout", quant.pit.payout)>>)
             b == Line("Kapitalstruktur", <<InterestCoverage(quant.pit), TotalShareholderYield(quant)>>)
             range == RenderValuationRange(quant)
             consensus == RenderConsensus(quant.pit)
             forward == RenderForward(quant.forward)
  <2>3. a.label = "Bewertung" /\ b.label = "Kapitalstruktur"
    BY <2>1, Zenon
  <2>4. lines = <<a, range, b, consensus, forward>>
    BY DEF RenderValuationBlock
  <2>5. consensus.label = "Analyst Consensus" /\ forward.label = "Forward-Konsens"
    BY <2>2
  <2> HIDE DEF lines, a, b, range, consensus, forward
  <2>6. DOMAIN lines = 1..5 /\ lines[2] = range
        /\ \A k \in 1..5 : lines[k].label = "Bewertungs-Range" => k = 2
    <3>1. DOMAIN lines = 1..5 /\ lines[1] = a /\ lines[2] = range /\ lines[3] = b
          /\ lines[4] = consensus /\ lines[5] = forward
      BY <2>4
    <3>2. ASSUME NEW k \in 1..5, lines[k].label = "Bewertungs-Range"
          PROVE  k = 2
      <4>1. k \in {1, 2, 3, 4, 5}
        OBVIOUS
      <4>2. QED
        BY <2>3, <2>5, <3>1, <3>2, <4>1
    <3>3. QED
      BY <3>1, <3>2
  <2>7. QED
    BY <2>6 DEF range
<1> HIDE DEF lines
<1>2. QuantSection(dossier).ranges =
        {RangeLine(dossier, metrics[k]) :
           k \in {j \in DOMAIN metrics : metrics[j].block = "Bewertungs-Range"}}
  BY DEF QuantSection
<1>3. CASE block = None
  <2>1. ParseValuationSection(block).metrics = <<>>
    BY <1>3 DEF ParseValuationSection
  <2>2. DOMAIN metrics = {}
    BY <2>1
  <2> HIDE DEF metrics
  <2>3. QED
    BY <1>2, <2>2
<1>4. CASE block # None
  <2>1. ParseValuationSection(block).metrics =
          [k \in DOMAIN lines |-> [block |-> lines[k].label, values |-> ParseMetricLine(lines[k]),
                                   raw |-> lines[k].segments]]
    <3>1. block.lines = lines
      BY <1>4 DEF lines
    <3>2. QED
      BY <1>4, <3>1 DEF ParseValuationSection
  <2>2. /\ DOMAIN metrics = 1..5
        /\ \A k \in 1..5 : metrics[k].block = lines[k].label /\ metrics[k].raw = lines[k].segments
    BY <1>1, <2>1
  <2> HIDE DEF metrics
  <2>3. ASSUME NEW line \in QuantSection(dossier).ranges
        PROVE  line.segments = RenderValuationRange(quant).segments
    <3>1. PICK k \in 1..5 : line = RangeLine(dossier, metrics[k]) /\ lines[k].label = "Bewertungs-Range"
      BY <1>2, <2>2
    <3>2. k = 2
      BY <1>1, <3>1
    <3>3. \A m : RangeLine(dossier, m).segments = m.raw
      BY DEF RangeLine
    <3>4. QED
      BY <1>1, <2>2, <3>1, <3>2, <3>3
  <2>4. QED
    BY <2>3
<1>5. QED
  BY <1>3, <1>4

\* A file with front matter that was written of a well-made record gives a page that keeps what
\* the record promises.
LEMMA PageOfDossier ==
  ASSUME NEW d, NEW file, d.dossier = ParseDossier(file), file.front # None,
         IsDossierOf(file, d.record)
  PROVE  IsGroundedPage(Page(d)) /\ TellsTheRecord(Page(d))
<1> DEFINE record == d.record
           n == Len(record.points)
           body == GenerateDossier(record, file.front.at).body
           q == file.body
           page == RenderDetail(d.dossier)
           whole == d.dossier.coverage # None
           Here(num, place) == {k \in 1..n : record.points[k].number = num
                                             /\ \E l \in DOMAIN q : place[l] = k + 5}
<1>1. IsExcerpt(file, record) /\ WellMade(record)
  BY DEF IsDossierOf
<1>2. n \in Nat /\ DOMAIN record.points = 1..n
  BY <1>1 DEF WellMade
<1>3. IsBodyOf(body, record, n)
  <2> HIDE DEF n, record
  <2>1. QED
    BY <1>2, BodyOfDossier, Zenon
<1>4. /\ file.front = GenerateDossier(record, file.front.at).front
      /\ \E place : /\ IsPlaced(q, body, place)
                    /\ (\E k \in DOMAIN q : q[k].section = "coverage") =>
                         \A j \in DOMAIN body :
                           body[j].section = "points" => \E k \in DOMAIN q : place[k] = j
  <2>1. IsExcerptOf(q, body) /\ file.front = GenerateDossier(record, file.front.at).front
    BY <1>1, Zenon DEF IsExcerpt
  <2> HIDE DEF q, body, record
  <2>2. QED
    BY <2>1, Zenon DEF IsExcerptOf, IsPlaced
<1>5. PICK place : /\ IsPlaced(q, body, place)
                   /\ (\E k \in DOMAIN q : q[k].section = "coverage") =>
                        \A j \in DOMAIN body :
                          body[j].section = "points" => \E k \in DOMAIN q : place[k] = j
  BY <1>4, Zenon
<1>6. Page(d) = [page |-> page, record |-> record, whole |-> whole]
  BY DEF Page
<1>7. /\ d.dossier.front = file.front
      /\ d.dossier.valuation = ParseValuationSection(InSection(q, "valuation"))
      /\ d.dossier.insider = InSection(q, "insider")
      /\ d.dossier.points = ParsePoints(q)
      /\ d.dossier.coverage = InSection(q, "coverage")
  BY DEF ParseDossier
<1>8. /\ \A num \in FISHER_POINTS : page.points[num] = PointCard(ParsePoints(q)[num])
      /\ page.insider = InSection(q, "insider")
      /\ page.pills = [item \in DOMAIN file.front.flags |-> FlagClass(file.front.flags[item])]
      /\ page.coverage = InSection(q, "coverage")
      /\ page.quant = QuantSection(d.dossier)
  BY <1>7 DEF RenderDetail
<1> HIDE DEF record, n, body, q, page, whole
<1>9. DOMAIN body = 1..(n + 7) /\ body[4].content = RenderValuationBlock(record.quant)
      /\ body[5].content = RenderInsiderBlock(record.insider)
      /\ body[n + 6].content = SourceCoverage(record)
  BY <1>3 DEF IsBodyOf, Chunk
<1>10. \A i \in DOMAIN body : /\ (body[i].section = "valuation") <=> (i = 4)
                              /\ (body[i].section = "insider") <=> (i = 5)
                              /\ (body[i].section = "points") <=> (i \in 6..(n + 5))
                              /\ (body[i].section = "coverage") <=> (i = n + 6)
  BY <1>2, <1>3, SectionsOfDossier
<1>11. DOMAIN body \subseteq Int /\ 4 \in DOMAIN body /\ 5 \in DOMAIN body /\ n + 6 \in DOMAIN body
  BY <1>2, <1>9
<1>12. InSection(q, "insider") \in {None, RenderInsiderBlock(record.insider)}
  <2>1. IF \E k \in DOMAIN q : q[k].section = "insider"
        THEN InSection(q, "insider") = body[5].content ELSE InSection(q, "insider") = None
    BY <1>5, <1>10, <1>11, OnlyChunk
  <2>2. QED
    BY <1>9, <2>1
<1>13. InSection(q, "valuation") \in {None, RenderValuationBlock(record.quant)}
  <2>1. IF \E k \in DOMAIN q : q[k].section = "valuation"
        THEN InSection(q, "valuation") = body[4].content ELSE InSection(q, "valuation") = None
    BY <1>5, <1>10, <1>11, OnlyChunk
  <2>2. QED
    BY <1>9, <2>1
<1>14. InSection(q, "coverage") # None =>
         /\ InSection(q, "coverage") = SourceCoverage(record)
         /\ \E k \in DOMAIN q : q[k].section = "coverage"
  <2>1. IF \E k \in DOMAIN q : q[k].section = "coverage"
        THEN InSection(q, "coverage") = body[n + 6].content ELSE InSection(q, "coverage") = None
    BY <1>5, <1>10, <1>11, OnlyChunk
  <2>2. QED
    BY <1>9, <2>1
<1>15. ASSUME NEW num \in FISHER_POINTS
       PROVE  /\ IF Here(num, place) = {} THEN page.points[num].absent
                 ELSE \E k \in Here(num, place) : /\ PointOfCard(page.points[num], record.points[k])
                                                  /\ \A l \in Here(num, place) : l <= k
              /\ Here(num, place) \subseteq Numbered(record, num)
              /\ whole => Here(num, place) = Numbered(record, num)
  <2>1. IF Here(num, place) = {} THEN page.points[num].absent
        ELSE \E k \in Here(num, place) : /\ PointOfCard(page.points[num], record.points[k])
                                         /\ \A l \in Here(num, place) : l <= k
    BY <1>2, <1>3, <1>5, <1>8, CardOfExcerpt
  <2>2. Here(num, place) \subseteq Numbered(record, num)
    BY <1>2 DEF Numbered
  <2>3. ASSUME whole, NEW k \in Numbered(record, num)
        PROVE  k \in Here(num, place)
    <3>1. k \in 1..n /\ record.points[k].number = num
      BY <1>2 DEF Numbered
    <3>2. k + 5 \in DOMAIN body /\ body[k + 5].section = "points"
      BY <1>2, <1>9, <1>10, <3>1
    <3>3. \E l \in DOMAIN q : place[l] = k + 5
      BY <1>5, <1>7, <1>14, <2>3, <3>2 DEF whole
    <3>4. QED
      BY <3>1, <3>3
  <2>4. QED
    BY <2>1, <2>2, <2>3
<1>16. \A num \in FISHER_POINTS : CardTells(page.points[num], num, record, whole)
  <2>1. ASSUME NEW num \in FISHER_POINTS
        PROVE  CardTells(page.points[num], num, record, whole)
    <3> HIDE DEF Here
    <3>1. CASE Here(num, place) = {}
      BY <1>15, <3>1 DEF CardTells
    <3>2. CASE Here(num, place) # {}
      BY <1>15, <3>2 DEF CardTells, PointOfCard, IsCardOf
    <3>3. QED
      BY <3>1, <3>2
  <2>2. QED
    BY <2>1
<1>17. IsGroundedPage([page |-> page, record |-> record, whole |-> whole])
  <2>1. ASSUME NEW num \in FISHER_POINTS,
               IF page.points[num].absent THEN FALSE ELSE page.points[num].dot = "green"
        PROVE  \E k \in Numbered(record, num) :
                 /\ IsCardOf(page.points[num], record.points[k])
                 /\ CodeGrounds(record, record.points[k])
    <3> HIDE DEF Here
    <3>1. PICK k \in Numbered(record, num) : PointOfCard(page.points[num], record.points[k])
      BY <1>15, <2>1
    <3>2. record.points[k].confidence = "green" /\ k \in DOMAIN record.points
      BY <2>1, <3>1 DEF PointOfCard, Numbered
    <3>3. QED
      BY <1>1, <3>1, <3>2, Zenon DEF WellMade, PointOfCard, IsCardOf, record
  <2>2. QED
    BY <2>1, Zenon DEF IsGroundedPage
<1>18. \A item \in DOMAIN page.pills : page.pills[item] = "green" => WasSentUncut(item, record)
  <2>1. file.front.flags = [item \in DOMAIN record.flags |-> FlagStr(record.flags[item])]
    <3>1. \A r, at : GenerateDossier(r, at).front.flags = [item \in DOMAIN r.flags |-> FlagStr(r.flags[item])]
      BY Zenon DEF GenerateDossier
    <3>2. QED
      BY <1>4, <3>1 DEF record
  <2>2. \A item \in DOMAIN record.flags :
          FlagClass(FlagStr(record.flags[item])) = "green" => WasSentUncut(item, record)
    BY <1>1, Zenon DEF WellMade, PillsTell, record
  <2>3. QED
    BY <1>8, <2>1, <2>2
<1>19. page.insider # None => InsidersHold(page.insider, record)
  BY <1>1, <1>8, <1>12 DEF WellMade, record
<1>20. MixedCurrenciesAreNoted(page, record)
  <2>1. SUFFICES ASSUME page.coverage # None, None \notin record.currencies,
                        Cardinality(record.currencies) = 2
                 PROVE  /\ page.coverage.currencyNote
                        /\ \A line \in page.quant.ranges :
                             \A k \in DOMAIN line.segments : line.segments[k].val = None
    BY Zenon DEF MixedCurrenciesAreNoted
  <2>2. /\ record.quant.currencyNote
        /\ \A k \in DOMAIN RenderValuationRange(record.quant).segments :
             RenderValuationRange(record.quant).segments[k].val = None
    BY <1>1, <2>1, Zenon DEF WellMade, CurrenciesAreApart, record
  <2>3. page.coverage.currencyNote
    BY <1>8, <1>14, <2>1, <2>2 DEF SourceCoverage
  <2>4. \A line \in page.quant.ranges : \A k \in DOMAIN line.segments : line.segments[k].val = None
    BY <1>7, <1>8, <1>13, <2>2, RangesOfExcerpt
  <2>5. QED
    BY <2>3, <2>4
<1>21. TellsTheRecord([page |-> page, record |-> record, whole |-> whole])
  BY <1>16, <1>18, <1>19, <1>20, Zenon DEF TellsTheRecord
<1>22. QED
  BY <1>6, <1>17, <1>21

-----------------------------------------------------------------------------
(***************************************************************************)
(* What a deep dive leaves in the directory.                               *)
(***************************************************************************)
\* A dossier, and one whose end is missing, are written of their record.
LEMMA WrittenFiles ==
  ASSUME NEW record, WellMade(record), NEW at \in Int, NEW file, file = GenerateDossier(record, at)
  PROVE  /\ IsDossierOf(file, record)
         /\ \A k \in Nat : k < Len(file.body) => IsDossierOf(TornAt(file, k), record)
<1> DEFINE n == Len(record.points)
           body == file.body
<1>1. n \in Nat /\ DOMAIN record.points = 1..n
  BY DEF WellMade
<1>2. IsBodyOf(body, record, n)
  <2> HIDE DEF n
  <2>1. QED
    BY <1>1, BodyOfDossier, Zenon
<1>3. file.front.at = at /\ file.front = GenerateDossier(record, at).front
      /\ body = GenerateDossier(record, at).body
  BY DEF GenerateDossier
<1> HIDE DEF body, n
<1>4. /\ DOMAIN body = 1..(n + 7) /\ Len(body) = n + 7 /\ \E S : body \in Seq(S)
  BY <1>2, Zenon DEF IsBodyOf
<1>5. \A i \in DOMAIN body : /\ (body[i].section = "points") <=> (i \in 6..(n + 5))
                             /\ (body[i].section = "coverage") <=> (i = n + 6)
  BY <1>1, <1>2, SectionsOfDossier
<1>6. ASSUME NEW m \in Nat, m <= n + 7, NEW q, DOMAIN q = 1..m, Len(q) = m,
             \A i \in 1..m : q[i] = body[i], NEW f, f.front = file.front, f.body = q
      PROVE  IsDossierOf(f, record)
  <2> DEFINE place == [i \in 1..m |-> i]
  <2>1. 1..m \subseteq 1..(n + 7)
    BY <1>1, <1>6
  <2>2. place \in [DOMAIN q -> DOMAIN body]
    BY <1>4, <1>6, <2>1
  <2>3. \A k, l \in DOMAIN q : k < l => place[k] < place[l]
    BY <1>6
  <2>4. \A k \in DOMAIN q : q[k] = body[place[k]]
    BY <1>6
  <2>5. ASSUME NEW k \in DOMAIN q, q[k].section = "coverage",
               NEW j \in DOMAIN body, body[j].section = "points"
        PROVE  \E l \in DOMAIN q : place[l] = j
    <3>1. k = n + 6 /\ j \in 6..(n + 5)
      BY <1>4, <1>5, <1>6, <2>1, <2>5
    <3>2. j \in 1..m
      BY <1>1, <1>6, <2>5, <3>1
    <3>3. QED
      BY <1>6, <3>2
  <2> HIDE DEF place
  <2>6. /\ f.front = GenerateDossier(record, f.front.at).front /\ f.front.at \in Int
        /\ body = GenerateDossier(record, f.front.at).body
    BY <1>3, <1>6
  <2>7. DOMAIN q = 1..Len(q) /\ Len(q) \in Nat
    BY <1>6
  <2>8. IsExcerptOf(q, body)
    BY <2>2, <2>3, <2>4, <2>5, <2>7 DEF IsExcerptOf
  <2>9. IsExcerpt(f, record)
    BY <1>6, <2>6, <2>8 DEF IsExcerpt
  <2>10. QED
    BY <2>9 DEF IsDossierOf
<1>7. IsDossierOf(file, record)
  <2>1. n + 7 \in Nat /\ n + 7 <= n + 7
    BY <1>1
  <2>2. QED
    BY <1>4, <1>6, <2>1 DEF body
<1>8. ASSUME NEW k \in Nat, k < Len(body)
      PROVE  IsDossierOf(TornAt(file, k), record)
  <2>1. PICK S : body \in Seq(S)
    BY <1>4
  <2>2. k <= n + 7
    BY <1>1, <1>4, <1>8
  <2> DEFINE q == SubSeq(body, 1, k)
  <2>3. DOMAIN q = 1..k /\ Len(q) = k /\ \A i \in 1..k : q[i] = body[i]
    BY <1>1, <1>4, <1>8, <2>1
  <2>4. TornAt(file, k).front = file.front /\ TornAt(file, k).body = q
    BY <1>3 DEF TornAt, GenerateDossier, body
  <2> HIDE DEF q
  <2>5. QED
    BY <1>6, <2>2, <2>3, <2>4
<1>9. QED
  BY <1>7, <1>8 DEF body
-----------------------------------------------------------------------------
(***************************************************************************)
(* The currencies of a record.                                             *)
(***************************************************************************)
\* A comparison with past years that is not there has no values.
LEMMA RangeWithoutHistory ==
  ASSUME NEW q, \A m \in {"pe", "evEbit", "fcfYield"} : q.history[m].status \in {"skipped_fx", "na_data"}
  PROVE  \A k \in DOMAIN RenderValuationRange(q).segments : RenderValuationRange(q).segments[k].val = None
<1>1. \A label, why : Absent(label, why).val = None
  BY DEF Absent
<1>2. \A label, ttm, stats : stats.status \in {"skipped_fx", "na_data"} =>
        RangeSegment(label, ttm, stats) = Absent(label, stats.status)
  BY DEF RangeSegment
<1>3. q.history.pe.status \in {"skipped_fx", "na_data"} /\ q.history.evEbit.status \in {"skipped_fx", "na_data"}
      /\ q.history.fcfYield.status \in {"skipped_fx", "na_data"}
  OBVIOUS
<1> DEFINE a == RangeSegment("P/E", q.pit.pe, q.history.pe)
           b == RangeSegment("EV/EBIT", EvEbit(q.pit).val, q.history.evEbit)
           c == RangeSegment("FCF-Yield", FcfYield("FCF-Yield", q.pit.fcf, q.pit.cap).val,
                             q.history.fcfYield)
           segments == RenderValuationRange(q).segments
<1>4. a.val = None /\ b.val = None /\ c.val = None
  <2>1. \A label, ttm, stats : stats.status \in {"skipped_fx", "na_data"} =>
          RangeSegment(label, ttm, stats).val = None
    BY <1>1, <1>2
  <2>2. QED
    BY <1>3, <2>1
<1>5. \/ \E why : segments = <<Absent(None, why)>>
      \/ segments = <<a, b, c>>
  <2>1. \A label, s : Line(label, s).segments = s
    BY DEF Line
  <2>2. QED
    BY <2>1, Zenon DEF RenderValuationRange
<1> HIDE DEF a, b, c, segments
<1>6. \A k \in DOMAIN segments : segments[k].val = None
  <2>1. CASE \E why : segments = <<Absent(None, why)>>
    <3>1. PICK why : segments = <<Absent(None, why)>>
      BY <2>1
    <3> DEFINE s == Absent(None, why)
    <3>2. segments = <<s>> /\ s.val = None
      BY <1>1, <3>1
    <3> HIDE DEF s
    <3>3. QED
      BY <3>2
  <2>2. CASE segments = <<a, b, c>>
    BY <1>4, <2>2
  <2>3. QED
    BY <1>5, <2>1, <2>2
<1>7. QED
  BY <1>6 DEF segments

\* Mixed currencies are noted, and not compared with past years.
LEMMA CurrenciesOfRecord ==
  ASSUME NEW input, IsInput(input), NEW record, record.quant = QuantOf(input),
         record.currencies = {input.raw.currency, QuantOf(input).pit.currency}
  PROVE  CurrenciesAreApart(record)
<1> DEFINE snapshot == BuildQuantSnapshot(input.cached, input.live, input.raw, input.forward)
           quant == QuantOf(input)
<1>1. /\ quant.pit = snapshot.pit /\ quant.history = input.raw.history
      /\ quant.currencyNote = CurrencyNote(input.raw, snapshot.pit.currency)
  BY DEF QuantOf, BuildQuantSnapshot
<1>2. LET listing == snapshot.pit.currency
      IN listing # None /\ input.raw.currency # None /\ listing # input.raw.currency =>
          \A m \in {"pe", "evEbit", "fcfYield"} :
             input.raw.history[m].status \in {"skipped_fx", "na_data"}
  BY Zenon DEF IsInput
<1> HIDE DEF snapshot, quant
<1>3. record.quant = quant /\ record.currencies = {input.raw.currency, quant.pit.currency}
  BY Zenon DEF quant
<1>4. SUFFICES ASSUME None \notin record.currencies, Cardinality(record.currencies) = 2
               PROVE  /\ record.quant.currencyNote
                      /\ LET segments == RenderValuationRange(record.quant).segments
                         IN \A k \in DOMAIN segments : segments[k].val = None
  BY Zenon DEF CurrenciesAreApart
<1>5. input.raw.currency # quant.pit.currency
  <2>1. SUFFICES ASSUME input.raw.currency = quant.pit.currency PROVE FALSE
    OBVIOUS
  <2>2. record.currencies = {quant.pit.currency}
    BY <1>3, <2>1
  <2>3. Cardinality(record.currencies) = 1
    BY <2>2, FS_Singleton
  <2>4. QED
    BY <1>4, <2>3
<1>6. input.raw.currency # None /\ quant.pit.currency # None
  BY <1>3, <1>4
<1>7. record.quant.currencyNote
  BY <1>1, <1>3, <1>5, <1>6 DEF CurrencyNote
<1>8. \A m \in {"pe", "evEbit", "fcfYield"} : quant.history[m].status \in {"skipped_fx", "na_data"}
  BY <1>1, <1>2, <1>5, <1>6
<1>9. \A k \in DOMAIN RenderValuationRange(quant).segments :
         RenderValuationRange(quant).segments[k].val = None
  BY <1>8, RangeWithoutHistory
<1>10. QED
  BY <1>3, <1>7, <1>9
-----------------------------------------------------------------------------
(***************************************************************************)
(* What is said of insiders.                                               *)
(***************************************************************************)
\* Two parts of a finite set that share nothing count what their union counts.
LEMMA DisjointParts ==
  ASSUME NEW S, NEW T, IsFiniteSet(S), T \subseteq S
  PROVE  Cardinality(S) = Cardinality(T) + Cardinality(S \ T)
         /\ Cardinality(T) \in Nat /\ Cardinality(S \ T) \in Nat /\ IsFiniteSet(T) /\ IsFiniteSet(S \ T)
<1>1. S \cap T = T /\ T \in SUBSET S /\ S \ T \in SUBSET S
  OBVIOUS
<1>2. IsFiniteSet(T) /\ IsFiniteSet(S \ T)
  BY <1>1, FS_Subset
<1>3. Cardinality(S \ T) = Cardinality(S) - Cardinality(T)
  BY <1>1, FS_Difference
<1>4. Cardinality(S) \in Nat /\ Cardinality(T) \in Nat /\ Cardinality(S \ T) \in Nat
  BY <1>2, FS_CardinalityType
<1>5. QED
  BY <1>2, <1>3, <1>4

IsSummary(s, state, parsed) ==
  /\ s.state = state /\ s.parsed = parsed
  /\ s.total = Cardinality(DOMAIN s.buys) + Cardinality(DOMAIN s.sells) + s.immaterial + s.routine

\* Every transaction of the summary is a purchase, a significant sale, another sale or routine.
LEMMA EveryTransactionCounts ==
  ASSUME NEW q, IsFiniteSet(DOMAIN q), NEW state, NEW filings, NEW parsed
  PROVE  IsSummary(ComputeInsiderSummary(q, state, filings, parsed), state, parsed)
<1> DEFINE s == ComputeInsiderSummary(q, state, filings, parsed)
           buys == {p \in DOMAIN q : q[p].bucket = "buy"}
           sales == {p \in DOMAIN q : q[p].bucket = "sell"}
           large == {p \in sales : IsSignificantSale(q, q[p])}
           others == DOMAIN q \ (buys \cup sales)
<1>1. /\ s.total = Cardinality(DOMAIN q) /\ s.state = state /\ s.parsed = parsed
      /\ s.buys = Restrict(q, buys) /\ s.sells = Restrict(q, large)
      /\ s.immaterial = Cardinality(sales \ large) /\ s.routine = Cardinality(others)
  BY Zenon DEF ComputeInsiderSummary
<1>2. DOMAIN s.buys = buys /\ DOMAIN s.sells = large
  BY <1>1 DEF Restrict
<1>3. /\ buys \subseteq DOMAIN q /\ sales \subseteq DOMAIN q \ buys /\ large \subseteq sales
      /\ others = (DOMAIN q \ buys) \ sales
  BY Zenon
<1> HIDE DEF s, buys, sales, large, others
<1>4. Cardinality(DOMAIN q) = Cardinality(buys) + Cardinality(DOMAIN q \ buys)
      /\ IsFiniteSet(DOMAIN q \ buys) /\ Cardinality(buys) \in Nat /\ Cardinality(DOMAIN q \ buys) \in Nat
  BY <1>3, DisjointParts
<1>5. Cardinality(DOMAIN q \ buys) = Cardinality(sales) + Cardinality(others)
      /\ IsFiniteSet(sales) /\ Cardinality(sales) \in Nat /\ Cardinality(others) \in Nat
  BY <1>3, <1>4, DisjointParts
<1>6. Cardinality(sales) = Cardinality(large) + Cardinality(sales \ large)
      /\ Cardinality(large) \in Nat /\ Cardinality(sales \ large) \in Nat
  BY <1>3, <1>5, DisjointParts
<1>7. s.total = Cardinality(DOMAIN s.buys) + Cardinality(DOMAIN s.sells) + s.immaterial + s.routine
  BY <1>1, <1>2, <1>4, <1>5, <1>6
<1>8. IsSummary(s, state, parsed)
  BY <1>1, <1>7, Zenon DEF IsSummary
<1>9. QED
  BY <1>8 DEF s

\* Finitely many forms have finitely many transactions.
LEMMA FinitelyManyTransactions ==
  ASSUME NEW forms, Len(forms) \in Nat, DOMAIN forms = 1..Len(forms), NEW S,
         \A k \in DOMAIN forms : forms[k].rows \in Seq(S)
  PROVE  IsFiniteSet(DOMAIN ParseForm4(forms))
<1> DEFINE Rows(k) == {k} \X DOMAIN forms[k].rows
           All == {Rows(k) : k \in DOMAIN forms}
<1>1. ASSUME NEW k \in DOMAIN forms
      PROVE  IsFiniteSet(Rows(k))
  <2>1. PICK n \in Nat : DOMAIN forms[k].rows = 1..n
    BY LenProperties
  <2>2. IsFiniteSet(1..n)
    BY FS_Interval
  <2>3. IsFiniteSet({k})
    BY FS_Singleton, Zenon
  <2>4. QED
    BY <2>1, <2>2, <2>3, FS_Product
<1>2. DOMAIN ParseForm4(forms) = UNION All
  BY Zenon DEF ParseForm4
<1>3. IsFiniteSet(DOMAIN forms)
  BY FS_Interval
<1>4. IsFiniteSet(All)
  <2> DEFINE f == [k \in DOMAIN forms |-> Rows(k)]
  <2>1. All = {f[k] : k \in DOMAIN forms}
    OBVIOUS
  <2> HIDE DEF f, All
  <2>2. QED
    BY <1>3, <2>1, FinitelyManyValues
<1>5. \A T \in All : IsFiniteSet(T)
  BY <1>1
<1> HIDE DEF All
<1>6. QED
  BY <1>2, <1>4, <1>5, FS_UNION

\* What the block says of insiders follows from the summary.
LEMMA BlockOfInsiders ==
  ASSUME NEW summary
  PROVE  LET block == RenderInsiderBlock(summary)
         IN /\ block.sentence = InsiderSentence(summary)
            /\ block.counts = IF InsiderSentence(summary) # "counted" THEN None
                 ELSE [total |-> summary.total, buys |-> Cardinality(DOMAIN summary.buys),
                       sells |-> Cardinality(DOMAIN summary.sells), immaterial |-> summary.immaterial,
                       routine |-> summary.routine]
  BY Zenon DEF RenderInsiderBlock

\* Of an issuer with an annual form nothing is said of insiders that was not established.
LEMMA InsidersOfFiler ==
  ASSUME NEW input, IsInput(input), NEW form \in {"10-K", "20-F"}, NEW record,
         record.form = form, record.insider = BuildInsiderSummary(form, input.skip, input.fetched)
  PROVE  InsidersHold(RenderInsiderBlock(record.insider), record)
<1> DEFINE summary == record.insider
           block == RenderInsiderBlock(summary)
           forms == input.fetched.forms
<1>1. /\ block.sentence = InsiderSentence(summary)
      /\ block.counts = IF InsiderSentence(summary) # "counted" THEN None
           ELSE [total |-> summary.total, buys |-> Cardinality(DOMAIN summary.buys),
                 sells |-> Cardinality(DOMAIN summary.sells), immaterial |-> summary.immaterial,
                 routine |-> summary.routine]
  BY BlockOfInsiders, Zenon
<1>2. CASE input.skip \/ form = "20-F" \/ input.fetched = None
  <2>1. \/ summary = InsiderSummary("skipped")
        \/ (summary = InsiderSummary("fpi_exempt") /\ form = "20-F")
        \/ (summary = InsiderSummary("fetch_failed") /\ form = "10-K")
    BY <1>2 DEF BuildInsiderSummary
  <2>2. \A state : InsiderSummary(state).state = state
    BY DEF InsiderSummary
  <2>3. \/ summary.state = "skipped" \/ (summary.state = "fpi_exempt" /\ form = "20-F")
        \/ (summary.state = "fetch_failed" /\ form = "10-K")
    BY <2>1, <2>2
  <2>4. InsiderSentence(summary) = summary.state
    BY <2>3 DEF InsiderSentence
  <2> HIDE DEF summary, block
  <2>5. block.counts = None
    BY <1>1, <2>3, <2>4
  <2>6. InsiderClaimHolds(block.sentence, record)
    BY <1>1, <2>3, <2>4 DEF InsiderClaimHolds
  <2>7. InsidersHold(block, record)
    BY <2>5, <2>6 DEF InsidersHold
  <2>8. QED
    BY <2>7 DEF block, summary
<1>3. CASE ~input.skip /\ form = "10-K" /\ input.fetched # None
  <2>1. summary = ComputeInsiderSummary(ParseForm4(forms), input.fetched.state,
                                         input.fetched.filings, Len(forms))
    BY <1>3, Zenon DEF BuildInsiderSummary
  <2>2. /\ \A k \in DOMAIN forms : forms[k].rows \in Seq(TableRow)
        /\ DOMAIN forms = 1..Len(forms) /\ Len(forms) \in Nat
        /\ input.fetched.state \in {"ok", "partial", "fetch_failed", "empty"}
        /\ input.fetched.state \in {"ok", "partial"} => Len(forms) > 0
    BY <1>3, Zenon DEF IsInput
  <2> HIDE DEF summary, block, forms
  <2>3. IsFiniteSet(DOMAIN ParseForm4(forms))
    BY <2>2, FinitelyManyTransactions
  <2>4. IsSummary(summary, input.fetched.state, Len(forms))
    BY <2>1, <2>3, EveryTransactionCounts, Zenon
  <2>5. /\ InsiderSentence(summary) \in {"fetch_failed", "empty", "counted"}
        /\ InsiderSentence(summary) = "counted" => summary.parsed > 0
    BY <2>2, <2>4 DEF InsiderSentence, IsSummary
  <2>6. InsiderClaimHolds(block.sentence, record)
    BY <1>1, <1>3, <2>5 DEF InsiderClaimHolds, summary
  <2>7. block.counts # None =>
          block.counts.total = block.counts.buys + block.counts.sells
                                 + block.counts.immaterial + block.counts.routine
    BY <1>1, <2>4 DEF IsSummary
  <2>8. InsidersHold(block, record)
    BY <2>6, <2>7 DEF InsidersHold
  <2>9. QED
    BY <2>8 DEF block, summary
<1>4. QED
  BY <1>2, <1>3

\* Nor of one without.
LEMMA InsidersOfNoFiler ==
  ASSUME NEW reason \in DOMAIN INSIDER_STATE_BY_REASON, NEW record,
         record.reason = reason, record.insider = InsiderSummary(INSIDER_STATE_BY_REASON[reason])
  PROVE  InsidersHold(RenderInsiderBlock(record.insider), record)
<1> DEFINE summary == record.insider
           block == RenderInsiderBlock(summary)
<1>1. /\ block.sentence = InsiderSentence(summary)
      /\ block.counts = IF InsiderSentence(summary) # "counted" THEN None
           ELSE [total |-> summary.total, buys |-> Cardinality(DOMAIN summary.buys),
                 sells |-> Cardinality(DOMAIN summary.sells), immaterial |-> summary.immaterial,
                 routine |-> summary.routine]
  BY BlockOfInsiders, Zenon
<1>2. /\ reason \in {"no_us_line", "not_sec_registrant", "no_annual_form", "unverifiable_identity"}
      /\ summary.state = IF reason = "unverifiable_identity" THEN "issuer_unidentified" ELSE "no_sec_source"
  BY DEF INSIDER_STATE_BY_REASON, InsiderSummary
<1>3. InsiderSentence(summary) = summary.state
  BY <1>2 DEF InsiderSentence
<1> HIDE DEF summary, block
<1>4. block.counts = None
  BY <1>1, <1>2, <1>3
<1>5. InsiderClaimHolds(block.sentence, record)
  BY <1>1, <1>2, <1>3 DEF InsiderClaimHolds
<1>6. InsidersHold(block, record)
  BY <1>4, <1>5 DEF InsidersHold
<1>7. QED
  BY <1>6 DEF block, summary
-----------------------------------------------------------------------------
(***************************************************************************)
(* The sections of a filing and their pills.                               *)
(***************************************************************************)
\* The least of a set of places is one of them.
LEMMA LeastIsIn ==
  ASSUME NEW T \in SUBSET Nat, T # {}
  PROVE  Least(T) \in T
<1>1. \E n \in T : \A m \in T : n <= m
  BY LeastNumber
<1>2. QED
  BY <1>1, Zenon DEF Least

SectionBody == [blocks : SUBSET Nat, opening : SUBSET (Nat \X STRING), truncated : BOOLEAN]

\* A slice of a filing is a section, and not nothing.
LEMMA SliceIsSection ==
  ASSUME NEW doc \in Seq(FilingBlock), NEW a, NEW next
  PROVE  SliceAligned(doc, a, next) \in SectionBody /\ SliceAligned(doc, a, next) # None
<1>1. ASSUME NEW from, NEW to, NEW opening \in SUBSET (Nat \X STRING)
      PROVE  Section(doc, from, to, opening) \in SectionBody
  <2>1. Blocks(doc, from, to) \in SUBSET Nat
    <3>1. DOMAIN doc \subseteq Nat
      BY LenProperties
    <3>2. QED
      BY <3>1 DEF Blocks
  <2>2. (\E i \in Blocks(doc, from, to) : doc[i].long) \in BOOLEAN
    OBVIOUS
  <2>3. QED
    BY <2>1, <2>2 DEF Section, SectionBody
<1>2. ASSUME NEW from, NEW to
      PROVE  Opening(doc, from, to) \in SUBSET (Nat \X STRING)
  <2> DEFINE texts == {i \in Blocks(doc, from, to) : ~doc[i].empty}
  <2>1. texts \in SUBSET DOMAIN doc /\ DOMAIN doc \in SUBSET Nat
    BY LenProperties DEF Blocks
  <2>2. ASSUME texts # {}
        PROVE  Names(doc[Least(texts)]) \in Items
    <3>1. Least(texts) \in DOMAIN doc
      <4> HIDE DEF texts
      <4>1. QED
        BY <2>1, <2>2, LeastIsIn
    <3>2. doc[Least(texts)] \in FilingBlock
      BY <3>1, ElementOfSeq, LenProperties
    <3>3. \A block \in FilingBlock : Names(block) \in Items
      BY DEF FilingBlock, Names, Items
    <3>4. QED
      BY <3>2, <3>3
  <2>3. Opening(doc, from, to) = IF texts = {} THEN {} ELSE {Names(doc[Least(texts)])} \ {None}
    BY Zenon DEF Opening
  <2> HIDE DEF texts
  <2>4. QED
    BY <2>2, <2>3 DEF Items
<1>3. SliceAligned(doc, a, next) \in SectionBody
  BY <1>1, <1>2 DEF SliceAligned
<1>4. None \notin SectionBody
  BY NoneIsNoValue DEF SectionBody
<1>5. QED
  BY <1>3, <1>4

\* What is flagged as found by a link has a body, and the flag of the cut is that of the body.
IsFlagged(entry) ==
  \/ entry.flag.extraction = "fallback_used"
  \/ /\ entry.body # None /\ entry.flag.extraction = "ok"
     /\ entry.flag.truncated = entry.body.truncated

\* Each item of a filing is flagged so.
LEMMA FlagsOfFiling ==
  ASSUME NEW doc \in Seq(FilingBlock), NEW form, NEW item \in DOMAIN ParseFiling(doc, form)
  PROVE  IsFlagged(ParseFiling(doc, form)[item])
<1> DEFINE parsed == ParseFiling(doc, form)
           anchors == ResolveAnchors(doc)
           items == FORM_ITEMS[form]
<1>1. \A x, m, t : Flag(x, m, t).extraction = x /\ Flag(x, m, t).truncated = t
  BY DEF Flag
<1>2. parsed = ExtractViaAnchors(doc, items, anchors) \/ parsed = ExtractViaPatternFallback(doc, items)
  BY Zenon DEF ParseFiling
<1> HIDE DEF parsed, anchors, items
<1>3. ASSUME parsed = ExtractViaAnchors(doc, items, anchors)
      PROVE  IsFlagged(parsed[item])
  <2> DEFINE hits == {k \in DOMAIN anchors : anchors[k].item = item}
             target == anchors[CHOOSE k \in hits : \A l \in hits : l <= k]
             later == {k \in DOMAIN anchors : anchors[k].at > target.at}
             next == IF later = {} THEN None ELSE anchors[Least(later)]
             body == SliceAligned(doc, target, next)
             missing == [body |-> None, flag |-> Flag("fallback_used", TRUE, FALSE)]
             flag == Flag("ok", FALSE, body.truncated)
             whole == [body |-> body, flag |-> flag]
  <2>1. item \in items
    BY <1>3, Zenon DEF ExtractViaAnchors, parsed
  <2>2. parsed[item] = IF hits = {} THEN missing ELSE whole
    BY <1>3, <2>1, Zenon DEF ExtractViaAnchors
  <2>3. body # None
    <3> HIDE DEF target, next
    <3>1. QED
      BY SliceIsSection
  <2> HIDE DEF hits, body
  <2>4. IsFlagged(missing)
    BY <1>1 DEF IsFlagged
  <2>5. IsFlagged(whole)
    <3>1. flag.extraction = "ok" /\ flag.truncated = body.truncated
      BY <1>1, Zenon
    <3> HIDE DEF flag
    <3>2. QED
      BY <2>3, <3>1 DEF IsFlagged
  <2> HIDE DEF missing, whole
  <2>6. parsed[item] = missing \/ parsed[item] = whole
    BY <2>2
  <2>7. QED
    BY <2>4, <2>5, <2>6
<1>4. ASSUME parsed = ExtractViaPatternFallback(doc, items)
      PROVE  IsFlagged(parsed[item])
  <2> DEFINE chosen == [x \in {y \in items : Tier(doc, y) # {}} |-> Least(Tier(doc, x))]
             later == {chosen[x] : x \in {y \in DOMAIN chosen : chosen[y] > chosen[item]}}
             to == IF later = {} THEN Len(doc) + 1 ELSE (Least(later) + 1) \div 2
             body == Section(doc, chosen[item] \div 2, to, {item})
             missing == [body |-> None, flag |-> Flag("fallback_used", TRUE, FALSE)]
             found == [body |-> body, flag |-> Flag("fallback_used", FALSE, body.truncated)]
  <2>1. item \in items
    BY <1>4, Zenon DEF ExtractViaPatternFallback, parsed
  <2>2. parsed[item] = IF item \notin DOMAIN chosen THEN missing ELSE found
    BY <1>4, <2>1, Zenon DEF ExtractViaPatternFallback
  <2> HIDE DEF chosen, body
  <2>3. IsFlagged(missing)
    BY <1>1 DEF IsFlagged
  <2>4. IsFlagged(found)
    BY <1>1 DEF IsFlagged
  <2> HIDE DEF missing, found
  <2>5. parsed[item] = missing \/ parsed[item] = found
    BY <2>2
  <2>6. QED
    BY <2>3, <2>4, <2>5
<1>5. QED
  BY <1>2, <1>3, <1>4 DEF parsed

\* A record tells of the sections of a filing, and has those that were sent.
HoldsFiling(record, parsed) ==
  /\ record.flags = [item \in DOMAIN parsed |-> parsed[item].flag]
  /\ record.sent = SectionsOf(parsed)

\* A green pill is a section that was sent, uncut.
LEMMA PillsOfRecord ==
  ASSUME NEW doc \in Seq(FilingBlock), NEW form, NEW record, HoldsFiling(record, ParseFiling(doc, form))
  PROVE  PillsTell(record)
<1> DEFINE parsed == ParseFiling(doc, form)
<1> SUFFICES ASSUME NEW item \in DOMAIN record.flags,
                    FlagClass(FlagStr(record.flags[item])) = "green"
             PROVE  WasSentUncut(item, record)
  BY Zenon DEF PillsTell
<1>1. item \in DOMAIN parsed /\ record.flags[item] = parsed[item].flag
  BY DEF HoldsFiling
<1>2. \A flag : FlagClass(FlagStr(flag)) = "green" => flag.extraction = "ok" /\ ~flag.truncated
  <2>1. ASSUME NEW flag, FlagClass(FlagStr(flag)) = "green"
        PROVE  flag.extraction = "ok" /\ ~flag.truncated
    <3> DEFINE words == FlagStr(flag)
    <3>1. words \cap {"ambiguous", "fallback_used", "truncated"} = {} /\ words = {"ok"}
      BY <2>1 DEF FlagClass
    <3>2. flag.extraction \in words /\ (flag.truncated => "truncated" \in words)
      BY DEF FlagStr
    <3> HIDE DEF words
    <3>3. QED
      BY <3>1, <3>2
  <2>2. QED
    BY <2>1
<1>3. IsFlagged(parsed[item])
  BY <1>1, FlagsOfFiling
<1>4. parsed[item].flag.extraction = "ok" /\ ~parsed[item].flag.truncated
  BY <1>1, <1>2
<1>5. parsed[item].body # None /\ ~parsed[item].body.truncated
  BY <1>3, <1>4 DEF IsFlagged
<1>6. item \in DOMAIN record.sent /\ record.sent[item] = parsed[item].body
  BY <1>1, <1>5 DEF SectionsOf, HoldsFiling
<1>7. QED
  BY <1>5, <1>6 DEF WasSentUncut
-----------------------------------------------------------------------------
(***************************************************************************)
(* The sources of a point.                                                 *)
(***************************************************************************)
\* The lists that grow while the markers are taken one by one.
Taken(q, x) == IF Contains(q, x) THEN q ELSE Append(q, x)
Growing(f, sources, n) ==
  f = [k \in 0..n |-> IF k = 0 THEN <<>>
                      ELSE IF Contains(f[k - 1], Canonical(sources[k])) THEN f[k - 1]
                      ELSE Append(f[k - 1], Canonical(sources[k]))]

\* There are such lists, ...
LEMMA ListsGrow ==
  ASSUME NEW sources, NEW n \in Nat
  PROVE  \E f : Growing(f, sources, n)
<1> DEFINE T == {m \in Nat : \E f : Growing(f, sources, m)}
<1>1. 0 \in T
  <2> DEFINE f == [k \in 0..0 |-> <<>>]
  <2>1. f = [k \in 0..0 |-> IF k = 0 THEN <<>>
                            ELSE IF Contains(f[k - 1], Canonical(sources[k])) THEN f[k - 1]
                            ELSE Append(f[k - 1], Canonical(sources[k]))]
    OBVIOUS
  <2> HIDE DEF f
  <2>2. Growing(f, sources, 0)
    BY <2>1, Zenon DEF Growing
  <2>3. QED
    BY <2>2
<1>2. ASSUME NEW m \in T
      PROVE  m + 1 \in T
  <2>1. PICK f : Growing(f, sources, m)
    OBVIOUS
  <2> DEFINE next == Taken(f[m], Canonical(sources[m + 1]))
             g == [k \in 0..(m + 1) |-> IF k <= m THEN f[k] ELSE next]
  <2>2. \A k \in 0..m : f[k] = IF k = 0 THEN <<>> ELSE Taken(f[k - 1], Canonical(sources[k]))
    BY <2>1 DEF Growing, Taken
  <2> HIDE DEF next
  <2>3. /\ g = [k \in 0..(m + 1) |-> g[k]] /\ g[m + 1] = next /\ \A k \in 0..m : g[k] = f[k]
    OBVIOUS
  <2> HIDE DEF g
  <2>4. \A k \in 0..(m + 1) : g[k] = IF k = 0 THEN <<>> ELSE Taken(g[k - 1], Canonical(sources[k]))
    <3>1. SUFFICES ASSUME NEW k \in 0..(m + 1)
                   PROVE  g[k] = IF k = 0 THEN <<>> ELSE Taken(g[k - 1], Canonical(sources[k]))
      OBVIOUS
    <3>2. CASE k = m + 1
      <4>1. k - 1 = m /\ m \in 0..m /\ k # 0
        BY <3>2
      <4>2. g[k - 1] = f[m]
        BY <2>3, <4>1
      <4>3. QED
        BY <2>3, <3>2, <4>1, <4>2 DEF next
    <3>3. CASE k # m + 1
      <4>1. k \in 0..m /\ (k # 0 => k - 1 \in 0..m)
        BY <3>3
      <4>2. QED
        BY <2>2, <2>3, <4>1
    <3>4. QED
      BY <3>2, <3>3
  <2>5. Growing(g, sources, m + 1)
    BY <2>3, <2>4 DEF Growing, Taken
  <2>6. QED
    BY <2>5
<1>3. T = Nat
  <2> HIDE DEF T
  <2>1. T \in SUBSET Nat
    BY DEF T
  <2>2. QED
    BY <1>1, <1>2, <2>1, NumbersInduction
<1>4. n \in T
  BY <1>3
<1>5. QED
  BY <1>4

\* A marker of the vocabulary, or inference.
Vocabulary == {s \in SourceMarker : s.kind \in {"section", "quant", "market", "insider"}}
Canonicals == Vocabulary \cup {Inferenz}
IsListed(q) == q \in Seq(Canonicals) /\ \A i, j \in 1..Len(q) : q[i] = q[j] => i = j

\* What is taken is of the vocabulary.
LEMMA CanonicalMarker == \A s \in SourceMarker : Canonical(s) \in Canonicals
  BY DEF Canonical, Canonicals, Vocabulary

\* A list with one more marker has each of its markers once.
LEMMA TakenIsListed ==
  ASSUME NEW q, IsListed(q), NEW x \in Canonicals
  PROVE  IsListed(Taken(q, x)) /\ Len(Taken(q, x)) >= 1 /\ Len(q) \in Nat
<1>1. q \in Seq(Canonicals) /\ Len(q) \in Nat
  BY DEF IsListed
<1>2. CASE Contains(q, x)
  BY <1>1, <1>2 DEF Contains, Taken, IsListed
<1>3. CASE ~Contains(q, x)
  <2>1. \A i \in 1..Len(q) : q[i] # x
    BY <1>3 DEF Contains
  <2> DEFINE e == Append(q, x)
  <2>2. e \in Seq(Canonicals) /\ Len(e) = Len(q) + 1 /\ e[Len(q) + 1] = x
        /\ \A i \in 1..Len(q) : e[i] = q[i]
    BY <1>1, AppendProperties
  <2> HIDE DEF e
  <2>3. \A i \in 1..Len(e) : i \in 1..Len(q) \/ i = Len(q) + 1
    BY <1>1, <2>2
  <2>4. \A i, j \in 1..Len(e) : e[i] = e[j] => i = j
    BY <2>1, <2>2, <2>3 DEF IsListed
  <2>5. IsListed(e) /\ Len(e) >= 1
    BY <1>1, <2>2, <2>4 DEF IsListed
  <2>6. Taken(q, x) = e
    BY <1>3 DEF Taken, e
  <2>7. QED
    BY <1>1, <2>5, <2>6
<1>4. QED
  BY <1>2, <1>3

\* ... and what is normalised has each marker of the vocabulary once, and some.
LEMMA NormalizedSources ==
  ASSUME NEW sources \in Seq(SourceMarker), sources # <<>>
  PROVE  IsListed(NormalizeSources(sources)) /\ Len(NormalizeSources(sources)) >= 1
<1> DEFINE n == Len(sources)
           f == CHOOSE f : Growing(f, sources, n)
<1>1. n \in Nat \ {0} /\ \A k \in 1..n : sources[k] \in SourceMarker
  BY LenProperties, ElementOfSeq, EmptySeq
<1>2. NormalizeSources(sources) = f[n]
  BY Zenon DEF NormalizeSources, Growing
<1>3. Growing(f, sources, n)
  <2> HIDE DEF n
  <2>1. QED
    BY <1>1, ListsGrow
<1> HIDE DEF f, n
<1>4. \A k \in 0..n : f[k] = IF k = 0 THEN <<>> ELSE Taken(f[k - 1], Canonical(sources[k]))
  BY <1>1, <1>3 DEF Growing, Taken
<1> DEFINE T == {k \in Nat : k <= n => IsListed(f[k]) /\ (k > 0 => Len(f[k]) >= 1)}
<1>5. 0 \in T
  <2>1. f[0] = <<>>
    BY <1>1, <1>4
  <2>2. IsListed(<<>>)
    BY EmptySeq DEF IsListed
  <2>3. QED
    BY <2>1, <2>2
<1>6. ASSUME NEW k \in T
      PROVE  k + 1 \in T
  <2>1. SUFFICES ASSUME k + 1 <= n PROVE IsListed(f[k + 1]) /\ Len(f[k + 1]) >= 1
    OBVIOUS
  <2>2. IsListed(f[k]) /\ k + 1 \in 0..n /\ k + 1 # 0 /\ (k + 1) - 1 = k /\ k + 1 \in 1..n
    BY <1>1, <2>1
  <2>3. f[k + 1] = Taken(f[k], Canonical(sources[k + 1])) /\ Canonical(sources[k + 1]) \in Canonicals
    BY <1>1, <1>4, <2>2, CanonicalMarker
  <2>4. QED
    BY <2>2, <2>3, TakenIsListed
<1>7. T = Nat
  <2> HIDE DEF T
  <2>1. T \in SUBSET Nat
    BY DEF T
  <2>2. QED
    BY <1>5, <1>6, <2>1, NumbersInduction
<1>8. n \in T
  BY <1>1, <1>7
<1>9. QED
  BY <1>1, <1>2, <1>8
-----------------------------------------------------------------------------
(***************************************************************************)
(* The confidence of a point.                                              *)
(***************************************************************************)
\* What is nothing but inference is inference once.
LEMMA OnlyInference ==
  ASSUME NEW q, IsListed(q), Len(q) >= 1, \A i \in DOMAIN q : q[i].kind = "inference"
  PROVE  q = <<Inferenz>>
<1>1. q \in Seq(Canonicals) /\ Len(q) \in Nat /\ DOMAIN q = 1..Len(q)
  BY LenProperties DEF IsListed
<1>2. \A i \in DOMAIN q : q[i] = Inferenz
  <2>1. \A i \in DOMAIN q : q[i] \in Canonicals
    BY <1>1, LenProperties
  <2>2. QED
    BY <2>1 DEF Canonicals, Vocabulary
<1>3. Len(q) = 1
  <2>1. SUFFICES ASSUME Len(q) # 1 PROVE FALSE
    OBVIOUS
  <2>2. 1 \in DOMAIN q /\ 2 \in DOMAIN q
    BY <1>1, <2>1
  <2>3. QED
    BY <1>1, <1>2, <2>2 DEF IsListed
<1>4. q[1] = Inferenz
  BY <1>1, <1>2, <1>3
<1>5. QED
  BY <1>1, <1>3, <1>4

\* The rules for the confidence of a point, from the last to the first.
LEMMA NeverGreen ==
  /\ \A c : AtMostYellow(c) # "green"
  /\ \A rp, c, days : AfterVintage(rp, c, days) = "green" =>
       c = "green" /\ ~(IsStale(days) /\ Number(rp) \in VINTAGE_SENSITIVE_POINTS)
  /\ \A rp, c, summary : AfterIntegrity(rp, c, summary) = "green" =>
       /\ Number(rp) # 14
       /\ Number(rp) = 15 => summary.state = "ok" /\ summary.parsed > 0
<1>1. \A c : AtMostYellow(c) # "green"
  BY DEF AtMostYellow
<1>2. ASSUME NEW rp, NEW c, NEW days, AfterVintage(rp, c, days) = "green"
      PROVE  c = "green" /\ ~(IsStale(days) /\ Number(rp) \in VINTAGE_SENSITIVE_POINTS)
  BY <1>1, <1>2 DEF AfterVintage
<1>3. ASSUME NEW rp, NEW c, NEW summary, AfterIntegrity(rp, c, summary) = "green"
      PROVE  /\ Number(rp) # 14
             /\ Number(rp) = 15 => summary.state = "ok" /\ summary.parsed > 0
  <2> DEFINE n == Number(rp)
             floor == P15Floor(summary)
  <2> HIDE DEF n, floor
  <2>1. AfterIntegrity(rp, c, summary) =
          CASE n = 14 -> "red" [] n = 15 /\ floor = "red" -> "red"
            [] n = 15 /\ floor = "yellow" -> AtMostYellow(c) [] OTHER -> c
    BY Zenon DEF AfterIntegrity, n, floor
  <2>2. n # 14
    <3>1. SUFFICES ASSUME n = 14 PROVE FALSE
      OBVIOUS
    <3>2. n # 15
      BY <3>1
    <3>3. QED
      BY <1>3, <2>1, <3>1, <3>2
  <2>3. n = 15 => floor # "red" /\ floor # "yellow"
    BY <1>1, <1>3, <2>1
  <2>4. floor # "red" /\ floor # "yellow" => summary.state = "ok" /\ summary.parsed > 0
    BY DEF floor, P15Floor
  <2>5. QED
    BY <2>2, <2>3, <2>4 DEF n
<1>4. QED
  BY <1>1, <1>2, <1>3

\* What a point must have to be green.
IsGreenOnlyIfGrounded(record, p) == p.confidence = "green" => CodeGrounds(record, p)

\* A point that the rules leave green has it.
LEMMA GreenPoint ==
  ASSUME NEW rp \in RawPoint, IsLegal(rp), NEW record, rp.text => AsText(record, rp.number),
         record.quantDate \in Int, record.filingDate \in Int \cup {None}, NEW days,
         days = IF record.filingDate = None THEN None ELSE record.quantDate - record.filingDate
  PROVE  IsGreenOnlyIfGrounded(record, PointOf(rp, record.sent, days, record.insider))
<1> DEFINE sections == record.sent
           summary == record.insider
           normalized == NormalizeSources(rp.sources)
           validated == ValidateSources(normalized, sections)
           first == AfterValidation(rp, normalized, validated)
           second == AfterIntegrity(rp, first, summary)
           third == AfterVintage(rp, second, days)
           p == PointOf(rp, sections, days, summary)
<1>1. /\ p.number = rp.number /\ p.sources = validated
      /\ p.confidence = IF validated = <<Inferenz>> THEN AtMostYellow(third) ELSE third
  BY Zenon DEF PointOf, FisherPoint
<1>2. \/ validated = <<Inferenz>>
      \/ /\ validated = normalized
         /\ \A k \in DOMAIN normalized : normalized[k].kind = "section" => IsValid(normalized[k], sections)
  BY Zenon DEF ValidateSources
<1>3. IsListed(normalized) /\ Len(normalized) >= 1
  <2>1. rp.sources \in Seq(SourceMarker) /\ rp.sources # <<>>
    BY DEF RawPoint, IsLegal
  <2>2. QED
    BY <2>1, NormalizedSources
<1>4. Number(rp) = IF rp.text THEN None ELSE rp.number
  BY DEF Number
<1> HIDE DEF sections, summary, normalized, validated, first, second, third, p
<1>5. SUFFICES ASSUME p.confidence = "green" PROVE CodeGrounds(record, p)
  BY Zenon DEF IsGreenOnlyIfGrounded, p, sections, summary
<1>6. validated # <<Inferenz>> /\ third = "green"
  BY <1>1, <1>5, NeverGreen
<1>7. validated = normalized /\ \A k \in DOMAIN normalized : normalized[k].kind = "section" =>
                                   IsValid(normalized[k], sections)
  BY <1>2, <1>6
<1>8. \E i \in DOMAIN p.sources : p.sources[i].kind # "inference"
  BY <1>1, <1>3, <1>6, <1>7, OnlyInference
<1>9. \A i \in DOMAIN p.sources : IsGrounded(p.sources[i], record.sent)
  <2>1. ASSUME NEW cite, IsValid(cite, sections)
        PROVE  IsGrounded(cite, sections)
    BY <2>1 DEF IsValid, SectionOfCite, IsGrounded
  <2>2. ASSUME NEW i \in DOMAIN normalized PROVE IsGrounded(normalized[i], sections)
    <3>1. CASE normalized[i].kind = "section"
      BY <1>7, <2>1, <3>1
    <3>2. CASE normalized[i].kind # "section"
      BY <3>2 DEF IsGrounded
    <3>3. QED
      BY <3>1, <3>2
  <2>3. QED
    BY <1>1, <1>7, <2>2 DEF sections
<1>10. \/ AsText(record, p.number)
       \/ /\ p.number # 14
          /\ p.number = 15 => record.insider.state = "ok" /\ record.insider.parsed > 0
          /\ p.number \in VINTAGE_SENSITIVE_POINTS /\ record.filingDate # None
               => record.quantDate - record.filingDate <= VINTAGE_THRESHOLD_DAYS
  <2>1. CASE rp.text
    BY <1>1, <2>1
  <2>2. CASE ~rp.text
    <3>1. Number(rp) = p.number
      BY <1>1, <1>4, <2>2
    <3>2. second = "green" /\ ~(IsStale(days) /\ p.number \in VINTAGE_SENSITIVE_POINTS)
      BY <1>6, <3>1, NeverGreen, Zenon DEF third
    <3>3. p.number # 14 /\ (p.number = 15 => summary.state = "ok" /\ summary.parsed > 0)
      BY <3>1, <3>2, NeverGreen, Zenon DEF second
    <3>4. record.filingDate # None /\ record.quantDate - record.filingDate > VINTAGE_THRESHOLD_DAYS
            => IsStale(days)
      <4>1. SUFFICES ASSUME record.filingDate # None,
                            record.quantDate - record.filingDate > VINTAGE_THRESHOLD_DAYS
                     PROVE  IsStale(days)
        OBVIOUS
      <4>2. days = record.quantDate - record.filingDate /\ days \in Int
        BY <4>1
      <4>3. days # None
        BY <4>2, NoneIsNoValue
      <4>4. QED
        BY <4>1, <4>2, <4>3 DEF IsStale
    <3>5. record.filingDate # None =>
            record.quantDate - record.filingDate \in Int /\ VINTAGE_THRESHOLD_DAYS \in Int
      BY DEF VINTAGE_THRESHOLD_DAYS
    <3>6. QED
      BY <3>2, <3>3, <3>4, <3>5 DEF summary
  <2>3. QED
    BY <2>1, <2>2
<1>11. QED
  BY <1>8, <1>9, <1>10, Zenon DEF CodeGrounds
-----------------------------------------------------------------------------
(***************************************************************************)
(* The issuer, and the records of deep dives.                              *)
(***************************************************************************)
\* What an issuer can be: it has an annual form, or the reason why not.
IsIssuer(issuer) ==
  /\ issuer.form # None => issuer.form \in {"10-K", "20-F"}
  /\ issuer.form = None => issuer.reason \in DOMAIN INSIDER_STATE_BY_REASON
  /\ issuer.filed \in Int \cup {None}

\* The annual form of an issuer is one of the two, and of a filing that it has.
LEMMA AnnualFormIs ==
  ASSUME NEW S, NEW list \in Seq(S), \A k \in DOMAIN list : list[k].date \in Int \cup {None},
         NEW day, DetectAnnualForm(list, day) # None
  PROVE  /\ DetectAnnualForm(list, day) \in {"10-K", "20-F"}
         /\ LatestAnnualFiling(list, DetectAnnualForm(list, day)) \in DOMAIN list
<1> DEFINE annual == {k \in DOMAIN list : list[k].form \in {"10-K", "20-F"} /\ list[k].date # None}
           dates == {list[k].date : k \in annual}
           IsNewest(k) == \A j \in annual : \/ list[k].date > list[j].date
                                            \/ list[k].date = list[j].date /\ k <= j
           newest == CHOOSE k \in annual : IsNewest(k)
           form == DetectAnnualForm(list, day)
<1>1. PICK n \in Nat : DOMAIN list = 1..n
  BY LenProperties
<1>2. annual # {} /\ form = list[newest].form
  BY Zenon DEF DetectAnnualForm
<1>3. \E k \in annual : IsNewest(k)
  <2>1. IsFiniteSet(1..n)
    BY FS_Interval
  <2>2. IsFiniteSet(annual)
    <3>1. annual \in SUBSET (1..n)
      BY <1>1
    <3> HIDE DEF annual
    <3>2. QED
      BY <2>1, <3>1, FS_Subset
  <2>3. dates \in SUBSET Int /\ dates # {}
    BY <1>2
  <2>4. IsFiniteSet(dates)
    <3> DEFINE f == [k \in annual |-> list[k].date]
    <3>1. dates = {f[k] : k \in annual}
      OBVIOUS
    <3> HIDE DEF f, annual, dates
    <3>2. QED
      BY <2>2, <3>1, FinitelyManyValues
  <2>5. PICK d \in dates : \A e \in dates : e <= d
    <3> HIDE DEF dates
    <3>1. QED
      BY <2>3, <2>4, ExtremesExist
  <2> DEFINE T == {k \in annual : list[k].date = d}
  <2>6. T \in SUBSET Nat /\ T # {}
    BY <1>1, <2>5
  <2>7. PICK k \in T : \A j \in T : k <= j
    <3> HIDE DEF T
    <3>1. QED
      BY <2>6, LeastNumber
  <2>8. k \in annual /\ list[k].date = d
    BY <2>7
  <2>9. ASSUME NEW j \in annual
        PROVE  \/ list[k].date > list[j].date
               \/ list[k].date = list[j].date /\ k <= j
    <3>1. list[j].date \in dates
      OBVIOUS
    <3>2. list[j].date <= d /\ list[j].date \in Int /\ d \in Int
      BY <2>3, <2>5, <3>1
    <3>3. CASE list[j].date = d
      BY <2>7, <2>8, <3>3
    <3>4. CASE list[j].date # d
      BY <2>8, <3>2, <3>4
    <3>5. QED
      BY <3>3, <3>4
  <2>10. IsNewest(k)
    BY <2>9
  <2>11. QED
    BY <2>8, <2>10
<1>4. newest \in annual
  <2> HIDE DEF annual, IsNewest
  <2>1. QED
    BY <1>3
<1>5. form \in {"10-K", "20-F"} /\ newest \in DOMAIN list /\ list[newest].form = form
  <2> HIDE DEF newest, form
  <2>1. QED
    BY <1>2, <1>4
<1> HIDE DEF annual, newest, form
<1>6. LatestAnnualFiling(list, form) \in DOMAIN list
  <2> DEFINE T == {k \in DOMAIN list : list[k].form = form}
  <2>1. T \in SUBSET Nat /\ T # {}
    BY <1>1, <1>5
  <2>2. PICK k \in T : \A j \in T : k <= j
    <3> HIDE DEF T
    <3>1. QED
      BY <2>1, LeastNumber
  <2>3. \A j \in 1..(k - 1) : list[j].form # form
    <3>1. SUFFICES ASSUME NEW j \in 1..(k - 1), list[j].form = form PROVE FALSE
      OBVIOUS
    <3>2. j \in T /\ k \in Nat
      BY <1>1, <2>1, <3>1
    <3>3. QED
      BY <2>2, <3>2
  <2>4. k \in DOMAIN list /\ list[k].form = form
    BY <2>2
  <2>5. QED
    BY <2>3, <2>4, Zenon DEF LatestAnnualFiling
<1>7. QED
  BY <1>5, <1>6 DEF form

\* What a deep dive knows of its issuer.
LEMMA IssuerOfInput ==
  ASSUME NEW input, IsInput(input)
  PROVE  IsIssuer(Issuer(input))
<1> DEFINE form == IF input.submissions = None THEN None ELSE DetectAnnualForm(input.submissions, today)
           issuer == Issuer(input)
<1>1. /\ issuer.form = form
      /\ issuer.reason = IF form # None THEN None
                         ELSE IF input.submissions = None THEN input.unidentified ELSE "no_annual_form"
      /\ issuer.filed = IF form = None THEN None
                        ELSE input.submissions[LatestAnnualFiling(input.submissions, form)].date
  BY Zenon DEF Issuer
<1>2. IF input.submissions = None THEN input.unidentified \in DOMAIN INSIDER_STATE_BY_REASON
      ELSE input.submissions \in Seq([form : STRING, date : Int \cup {None}])
  BY Zenon DEF IsInput
<1>3. "no_annual_form" \in DOMAIN INSIDER_STATE_BY_REASON
  BY DEF INSIDER_STATE_BY_REASON
<1>4. CASE form = None
  <2> HIDE DEF form, issuer
  <2>1. issuer.form = None /\ issuer.filed = None
        /\ issuer.reason \in DOMAIN INSIDER_STATE_BY_REASON
    BY <1>1, <1>2, <1>3, <1>4
  <2>2. IsIssuer(issuer)
    BY <2>1 DEF IsIssuer
  <2>3. QED
    BY <2>2 DEF issuer
<1>5. CASE form # None
  <2> DEFINE list == input.submissions
             S == [form : STRING, date : Int \cup {None}]
  <2>1. list \in Seq(S) /\ form = DetectAnnualForm(list, today)
    BY <1>2, <1>5
  <2>2. \A k \in DOMAIN list : list[k].date \in Int \cup {None}
    <3>1. \A k \in DOMAIN list : list[k] \in S
      <4> HIDE DEF S
      <4>1. QED
        BY <2>1, LenProperties
    <3>2. QED
      BY <3>1
  <2>3. form \in {"10-K", "20-F"} /\ LatestAnnualFiling(list, form) \in DOMAIN list
    <3> HIDE DEF S, form, list
    <3>1. QED
      BY <1>5, <2>1, <2>2, AnnualFormIs
  <2>4. issuer.filed = list[LatestAnnualFiling(list, form)].date /\ issuer.form = form
    BY <1>1, <1>5
  <2> HIDE DEF form, issuer, list
  <2>5. issuer.filed \in Int \cup {None}
    BY <2>2, <2>3, <2>4
  <2>6. IsIssuer(issuer)
    BY <1>5, <2>3, <2>4, <2>5 DEF IsIssuer
  <2>7. QED
    BY <2>6 DEF issuer
<1>6. QED
  BY <1>4, <1>5

\* The record of an issuer without an annual form keeps the promises.
LEMMA RecordOfNoFiler ==
  ASSUME NEW input, IsInput(input), NEW issuer, issuer.reason \in DOMAIN INSIDER_STATE_BY_REASON
  PROVE  WellMade(Record(input, issuer, <<>>, <<>>,
                         InsiderSummary(INSIDER_STATE_BY_REASON[issuer.reason]), <<>>))
<1> DEFINE summary == InsiderSummary(INSIDER_STATE_BY_REASON[issuer.reason])
           record == Record(input, issuer, <<>>, <<>>, summary, <<>>)
<1>1. /\ record.points = <<>> /\ record.flags = [item \in DOMAIN <<>> |-> <<>>[item].flag]
      /\ record.reason = issuer.reason /\ record.insider = summary /\ record.quant = QuantOf(input)
      /\ record.currencies = {input.raw.currency, QuantOf(input).pit.currency}
  BY Zenon DEF Record
<1> HIDE DEF record
<1>2. InsidersHold(RenderInsiderBlock(record.insider), record)
  BY <1>1, InsidersOfNoFiler
<1>3. CurrenciesAreApart(record)
  BY <1>1, CurrenciesOfRecord
<1>4. DOMAIN record.points = 1..Len(record.points) /\ Len(record.points) \in Nat
      /\ DOMAIN record.points = {} /\ DOMAIN record.flags = {}
  BY <1>1
<1>5. WellMade(record)
  BY <1>2, <1>3, <1>4 DEF WellMade, PillsTell
<1>6. QED
  BY <1>5 DEF record

\* So does the record of a filer once its answer is there.
LEMMA RecordOfFiler ==
  ASSUME NEW input, IsInput(input), NEW issuer, issuer.form \in {"10-K", "20-F"},
         issuer.filed \in Int \cup {None}, today \in Int, NEW parsed, NEW points,
         parsed = ParseFiling(input.doc, issuer.form),
         NEW summary, summary = BuildInsiderSummary(issuer.form, input.skip, input.fetched),
         points = RunSynthesis(input.answer, SectionsOf(parsed), DaysSince(issuer.filed), summary),
         points # None
  PROVE  WellMade(Record(input, issuer, parsed, points, summary, SectionsOf(parsed)))
<1> DEFINE sections == SectionsOf(parsed)
           record == Record(input, issuer, parsed, points, summary, sections)
           days == DaysSince(issuer.filed)
<1>1. /\ record.points = points /\ record.flags = [item \in DOMAIN parsed |-> parsed[item].flag]
      /\ record.form = issuer.form /\ record.insider = summary /\ record.quant = QuantOf(input)
      /\ record.currencies = {input.raw.currency, QuantOf(input).pit.currency}
      /\ record.sent = sections /\ record.answer = input.answer
      /\ record.filingDate = issuer.filed /\ record.quantDate = today
  BY Zenon DEF Record
<1>2. input.doc \in Seq(FilingBlock) /\ input.answer \in Seq(RawPoint)
  BY Zenon DEF IsInput
<1>3. /\ Len(input.answer) = 15 /\ \A k \in DOMAIN input.answer : IsLegal(input.answer[k])
      /\ points = [k \in DOMAIN input.answer |-> PointOf(input.answer[k], sections, days, summary)]
  BY Zenon DEF RunSynthesis
<1>4. days = IF record.filingDate = None THEN None ELSE record.quantDate - record.filingDate
  BY <1>1 DEF DaysSince
<1> HIDE DEF record, sections, days
<1>5. InsidersHold(RenderInsiderBlock(record.insider), record)
  BY <1>1, InsidersOfFiler
<1>6. CurrenciesAreApart(record)
  BY <1>1, CurrenciesOfRecord
<1>7. PillsTell(record)
  <2>1. HoldsFiling(record, ParseFiling(input.doc, issuer.form))
    BY <1>1 DEF HoldsFiling, sections
  <2>2. QED
    BY <1>2, <2>1, PillsOfRecord
<1>8. DOMAIN input.answer = 1..15 /\ \A k \in DOMAIN input.answer : input.answer[k] \in RawPoint
  BY <1>2, <1>3, LenProperties
<1>9. DOMAIN record.points = 1..15 /\ Len(record.points) = 15
  BY <1>1, <1>3, <1>8
<1>10. ASSUME NEW k \in DOMAIN record.points
       PROVE  IsGreenOnlyIfGrounded(record, record.points[k])
  <2> DEFINE rp == input.answer[k]
  <2>1. k \in DOMAIN input.answer
    BY <1>8, <1>9
  <2>2. rp \in RawPoint /\ IsLegal(rp) /\ (rp.text => AsText(record, rp.number))
    BY <1>1, <1>3, <1>8, <2>1 DEF AsText
  <2>3. record.quantDate \in Int /\ record.filingDate \in Int \cup {None}
    BY <1>1
  <2>4. record.points[k] = PointOf(rp, record.sent, days, record.insider)
    BY <1>1, <1>3, <2>1
  <2> HIDE DEF rp
  <2>5. IsGreenOnlyIfGrounded(record, PointOf(rp, record.sent, days, record.insider))
    BY <1>4, <2>2, <2>3, GreenPoint, Zenon
  <2>6. QED
    BY <2>4, <2>5
<1>11. \A k \in DOMAIN record.points :
          record.points[k].confidence = "green" => CodeGrounds(record, record.points[k])
  BY <1>10 DEF IsGreenOnlyIfGrounded
<1>12. DOMAIN record.points = 1..Len(record.points) /\ Len(record.points) \in Nat
  BY <1>9
<1>13. WellMade(record)
  BY <1>5, <1>6, <1>7, <1>11, <1>12, Zenon DEF WellMade
<1>14. QED
  BY <1>13 DEF record, sections
-----------------------------------------------------------------------------
(***************************************************************************)
(* The invariant.  What a page says is right because what the build found  *)
(* is, because each file is written of a record that keeps the promises,   *)
(* because the deep dive that wrote it took its steps in their order.      *)
(***************************************************************************)
RunInv ==
  run # None =>
    /\ run.at \in {"sources", "answer"} => IsInput(run.input) /\ IsIssuer(run.issuer)
    /\ run.at = "answer" =>
         /\ run.issuer.form # None
         /\ run.parsed = ParseFiling(run.input.doc, run.issuer.form)
         /\ run.summary = BuildInsiderSummary(run.issuer.form, run.input.skip, run.input.fetched)
    /\ run.at \in {"record", "open"} => WellMade(run.record)
    /\ run.at = "open" => /\ run.name \in DOMAIN files
                          /\ \E at \in Int : run.file = GenerateDossier(run.record, at)

FilesInv == \A f \in DOMAIN files : IsDossierOf(files[f].file, files[f].record)

IsRight(shown) == IsGroundedPage(shown) /\ TellsTheRecord(shown)
FoundInv == build.at # "idle" => \A d \in build.found : IsRight(Page(d))
SiteInv == \A t \in DOMAIN site.pages : IsRight(site.pages[t])

RecordsInv == today \in Int /\ runs \in Nat /\ RunInv /\ FilesInv
IInv == RecordsInv /\ IsBuild /\ ReadInv /\ FoundInv /\ SiteInv

\* A file that was written of a record has a day.
LEMMA FilesHaveDays == FilesInv => DayInv
  BY Zenon DEF FilesInv, DayInv, HasDay, IsDossierOf, IsExcerpt

\* The directory, the run and the build as they are at first.
LEMMA InitIsRight == Init => IInv
<1> SUFFICES ASSUME Init PROVE IInv
  OBVIOUS
<1>1. today \in Int /\ runs \in Nat /\ RunInv
  BY DEF Init, RunInv
<1>2. FilesInv
  BY EarlierDossiers, Zenon DEF Init, FilesInv
<1>3. IsBuild /\ ReadInv /\ FoundInv
  BY DEF Init, Idle, IsBuild, ReadInv, FoundInv
<1>4. SiteInv
  BY DEF Init, NoSite, SiteInv
<1>5. QED
  BY <1>1, <1>2, <1>3, <1>4 DEF IInv, RecordsInv

\* A file that is nothing is the dossier of any record.
LEMMA EmptyIsDossier == \A record : IsDossierOf(EmptyFile, record)
  BY DEF EmptyFile, IsDossierOf

\* What a deep dive writes over a file is a dossier of its record.
LEMMA WriteKeeps ==
  ASSUME RecordsInv, run # None, run.at = "open", NEW file, IsDossierOf(file, run.record), Write(file)
  PROVE  RecordsInv'
<1>1. run' = None /\ today' = today /\ runs' = runs
      /\ files' = [files EXCEPT ![run.name] = [file |-> file, record |-> run.record]]
  BY DEF Write
<1>2. RunInv' /\ today' \in Int /\ runs' \in Nat
  BY <1>1 DEF RunInv, RecordsInv
<1>3. ASSUME NEW f \in DOMAIN files' PROVE IsDossierOf(files'[f].file, files'[f].record)
  <2>1. CASE f = run.name
    BY <1>1, <2>1
  <2>2. CASE f # run.name
    <3>1. f \in DOMAIN files /\ files'[f] = files[f]
      BY <1>1, <2>2
    <3>2. QED
      BY <3>1 DEF RecordsInv, FilesInv
  <2>3. QED
    BY <2>1, <2>2
<1>4. QED
  BY <1>2, <1>3 DEF RecordsInv, FilesInv

\* The steps of a deep dive keep the records right.
LEMMA RecordsInvSteps ==
  ASSUME RecordsInv, Next
  PROVE  RecordsInv'
<1>1. CASE UNCHANGED <<today, run, runs, files>>
  BY <1>1 DEF RecordsInv, RunInv, FilesInv
<1>2. ASSUME NEW input \in Inputs[runs + 1], StartRun(input), runs < Len(Inputs)
      PROVE  RecordsInv'
  <2>1. /\ run' = [at |-> "sources", input |-> input, issuer |-> Issuer(input)]
        /\ runs' = runs + 1 /\ today' = today /\ files' = files
    BY <1>2 DEF StartRun
  <2>2. runs + 1 \in 1..Len(Inputs)
    BY <1>2, SourcesOfInputs DEF RecordsInv
  <2>3. IsInput(input)
    BY <1>2, <2>2, SourcesOfInputs
  <2>4. IsIssuer(Issuer(input))
    BY <2>3, IssuerOfInput
  <2>5. RunInv'
    <3> DEFINE issuer == Issuer(input)
    <3>1. run'.at = "sources" /\ run'.input = input /\ run'.issuer = issuer
      BY <2>1
    <3>2. IsIssuer(issuer)
      BY <2>4
    <3> HIDE DEF issuer
    <3>3. QED
      BY <2>3, <3>1, <3>2 DEF RunInv, IsIssuer
  <2>6. QED
    BY <2>1, <2>5 DEF RecordsInv, FilesInv
<1>3. CASE QuantOnlyDossier
  <2> DEFINE record == Record(run.input, run.issuer, <<>>, <<>>,
                              InsiderSummary(INSIDER_STATE_BY_REASON[run.issuer.reason]), <<>>)
  <2>1. /\ run' = [at |-> "record", record |-> record]
        /\ UNCHANGED <<today, runs, files>>
    BY <1>3 DEF QuantOnlyDossier
  <2>2. WellMade(record)
    <3>1. IsInput(run.input) /\ run.issuer.reason \in DOMAIN INSIDER_STATE_BY_REASON
      BY <1>3 DEF QuantOnlyDossier, RecordsInv, RunInv, IsIssuer
    <3>2. QED
      BY <3>1, RecordOfNoFiler
  <2> HIDE DEF record
  <2>3. QED
    BY <2>1, <2>2 DEF RecordsInv, RunInv, FilesInv
<1>4. CASE GatherAndAsk
  <2> DEFINE parsed == ParseFiling(run.input.doc, run.issuer.form)
             summary == BuildInsiderSummary(run.issuer.form, run.input.skip, run.input.fetched)
             prompt == BuildUserPrompt(SectionsOf(parsed), DaysSince(run.issuer.filed), summary)
  <2>1. /\ run # None /\ run.at = "sources" /\ run.issuer.form # None
        /\ run' = [at |-> "answer", input |-> run.input, issuer |-> run.issuer,
                   parsed |-> parsed, summary |-> summary, prompt |-> prompt]
        /\ UNCHANGED <<today, runs, files>>
    BY <1>4, Zenon DEF GatherAndAsk
  <2> HIDE DEF parsed, summary, prompt
  <2>2. /\ run'.at = "answer" /\ run'.input = run.input /\ run'.issuer = run.issuer
        /\ run'.parsed = parsed /\ run'.summary = summary
    BY <2>1
  <2>3. IsInput(run.input) /\ IsIssuer(run.issuer)
    BY <2>1 DEF RecordsInv, RunInv
  <2>4. RunInv'
    BY <2>1, <2>2, <2>3 DEF RunInv, parsed, summary, IsIssuer
  <2>5. QED
    BY <2>1, <2>4 DEF RecordsInv, FilesInv
<1>5. CASE TakeAnswer
  <2> DEFINE sections == SectionsOf(run.parsed)
             points == RunSynthesis(run.input.answer, sections, DaysSince(run.issuer.filed), run.summary)
             record == Record(run.input, run.issuer, run.parsed, points, run.summary, sections)
  <2>1. /\ run # None /\ run.at = "answer" /\ points # None
        /\ run' = [at |-> "record", record |-> record]
        /\ UNCHANGED <<today, runs, files>>
    BY <1>5, Zenon DEF TakeAnswer
  <2>2. WellMade(record)
    <3>1. /\ IsInput(run.input) /\ IsIssuer(run.issuer) /\ run.issuer.form # None /\ today \in Int
          /\ run.parsed = ParseFiling(run.input.doc, run.issuer.form)
          /\ run.summary = BuildInsiderSummary(run.issuer.form, run.input.skip, run.input.fetched)
      BY <2>1 DEF RecordsInv, RunInv
    <3>2. run.issuer.form \in {"10-K", "20-F"} /\ run.issuer.filed \in Int \cup {None}
      BY <3>1 DEF IsIssuer
    <3>3. QED
      BY <2>1, <3>1, <3>2, RecordOfFiler
  <2> HIDE DEF record
  <2>3. QED
    BY <2>1, <2>2 DEF RecordsInv, RunInv, FilesInv
<1>6. CASE RunEnds
  BY <1>6 DEF RunEnds, RecordsInv, RunInv, FilesInv
<1>7. CASE OpenFile
  <2> DEFINE name == Name(run.record.ticker, today)
             new == [file |-> EmptyFile, record |-> run.record]
             file == GenerateDossier(run.record, today)
  <2>1. /\ run # None /\ run.at = "record" /\ today' = today /\ runs' = runs
        /\ files' = [f \in DOMAIN files \cup {name} |-> IF f = name THEN new ELSE files[f]]
        /\ run' = [at |-> "open", name |-> name, record |-> run.record, file |-> file]
    BY <1>7, Zenon DEF OpenFile
  <2>2. WellMade(run.record) /\ today \in Int
    BY <2>1 DEF RecordsInv, RunInv
  <2>3. \E at \in Int : file = GenerateDossier(run.record, at)
    BY <2>2
  <2>4. new.file = EmptyFile
    OBVIOUS
  <2> HIDE DEF name, new, file
  <2>5. /\ run'.at = "open" /\ run'.record = run.record /\ run'.name = name /\ run'.file = file
        /\ name \in DOMAIN files'
    BY <2>1
  <2>6. RunInv'
    BY <2>2, <2>3, <2>5 DEF RunInv
  <2>7. ASSUME NEW f \in DOMAIN files' PROVE IsDossierOf(files'[f].file, files'[f].record)
    <3>1. CASE f = name
      BY <2>1, <2>4, <3>1, EmptyIsDossier
    <3>2. CASE f # name
      BY <2>1, <3>2 DEF RecordsInv, FilesInv
    <3>3. QED
      BY <3>1, <3>2
  <2>8. QED
    BY <2>1, <2>2, <2>6, <2>7 DEF RecordsInv, FilesInv
<1>8. ASSUME WriteFile \/ WriteTorn
      PROVE  RecordsInv'
  <2>1. run # None /\ run.at = "open"
    BY <1>8 DEF WriteFile, WriteTorn
  <2>2. PICK at \in Int : run.file = GenerateDossier(run.record, at)
    BY <2>1 DEF RecordsInv, RunInv
  <2>3. WellMade(run.record)
    BY <2>1 DEF RecordsInv, RunInv
  <2>4. /\ IsDossierOf(run.file, run.record)
        /\ \A k \in Nat : k < Len(run.file.body) => IsDossierOf(TornAt(run.file, k), run.record)
    BY <2>2, <2>3, WrittenFiles
  <2>5. \E file : IsDossierOf(file, run.record) /\ Write(file)
    BY <1>8, <2>4, EmptyIsDossier, RunsConstants DEF WriteFile, WriteTorn
  <2>6. QED
    BY <2>1, <2>5, WriteKeeps
<1>9. CASE Tick
  BY <1>9 DEF Tick, viewer, RecordsInv, RunInv, FilesInv
<1>10. QED
  <2>1. StartBuild \/ ReadFile \/ ListAgain \/ CheckFile \/ GenerateSite => UNCHANGED <<today, run, runs, files>>
    BY DEF StartBuild, ReadFile, ListAgain, CheckFile, GenerateSite
  <2>2. QED
    BY <1>1, <1>2, <1>3, <1>4, <1>5, <1>6, <1>7, <1>8, <1>9, <2>1 DEF Next

\* What a build finds is right, and so is what it shows.
LEMMA FoundInvSteps ==
  ASSUME IInv, Next
  PROVE  FoundInv' /\ SiteInv'
<1>1. CASE UNCHANGED <<build, site>>
  BY <1>1 DEF IInv, FoundInv, SiteInv
<1>2. ASSUME NEW name, Touch(name), site' = site
      PROVE  FoundInv' /\ SiteInv'
  <2>1. build.at # "idle" => build'.at = build.at /\ build'.found = build.found
    BY <1>2 DEF Touch, IInv, IsBuild
  <2>2. build.at = "idle" => build' = build
    BY <1>2 DEF Touch
  <2>3. QED
    BY <1>2, <2>1, <2>2 DEF IInv, FoundInv, SiteInv
<1>3. CASE StartBuild
  BY <1>3 DEF StartBuild, IInv, FoundInv, SiteInv
<1>4. CASE ReadFile
  <2> DEFINE name == CHOOSE f \in build.todo : TRUE
             found == IF Parsed(name) = None THEN build.found ELSE Newest(build.found, Found(name))
  <2>1. name \in DOMAIN files /\ site' = site /\ build.at # "idle"
    BY <1>4 DEF ReadFile, IInv, ReadInv
  <2>2. build'.found = found
    BY <1>4 DEF ReadFile, IInv, IsBuild
  <2> HIDE DEF name
  <2>3. ASSUME NEW d \in found PROVE IsRight(Page(d))
    <3>1. CASE d \in build.found
      BY <2>1, <3>1 DEF IInv, FoundInv
    <3>2. CASE d \notin build.found
      <4>1. d = Found(name) /\ Parsed(name) # None
        BY <3>2 DEF Newest
      <4>2. /\ d.dossier = ParseDossier(files[name].file) /\ d.record = files[name].record
            /\ files[name].file.front # None
        BY <4>1 DEF Found, Parsed, ParseDossier
      <4>3. IsDossierOf(files[name].file, d.record)
        BY <2>1, <4>2 DEF IInv, RecordsInv, FilesInv
      <4>4. QED
        BY <4>2, <4>3, PageOfDossier DEF IsRight
    <3>3. QED
      BY <3>1, <3>2
  <2> HIDE DEF found
  <2>4. QED
    BY <2>1, <2>2, <2>3 DEF IInv, FoundInv, SiteInv
<1>5. CASE ListAgain \/ CheckFile
  <2>1. site' = site /\ build'.found = build.found /\ build.at # "idle"
    BY <1>5 DEF ListAgain, CheckFile, IInv, IsBuild
  <2>2. QED
    BY <2>1 DEF IInv, FoundInv, SiteInv
<1>6. CASE GenerateSite
  <2> DEFINE renderable == {d \in build.found : IsWritable(d)}
             Of(ticker) == CHOOSE d \in renderable : d.dossier.front.ticker = ticker
             tickers == {d.dossier.front.ticker : d \in renderable}
             pages == [t \in DOMAIN site.pages \cup tickers |->
                         IF t \in tickers THEN Page(Of(t)) ELSE site.pages[t]]
  <2>1. build' = Idle /\ build.at # "idle"
    BY <1>6 DEF GenerateSite
  <2>2. site'.pages = pages
    BY <1>6 DEF GenerateSite
  <2>3. ASSUME NEW t \in DOMAIN pages PROVE IsRight(pages[t])
    <3>1. CASE t \in tickers
      <4>1. \E d \in renderable : d.dossier.front.ticker = t
        BY <3>1
      <4>2. Of(t) \in renderable
        <5> HIDE DEF renderable
        <5>1. QED
          BY <4>1
      <4>3. IsRight(Page(Of(t)))
        <5> HIDE DEF Of
        <5>1. QED
          BY <2>1, <4>2 DEF IInv, FoundInv
      <4>4. pages[t] = Page(Of(t))
        <5> HIDE DEF Of, tickers
        <5>1. QED
          BY <3>1
      <4>5. QED
        BY <4>3, <4>4
    <3>2. CASE t \notin tickers
      <4> HIDE DEF Of, tickers
      <4>1. t \in DOMAIN site.pages /\ pages[t] = site.pages[t]
        BY <3>2
      <4>2. QED
        BY <4>1 DEF IInv, SiteInv
    <3>3. QED
      BY <3>1, <3>2
  <2> HIDE DEF pages
  <2>4. QED
    BY <2>1, <2>2, <2>3 DEF FoundInv, SiteInv, Idle
<1>7. QED
  <2>1. Next => \/ UNCHANGED <<build, site>> \/ (\E name : Touch(name) /\ site' = site)
                \/ StartBuild \/ ReadFile \/ ListAgain \/ CheckFile \/ GenerateSite
    BY DEF Next, StartRun, QuantOnlyDossier, GatherAndAsk, TakeAnswer, RunEnds, OpenFile, WriteFile,
           WriteTorn, Write, Tick, viewer
  <2>2. QED
    BY <1>1, <1>2, <1>3, <1>4, <1>5, <1>6, <2>1

\* The invariant is inductive.
LEMMA IInvSteps == IInv /\ [Next]_vars => IInv'
<1> SUFFICES ASSUME IInv, [Next]_vars PROVE IInv'
  OBVIOUS
<1>1. CASE Next
  <2>1. RecordsInv'
    BY <1>1, RecordsInvSteps DEF IInv
  <2>2. FoundInv' /\ SiteInv'
    BY <1>1, FoundInvSteps
  <2>3. DayInv
    BY FilesHaveDays DEF IInv, RecordsInv
  <2>4. IsBuild' /\ ReadInv'
    BY <1>1, <2>3, ReadInvSteps DEF IInv
  <2>5. QED
    BY <2>1, <2>2, <2>4 DEF IInv
<1>2. CASE UNCHANGED vars
  BY <1>2 DEF vars, IInv, RecordsInv, RunInv, FilesInv, IsBuild, ReadInv, FoundInv, SiteInv,
              IsFaithful, IsOnItsWay, IsBehind, StandsBehind, Untouched, Parsed
<1>3. QED
  BY <1>1, <1>2

\* It holds of every state of every behaviour.
THEOREM Inductive == Spec => []IInv
  BY InitIsRight, IInvSteps, PTL DEF Spec

\* Wherever a page shows a point in green, the code could ground it.
THEOREM GreenIsAlwaysGrounded == Spec => []GreenIsGrounded
<1>1. IInv => GreenIsGrounded
  BY DEF IInv, SiteInv, IsRight, GreenIsGrounded
<1>2. QED
  BY Inductive, <1>1, PTL

\* Every page tells what its deep dive knew.
THEOREM PagesAlwaysTellTheRecord == Spec => []PageTellsTheRecord
<1>1. IInv => PageTellsTheRecord
  BY DEF IInv, SiteInv, IsRight, PageTellsTheRecord
<1>2. QED
  BY Inductive, <1>1, PTL

\* Every file that nobody touched during a build is accounted for at its end.
THEOREM NothingEverDisappears == Spec => NothingDisappears
<1> DEFINE Step == build.at # "idle" /\ build'.at = "idle" =>
                     \A name \in DOMAIN build.before \ build.touched : Accounted(name)
<1>1. IInv /\ [Next]_vars => [Step]_vars
  <2>1. SUFFICES ASSUME IInv, Next, build.at # "idle", build'.at = "idle",
                        NEW name \in Untouched
                 PROVE  Accounted(name)
    BY DEF Untouched
  <2>2. GenerateSite
    <3>1. \A n : Touch(n) => build'.at = build.at
      BY <2>1 DEF Touch, IInv, IsBuild
    <3>2. ~UNCHANGED build
      BY <2>1
    <3>3. ~(StartBuild \/ ReadFile \/ ListAgain \/ CheckFile)
      BY <2>1 DEF StartBuild, ReadFile, ListAgain, CheckFile, IInv, IsBuild
    <3>4. QED
      BY <2>1, <3>1, <3>2, <3>3
         DEF Next, StartRun, QuantOnlyDossier, GatherAndAsk, TakeAnswer, RunEnds, OpenFile, WriteFile,
             WriteTorn, Write, Tick, viewer
  <2>3. QED
    BY <2>1, <2>2, SiteAccounts DEF IInv
<1>2. QED
  BY Inductive, <1>1, PTL DEF Spec, NothingDisappears
===============================================================================
