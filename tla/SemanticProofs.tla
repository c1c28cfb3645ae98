---------------------------- MODULE SemanticProofs ----------------------------
(* What holds of a search for any number of images, listings and queries,   *)
(* whatever their conditions, of the cached scores, and of the index.       *)
(*                                                                          *)
(* The argument for the rows.  In a row of Joined the key of a filter is    *)
(* None exactly when the filter does not match, as no image or listing is   *)
(* None; so each literal has the same truth value in both queries, under    *)
(* any negation.  Execute answers only a query whose filters name aliases   *)
(* of FROM.                                                                 *)
(*                                                                          *)
(* The argument for the index.  When no image is lost, every list of ids is *)
(* the whole of imgs.csv, so vectors and ids that two builds wrote still    *)
(* agree (OwnInv).  While nothing is put back, contents and models only     *)
(* rise: a vector found by a build is of the contents of its checksum or of *)
(* later ones, the manifest on disk is no newer than the build, so what it  *)
(* says of the file as it still is holds of the newer vector (ReuseInv).    *)
(* When every build is whole, vectors and manifest were written by the same *)
(* one and agree, whatever files and settings do in between (WholeInv).     *)
EXTENDS SemanticSearch, FiniteSetTheorems, WellFoundedInduction, TLAPS

USE SqlAssumption, SearchAssumption

-----------------------------------------------------------------------------
(* The rewritten query, for any matches.                                    *)

JoinedRow(q, matches, row) ==
    [row |-> row,
     key |-> [k \in DOMAIN q.filters |->
                IF row[AliasOf(q, k)] \in matches[k] THEN row[AliasOf(q, k)] ELSE None]]

(* The key the join gives to a filter says whether the filter matches.      *)
LEMMA KeyTellsMatch ==
    ASSUME NEW q, ~ Unbound(q), NEW matches,
           NEW row \in Base(q), NEW k \in DOMAIN q.filters
    PROVE  JoinedRow(q, matches, row).key[k] # None
             <=> \E key \in matches[k] : row[AliasOf(q, k)] = key
<1>1. AliasOf(q, k) \in DOMAIN q.from
  BY DEF Unbound
<1>2. row[AliasOf(q, k)] \in Images \cup Listings
  BY <1>1 DEF Base
<1>3. JoinedRow(q, matches, row).key[k]
        = IF row[AliasOf(q, k)] \in matches[k] THEN row[AliasOf(q, k)] ELSE None
  BY DEF JoinedRow
<1> QED
  BY <1>2, <1>3 DEF SqlAssumption

(* A row meets the rewritten condition when it meets that of the query.     *)
Accepted(q, j) ==
    \E clause \in q.cond : \A l \in clause :
       l.not # (IF l.of = 0 THEN Ordinary(q, j.row) ELSE j.key[l.of] # None)

Meets(q, matches, row) ==
    \E clause \in q.cond : \A l \in clause :
       l.not # (IF l.of = 0 THEN Ordinary(q, row)
                ELSE \E key \in matches[l.of] : row[AliasOf(q, l.of)] = key)

LEMMA AcceptedIsMeets ==
    ASSUME NEW q, WellFormed(q), ~ Unbound(q), NEW matches, NEW row \in Base(q)
    PROVE  Accepted(q, JoinedRow(q, matches, row)) <=> Meets(q, matches, row)
<1> DEFINE there(l) == IF l.of = 0 THEN Ordinary(q, row)
                       ELSE JoinedRow(q, matches, row).key[l.of] # None
           here(l) == IF l.of = 0 THEN Ordinary(q, row)
                      ELSE \E key \in matches[l.of] : row[AliasOf(q, l.of)] = key
<1>1. \A clause \in q.cond : \A l \in clause : there(l) = here(l)
  <2> SUFFICES ASSUME NEW clause \in q.cond, NEW l \in clause, l.of # 0
               PROVE  there(l) = here(l)
    BY DEF Ordinary
  <2>1. l.of \in DOMAIN q.filters
    BY DEF WellFormed
  <2>2. there(l) <=> here(l)
    BY <2>1, KeyTellsMatch
  <2>3. there(l) \in BOOLEAN /\ here(l) \in BOOLEAN
    OBVIOUS
  <2> HIDE DEF there, here
  <2> QED
    BY <2>2, <2>3
<1>2. JoinedRow(q, matches, row).row = row
  BY DEF JoinedRow
<1> HIDE DEF there, here
<1>3. (\E clause \in q.cond : \A l \in clause : l.not # there(l))
        <=> (\E clause \in q.cond : \A l \in clause : l.not # here(l))
  BY <1>1
<1> QED
  BY <1>2, <1>3 DEF Accepted, Meets, there, here

LEMMA RewriteCorrect ==
    ASSUME NEW q, WellFormed(q), ~ Unbound(q), NEW matches
    PROVE  /\ {j.row : j \in Rewritten(q, matches)} = Wanted(q, matches)
           /\ \A j, k \in Rewritten(q, matches) : j.row = k.row => j = k
<1>1. Rewritten(q, matches)
        = {j \in {JoinedRow(q, matches, row) : row \in Base(q)} : Accepted(q, j)}
  BY DEF Rewritten, Joined, JoinedRow, Accepted
<1>2. Wanted(q, matches) = {row \in Base(q) : Meets(q, matches, row)}
  BY DEF Wanted, Meets
<1>3. \A row : JoinedRow(q, matches, row).row = row
  BY DEF JoinedRow
<1>4. \A row \in Base(q) : Accepted(q, JoinedRow(q, matches, row)) <=> Meets(q, matches, row)
  BY AcceptedIsMeets
<1> QED
  BY <1>1, <1>2, <1>3, <1>4

-----------------------------------------------------------------------------
(* Every search that has an answer is of a query that can be answered.      *)
(* A search never changes its query; only Execute gives an answer.          *)

SoundRequest(r) ==
    /\ r.op # "idle" => r.query \in Queries
    /\ r.op = "done" => ~ Unbound(r.query)

SearchInv ==
    /\ DOMAIN req = Clients
    /\ \A c \in Clients : SoundRequest(req[c])

LEMMA InitSound == Init => SearchInv
  BY DEF Init, SearchInv, SoundRequest, Idle

LEMMA BecomeSound ==
    ASSUME SearchInv, NEW c \in Clients, NEW r, SoundRequest(r), Become(c, r)
    PROVE  SearchInv'
  BY DEF SearchInv, Become

LEMMA FailedSound ==
    ASSUME SearchInv, NEW c \in Clients, Failed(c)
    PROVE  SearchInv'
<1>1. SoundRequest(Idle)
  BY DEF SoundRequest, Idle
<1> QED
  BY <1>1, BecomeSound DEF Failed

LEMMA MatchedSound ==
    ASSUME NEW r, r.query \in Queries, NEW keys
    PROVE  SoundRequest(Matched(r, keys))
  BY DEF SoundRequest, Matched

LEMMA AskSound ==
    ASSUME SearchInv, NEW c \in Clients, NEW q \in Queries, Ask(c, q)
    PROVE  SearchInv'
<1>1. SoundRequest([op |-> "resolve", query |-> q, matches |-> << >>])
  BY DEF SoundRequest
<1> QED
  BY <1>1, BecomeSound DEF Ask

LEMMA QueryKnown ==
    ASSUME SearchInv, NEW c \in Clients, req[c].op # "idle"
    PROVE  req[c].query \in Queries
  BY DEF SearchInv, SoundRequest

LEMMA ResolveSound ==
    ASSUME SearchInv, NEW c \in Clients, ResolveUnknown(c) \/ ResolveTitle(c)
    PROVE  SearchInv'
<1>1. req[c].query \in Queries
  BY QueryKnown DEF ResolveUnknown, ResolveTitle, Resolving
<1>2. \A keys : SoundRequest(Matched(req[c], keys))
  BY <1>1, MatchedSound
<1>3. Failed(c) \/ \E keys : Become(c, Matched(req[c], keys))
  BY DEF ResolveUnknown, ResolveTitle
<1> QED
  BY <1>2, <1>3, BecomeSound, FailedSound

LEMMA RankSound ==
    ASSUME SearchInv, NEW c \in Clients, Rank(c)
    PROVE  SearchInv'
<1>1. req[c].query \in Queries
  BY QueryKnown DEF Rank, Resolving
<1>2. Failed(c) \/ \E S, scored : Become(c, [op |-> "score", query |-> req[c].query,
                                              matches |-> req[c].matches,
                                              shortlist |-> S, scored |-> scored])
  BY DEF Rank
<1>3. \A S, scored : SoundRequest([op |-> "score", query |-> req[c].query,
                                   matches |-> req[c].matches,
                                   shortlist |-> S, scored |-> scored])
  BY <1>1 DEF SoundRequest
<1> QED
  BY <1>2, <1>3, BecomeSound, FailedSound

LEMMA SendSound ==
    ASSUME SearchInv, NEW c \in Clients, Send(c)
    PROVE  SearchInv'
<1> DEFINE waiting(sent) == [op |-> "wait", query |-> req[c].query, matches |-> req[c].matches,
                             shortlist |-> req[c].shortlist, scored |-> req[c].scored,
                             sent |-> sent]
<1>1. req[c].query \in Queries
  BY QueryKnown DEF Send
<1>2. Failed(c) \/ \E sent : Become(c, waiting(sent))
  BY DEF Send
<1>3. \A sent : SoundRequest(waiting(sent))
  BY <1>1 DEF SoundRequest
<1> QED
  BY <1>2, <1>3, BecomeSound, FailedSound

LEMMA ScoredSound ==
    ASSUME SearchInv, NEW c \in Clients, Scored(c)
    PROVE  SearchInv'
<1> DEFINE next == [op |-> "score", query |-> req[c].query, matches |-> req[c].matches,
                    shortlist |-> req[c].shortlist,
                    scored |-> req[c].scored \cup DOMAIN req[c].sent]
<1>1. req[c].query \in Queries
  BY QueryKnown DEF Scored
<1>2. Become(c, next)
  BY DEF Scored
<1>3. SoundRequest(next)
  BY <1>1 DEF SoundRequest
<1> HIDE DEF next
<1> QED
  BY <1>2, <1>3, BecomeSound

LEMMA CombineSound ==
    ASSUME SearchInv, NEW c \in Clients, Combine(c) \/ NotScored(c)
    PROVE  SearchInv'
<1>1. req[c].query \in Queries
  BY QueryKnown DEF Combine, NotScored
<1>2. \A keys : SoundRequest(Matched(req[c], keys))
  BY <1>1, MatchedSound
<1>3. Failed(c) \/ \E keys : Become(c, Matched(req[c], keys))
  BY DEF Combine, NotScored
<1> QED
  BY <1>2, <1>3, BecomeSound, FailedSound

LEMMA ExecuteSound ==
    ASSUME SearchInv, NEW c \in Clients, Execute(c)
    PROVE  SearchInv'
<1> DEFINE answer == [op |-> "done", query |-> req[c].query, matches |-> req[c].matches]
<1>1. req[c].query \in Queries
  BY QueryKnown DEF Execute
<1>2. CASE Unbound(req[c].query)
  <2>1. Failed(c)
    BY <1>2 DEF Execute
  <2> QED
    BY <2>1, FailedSound
<1>3. CASE ~ Unbound(req[c].query)
  <2>1. Become(c, answer)
    BY <1>3 DEF Execute
  <2>2. SoundRequest(answer)
    BY <1>1, <1>3 DEF SoundRequest
  <2> HIDE DEF answer
  <2> QED
    BY <2>1, <2>2, BecomeSound
<1> QED
  BY <1>2, <1>3

(* Restart forgets every search; nothing else touches one.                  *)
LEMMA StepSound ==
    ASSUME SearchInv, [Next]_vars
    PROVE  SearchInv'
<1>1. ASSUME NEW c \in Clients, Work(c)
      PROVE  SearchInv'
  BY <1>1, ResolveSound, RankSound, SendSound, CombineSound, ExecuteSound DEF Work
<1>2. ASSUME NEW c \in Clients, Scored(c) \/ NotScored(c)
      PROVE  SearchInv'
  BY <1>2, ScoredSound, CombineSound
<1>3. CASE Restart
  BY <1>3 DEF Restart, SearchInv, SoundRequest, Idle
<1>4. ASSUME UNCHANGED req
      PROVE  SearchInv'
  BY <1>4 DEF SearchInv
<1>5. CASE \E i \in Images : ReplaceFile(i) \/ LoseFile(i)
  BY <1>4, <1>5 DEF ReplaceFile, LoseFile, Change
<1>6. CASE ChangeModel \/ BuildFails
  BY <1>4, <1>6 DEF ChangeModel, Change, BuildFails
<1>7. CASE Builder
  BY <1>4, <1>7 DEF Builder, StartBuild, Embed, SaveVectors, SaveIds, SaveTitles, SaveManifest, Save
<1>8. CASE UNCHANGED vars
  BY <1>4, <1>8 DEF vars
<1> QED
  BY <1>1, <1>2, <1>3, <1>5, <1>6, <1>7, <1>8, AskSound DEF Next

LEMMA SoundAnswers == SearchInv => RowsAreWanted
<1> SUFFICES ASSUME SearchInv, NEW c \in Clients, req[c].op = "done"
             PROVE  LET answer == Rewritten(req[c].query, req[c].matches)
                    IN  /\ {j.row : j \in answer} = Wanted(req[c].query, req[c].matches)
                        /\ \A j, k \in answer : j.row = k.row => j = k
  BY DEF RowsAreWanted
<1>1. req[c].query \in Queries /\ ~ Unbound(req[c].query)
  BY DEF SearchInv, SoundRequest
<1>2. WellFormed(req[c].query)
  BY <1>1 DEF SearchAssumption
<1> QED
  BY <1>1, <1>2, RewriteCorrect

(* The rewritten SQL returns the rows the query asks for, each once, for    *)
(* every query with a condition in disjunctive form and any matches.        *)
THEOREM RowsAreWantedCorrect == Spec => []RowsAreWanted
<1>1. SearchInv /\ [Next]_vars => SearchInv'
  BY StepSound
<1> QED
  BY InitSound, <1>1, SoundAnswers, PTL DEF Spec

-----------------------------------------------------------------------------
(* The scores of the vision model.  A cache key names contents of a file,   *)
(* and those of a file that changes are numbered higher than all before;    *)
(* so a score made under a key of other contents is one of a key that no    *)
(* file will have again, unless files are put back.                         *)

Steady == world \cap {"overlap", "revert"} = {}

LEMMA SteadyOr == Steady => "overlap" \notin world /\ "revert" \notin world
BY DEF Steady

(* The contents given to files by a number of changes.                      *)
Given(n) == 1..(n + 1)

LEMMA GivenGrows ==
    ASSUME NEW m \in Nat, NEW n \in Nat, m <= n
    PROVE  Given(m) \subseteq Given(n)
BY DEF Given

FilesKnown == files \in [Images -> Nat] /\ \A i \in Images : files[i] = 0 \/ files[i] \in Given(changes)

SumsKnown ==
    /\ \A i \in Images : i \in DOMAIN PreviousSums => PreviousSums[i] \in Given(changes)
    /\ build.at # "none" => \A i \in Images : i \in DOMAIN build.sums => build.sums[i] \in Given(changes)

Shape ==
    /\ "manifest" \in DOMAIN index
    /\ build.at # "none" => {"at", "sums"} \subseteq DOMAIN build

KeysKnown == \A k \in DOMAIN cache : k.image \in Images => k.contents \in Given(changes)

(* What was sent is the file as it is.                                      *)
SentNow ==
    \A c \in Clients : req[c].op = "wait" =>
       \A i \in DOMAIN req[c].sent : req[c].sent[i] = files[i]

CacheRight ==
    \A k \in DOMAIN cache :
       k.image \in Images /\ k.contents = files[k.image] => cache[k] = k.contents

ScoreInv ==
    Steady =>
       changes \in Nat /\ Shape /\ FilesKnown /\ SumsKnown /\ KeysKnown /\ SentNow /\ CacheRight

LEMMA InitScores == Init => ScoreInv
<1> SUFFICES ASSUME Init PROVE ScoreInv
  OBVIOUS
<1> USE DEF Init
<1>1. FilesKnown
  BY DEF FilesKnown, Given
<1>2. DOMAIN PreviousSums = {} /\ build.at = "none"
  BY DEF PreviousSums, NoBuild
<1>3. SumsKnown
  BY <1>2 DEF SumsKnown
<1>4. KeysKnown /\ CacheRight
  <2>1. DOMAIN cache = {}
    OBVIOUS
  <2> QED
    BY <2>1 DEF KeysKnown, CacheRight
<1>5. SentNow
  BY DEF SentNow, Idle
<1>6. Shape
  BY <1>2 DEF Shape
<1> QED
  BY <1>1, <1>3, <1>4, <1>5, <1>6 DEF ScoreInv

(* A file or the settings change, while no search is under way.             *)
LEMMA ChangeScores ==
    ASSUME ScoreInv, Steady, Change,
           files' \in [Images -> Nat],
           \A j \in Images : files'[j] \in {files[j], 0, changes + 2}
    PROVE  ScoreInv'
<1>0. changes \in Nat /\ Shape /\ FilesKnown /\ SumsKnown /\ KeysKnown /\ CacheRight
  BY DEF ScoreInv
<1>1. /\ changes' = changes + 1 /\ changes' \in Nat
      /\ world' = world /\ index' = index /\ build' = build /\ cache' = cache /\ req' = req
  BY <1>0 DEF Change
<1>2. Given(changes) \subseteq Given(changes') /\ \A m \in Given(changes) : m # 0 /\ m # changes + 2
  BY <1>0, <1>1 DEF Given
<1>3. changes + 2 \in Given(changes')
  BY <1>0, <1>1 DEF Given
<1>4. FilesKnown'
  BY <1>0, <1>2, <1>3 DEF FilesKnown
<1>5. SumsKnown'
  <2>1. PreviousSums' = PreviousSums
    BY <1>1 DEF PreviousSums
  <2> QED
    BY <1>0, <1>1, <1>2, <2>1 DEF SumsKnown
<1>6. KeysKnown'
  BY <1>0, <1>1, <1>2 DEF KeysKnown
<1>7. SentNow'
  BY <1>1, SteadyOr DEF Change, Quiet, SentNow
<1>8. CacheRight'
  <2> SUFFICES ASSUME NEW k \in DOMAIN cache, k.image \in Images, k.contents = files'[k.image]
               PROVE  cache[k] = k.contents
    BY <1>1 DEF CacheRight
  <2>1. k.contents \in Given(changes)
    BY <1>0 DEF KeysKnown
  <2>2. files'[k.image] = files[k.image]
    <3>1. files'[k.image] # 0 /\ files'[k.image] # changes + 2
      BY <1>2, <2>1
    <3> QED
      BY <1>0, <3>1 DEF FilesKnown
  <2> QED
    BY <1>0, <2>2 DEF CacheRight
<1> QED
  BY <1>0, <1>1, <1>4, <1>5, <1>6, <1>7, <1>8 DEF ScoreInv, Shape

(* A step of the builder leaves files, cache and searches alone, and notes  *)
(* no checksum but those of files.                                          *)
LEMMA BuilderScores ==
    ASSUME ScoreInv, Steady, SumsKnown', Shape',
           UNCHANGED <<world, files, cache, req, changes>>
    PROVE  ScoreInv'
BY DEF ScoreInv, FilesKnown, KeysKnown, SentNow, CacheRight

LEMMA BuilderSums ==
    ASSUME ScoreInv, Steady, Builder \/ BuildFails
    PROVE  SumsKnown' /\ Shape'
<1>0. changes \in Nat /\ Shape /\ FilesKnown /\ SumsKnown
  BY DEF ScoreInv
<1>1. changes' = changes
  BY DEF Builder, BuildFails, StartBuild, Embed, SaveVectors, SaveIds, SaveTitles, SaveManifest, Save
<1>2. Given(changes') = Given(changes)
  BY <1>1
<1>3. CASE StartBuild
  <2>1. /\ index' = index /\ {"at", "sums"} \subseteq DOMAIN build'
        /\ build'.sums = [i \in {j \in Images : files[j] # 0} |-> files[i]]
    BY <1>3 DEF StartBuild
  <2>2. PreviousSums' = PreviousSums
    BY <2>1 DEF PreviousSums
  <2>3. \A i \in Images : i \in DOMAIN build'.sums => build'.sums[i] \in Given(changes)
    BY <1>0, <2>1 DEF FilesKnown
  <2> QED
    BY <1>0, <1>2, <2>1, <2>2, <2>3 DEF SumsKnown, Shape
<1>4. ASSUME NEW bad \in SUBSET Images, Embed(bad)
      PROVE  SumsKnown' /\ Shape'
  <2>1. /\ index' = index /\ build.at = "embed" /\ build'.sums = build.sums
        /\ {"at", "sums"} \subseteq DOMAIN build'
    BY <1>4 DEF Embed
  <2>2. PreviousSums' = PreviousSums
    BY <2>1 DEF PreviousSums
  <2> QED
    BY <1>0, <1>2, <2>1, <2>2 DEF SumsKnown, Shape
<1>5. CASE SaveVectors \/ SaveIds \/ SaveTitles
  <2>1. build.at # "none" /\ Shape
    BY <1>0, <1>5 DEF SaveVectors, SaveIds, SaveTitles, Save
  <2>2. index'.manifest = index.manifest /\ "manifest" \in DOMAIN index'
    BY <1>5, <2>1 DEF SaveVectors, SaveIds, SaveTitles, Save, Shape
  <2>3. build'.sums = build.sums /\ {"at", "sums"} \subseteq DOMAIN build'
    BY <1>5, <2>1 DEF SaveVectors, SaveIds, SaveTitles, Save, Shape
  <2>4. PreviousSums' = PreviousSums
    BY <2>2 DEF PreviousSums
  <2> QED
    BY <1>0, <1>2, <2>1, <2>2, <2>3, <2>4 DEF SumsKnown, Shape
<1>6. CASE SaveManifest
  <2>1. /\ build.at = "manifest" /\ build' = NoBuild
        /\ "manifest" \in DOMAIN index'
        /\ index'.manifest = [model |-> build.model, sums |-> build.sums]
    BY <1>0, <1>6 DEF SaveManifest, Save, Shape
  <2>2. DOMAIN PreviousSums' = {} \/ PreviousSums' = build.sums
    BY <2>1 DEF PreviousSums
  <2> QED
    BY <1>0, <1>2, <2>1, <2>2 DEF SumsKnown, NoBuild, Shape
<1>7. CASE BuildFails
  <2>1. index' = index /\ build' = NoBuild
    BY <1>7 DEF BuildFails
  <2>2. PreviousSums' = PreviousSums
    BY <2>1 DEF PreviousSums
  <2> QED
    BY <1>0, <1>2, <2>1, <2>2 DEF SumsKnown, NoBuild, Shape
<1> QED
  BY <1>3, <1>4, <1>5, <1>6, <1>7 DEF Builder

(* A step of a search that leaves the cache alone.                          *)
LEMMA SearchScores ==
    ASSUME ScoreInv, Steady, SentNow',
           UNCHANGED <<world, files, index, build, cache>>,
           changes' \in Nat, changes' >= changes
    PROVE  ScoreInv'
<1>0. changes \in Nat /\ Shape /\ FilesKnown /\ SumsKnown /\ KeysKnown /\ CacheRight
  BY DEF ScoreInv
<1>1. Given(changes) \subseteq Given(changes')
  BY <1>0, GivenGrows
<1>2. PreviousSums' = PreviousSums
  BY DEF PreviousSums
<1>3. FilesKnown' /\ SumsKnown' /\ KeysKnown' /\ CacheRight'
  BY <1>0, <1>1, <1>2 DEF FilesKnown, SumsKnown, KeysKnown, CacheRight
<1> QED
  BY <1>0, <1>3 DEF ScoreInv, Shape

(* A search waits for other files only when it sends.                       *)
LEMMA BecomeScores ==
    ASSUME SearchInv, ScoreInv, Steady, NEW c \in Clients, NEW r, Become(c, r),
           r.op = "wait" => \A i \in DOMAIN r.sent : r.sent[i] = files[i],
           UNCHANGED <<world, files, index, build, cache, changes>>
    PROVE  ScoreInv'
<1>1. SentNow /\ changes \in Nat
  BY DEF ScoreInv
<1>2. \A d \in Clients : req'[d] = req[d] \/ req'[d] = r
  BY DEF SearchInv, Become
<1>3. SentNow'
  BY <1>1, <1>2 DEF SentNow
<1> QED
  BY <1>1, <1>3, SearchScores

LEMMA NotWaiting ==
    /\ Idle.op # "wait"
    /\ \A r, keys : Matched(r, keys).op # "wait"
BY DEF Idle, Matched

LEMMA WorkScores ==
    ASSUME SearchInv, ScoreInv, Steady, NEW c \in Clients, Work(c)
    PROVE  ScoreInv'
<1>1. UNCHANGED <<world, files, index, build, cache, changes>>
  BY DEF Work, ResolveUnknown, ResolveTitle, Rank, Send, Combine, Execute, UnchangedButSearch
<1>2. CASE ResolveUnknown(c) \/ ResolveTitle(c) \/ Combine(c)
  <2>1. Failed(c) \/ \E keys : Become(c, Matched(req[c], keys))
    BY <1>2 DEF ResolveUnknown, ResolveTitle, Combine
  <2> QED
    BY <1>1, <2>1, NotWaiting, BecomeScores DEF Failed
<1>3. CASE Rank(c)
  <2>1. Failed(c) \/ \E S, scored : Become(c, [op |-> "score", query |-> req[c].query,
                                                matches |-> req[c].matches,
                                                shortlist |-> S, scored |-> scored])
    BY <1>3 DEF Rank
  <2>2. ASSUME NEW S, NEW scored,
               Become(c, [op |-> "score", query |-> req[c].query, matches |-> req[c].matches,
                          shortlist |-> S, scored |-> scored])
        PROVE  ScoreInv'
    BY <1>1, <2>2, BecomeScores
  <2> QED
    BY <1>1, <2>1, <2>2, NotWaiting, BecomeScores DEF Failed
<1>4. CASE Send(c)
  <2> DEFINE waiting(batch) == [op |-> "wait", query |-> req[c].query, matches |-> req[c].matches,
                                shortlist |-> req[c].shortlist, scored |-> req[c].scored,
                                sent |-> [i \in batch |-> files[i]]]
  <2>1. Failed(c) \/ \E batch : Become(c, waiting(batch))
    BY <1>4 DEF Send
  <2>2. ASSUME NEW batch, Become(c, waiting(batch))
        PROVE  ScoreInv'
    <3>1. \A i \in DOMAIN waiting(batch).sent : waiting(batch).sent[i] = files[i]
      OBVIOUS
    <3> HIDE DEF waiting
    <3> QED
      BY <1>1, <2>2, <3>1, BecomeScores
  <2> HIDE DEF waiting
  <2> QED
    BY <1>1, <2>1, <2>2, NotWaiting, BecomeScores DEF Failed
<1>5. CASE Execute(c)
  <2>1. \/ Failed(c)
        \/ Become(c, [op |-> "done", query |-> req[c].query, matches |-> req[c].matches])
    BY <1>5 DEF Execute
  <2>2. [op |-> "done", query |-> req[c].query, matches |-> req[c].matches].op # "wait"
    OBVIOUS
  <2> QED
    BY <1>1, <2>1, <2>2, NotWaiting, BecomeScores DEF Failed
<1> QED
  BY <1>2, <1>3, <1>4, <1>5 DEF Work

(* A batch is scored: what is kept under a key is the file the key names,   *)
(* unless the key is of contents the file no longer has.                    *)
LEMMA ScoredScores ==
    ASSUME SearchInv, ScoreInv, Steady, NEW c \in Clients, Scored(c)
    PROVE  ScoreInv'
<1>0. changes \in Nat /\ Shape /\ FilesKnown /\ SumsKnown /\ KeysKnown /\ SentNow /\ CacheRight
  BY DEF ScoreInv
<1> DEFINE sent == req[c].sent
           keys == {CacheKey(i) : i \in DOMAIN sent}
           next == [op |-> "score", query |-> req[c].query, matches |-> req[c].matches,
                    shortlist |-> req[c].shortlist,
                    scored |-> req[c].scored \cup DOMAIN req[c].sent]
<1>1. /\ req[c].op = "wait" /\ cache' = Kept(req[c]) /\ Become(c, next)
      /\ \A i \in DOMAIN sent : CacheKey(i).contents # 0
      /\ UNCHANGED <<world, files, index, build, changes>>
  BY DEF Scored, UnchangedButSearch
<1>2. next.op # "wait"
  OBVIOUS
<1> HIDE DEF next
<1>3. \A i \in DOMAIN sent : sent[i] = files[i]
  BY <1>0, <1>1 DEF SentNow
<1>4. \A i : CacheKey(i).image = i
  BY DEF CacheKey
<1>5. \A i \in Images : CacheKey(i).contents = 0 \/ CacheKey(i).contents \in Given(changes)
  BY <1>0 DEF CacheKey, SumsKnown, FilesKnown
<1>6. cache' = [k \in DOMAIN cache \cup keys |-> IF k \in keys THEN sent[k.image] ELSE cache[k]]
  BY <1>1 DEF Kept
<1>7. \A k \in keys : k.image \in DOMAIN sent /\ k = CacheKey(k.image)
  BY <1>4
<1> HIDE DEF keys
<1>8. KeysKnown'
  <2>1. \A k \in keys : k.image \in Images => k.contents \in Given(changes)
    BY <1>1, <1>5, <1>7
  <2> QED
    BY <1>0, <1>1, <1>6, <2>1 DEF KeysKnown
<1>9. CacheRight'
  <2> SUFFICES ASSUME NEW k \in DOMAIN cache', k.image \in Images, k.contents = files[k.image]
               PROVE  cache'[k] = k.contents
    BY <1>1 DEF CacheRight
  <2>1. CASE k \in keys
    BY <1>3, <1>6, <1>7, <2>1
  <2>2. CASE k \notin keys
    BY <1>0, <1>6, <2>2 DEF CacheRight
  <2> QED
    BY <2>1, <2>2
<1>10. SentNow'
  <2>1. \A d \in Clients : req'[d] = req[d] \/ req'[d] = next
    BY <1>1 DEF SearchInv, Become
  <2> QED
    BY <1>0, <1>1, <1>2, <2>1 DEF SentNow
<1>11. changes' \in Nat /\ Shape' /\ FilesKnown'
  BY <1>0, <1>1 DEF Shape, FilesKnown
<1>12. SumsKnown'
  <2>1. PreviousSums' = PreviousSums
    BY <1>1 DEF PreviousSums
  <2> QED
    BY <1>0, <1>1, <2>1 DEF SumsKnown
<1> QED
  BY <1>8, <1>9, <1>10, <1>11, <1>12 DEF ScoreInv

LEMMA StepScores ==
    ASSUME SearchInv, ScoreInv, [Next]_vars
    PROVE  ScoreInv'
<1>1. world' = world
  BY DEF Next, vars, Builder, BuildFails, StartBuild, Embed, SaveVectors, SaveIds, SaveTitles,
         SaveManifest, Save, ReplaceFile, LoseFile, ChangeModel, Change, Restart, Work,
         ResolveUnknown, ResolveTitle, Rank, Send, Combine, Execute, Scored, NotScored, Ask,
         UnchangedButSearch
<1> SUFFICES ASSUME Steady
             PROVE  ScoreInv'
  BY <1>1 DEF ScoreInv, Steady
<1>0. NewOrBack = {changes + 2}
  BY SteadyOr DEF NewOrBack
<1>2. ASSUME NEW i \in Images, ReplaceFile(i) \/ LoseFile(i)
      PROVE  ScoreInv'
  <2>1. files \in [Images -> Nat] /\ changes \in Nat
    BY DEF ScoreInv, FilesKnown
  <2>2. Change /\ (files' = [files EXCEPT ![i] = changes + 2] \/ files' = [files EXCEPT ![i] = 0])
    BY <1>0, <1>2 DEF ReplaceFile, LoseFile
  <2>3. /\ files' \in [Images -> Nat]
        /\ \A j \in Images : files'[j] \in {files[j], 0, changes + 2}
    BY <2>1, <2>2
  <2> QED
    BY <2>2, <2>3, ChangeScores
<1>3. CASE ChangeModel
  <2>1. Change /\ files' = files
    BY <1>3 DEF ChangeModel
  <2>2. files' \in [Images -> Nat] /\ \A j \in Images : files'[j] \in {files[j], 0, changes + 2}
    BY <2>1 DEF ScoreInv, FilesKnown
  <2> QED
    BY <2>1, <2>2, ChangeScores
<1>4. CASE Builder \/ BuildFails
  <2>1. UNCHANGED <<world, files, cache, req, changes>>
    BY <1>4 DEF Builder, BuildFails, StartBuild, Embed, SaveVectors, SaveIds, SaveTitles,
                SaveManifest, Save
  <2> QED
    BY <1>4, <2>1, BuilderSums, BuilderScores
<1>5. ASSUME NEW c \in Clients, NotScored(c)
      PROVE  ScoreInv'
  <2>1. Failed(c) \/ \E keys : Become(c, Matched(req[c], keys))
    BY <1>5 DEF NotScored
  <2>2. UNCHANGED <<world, files, index, build, cache, changes>>
    BY <1>5 DEF NotScored, UnchangedButSearch
  <2> QED
    BY <2>1, <2>2, NotWaiting, BecomeScores DEF Failed
<1>6. ASSUME NEW c \in Clients, NEW q \in Queries, Ask(c, q)
      PROVE  ScoreInv'
  <2> DEFINE asked == [op |-> "resolve", query |-> q, matches |-> << >>]
  <2>1. Become(c, asked) /\ UNCHANGED <<world, files, index, build, cache, changes>>
    BY <1>6 DEF Ask, UnchangedButSearch
  <2>2. asked.op # "wait"
    OBVIOUS
  <2> HIDE DEF asked
  <2> QED
    BY <2>1, <2>2, BecomeScores
<1>7. CASE Restart
  <2>1. /\ changes' = changes + 1 /\ req' = [c \in Clients |-> Idle]
        /\ UNCHANGED <<world, files, index, build, cache>>
    BY <1>7 DEF Restart
  <2>2. SentNow'
    BY <2>1, NotWaiting DEF SentNow
  <2>3. changes' \in Nat /\ changes' >= changes
    BY <2>1 DEF ScoreInv
  <2> QED
    BY <2>1, <2>2, <2>3, SearchScores
<1>8. CASE UNCHANGED vars
  <2>1. SentNow' /\ changes' \in Nat /\ changes' >= changes
    BY <1>8 DEF vars, ScoreInv, SentNow
  <2> QED
    BY <1>8, <2>1, SearchScores DEF vars
<1> QED
  BY <1>2, <1>3, <1>4, <1>5, <1>6, <1>7, <1>8, WorkScores, ScoredScores DEF Next

LEMMA RightScores == ScoreInv => ScoreOfFile
<1> SUFFICES ASSUME ScoreInv, Steady, NEW i \in Images,
                    i \in DOMAIN PreviousSums => PreviousSums[i] = files[i],
                    CacheKey(i) \in DOMAIN cache
             PROVE  cache[CacheKey(i)] = files[i]
  BY DEF ScoreOfFile, ScoreByChecksum, Indexed, Steady
<1>1. CacheKey(i).image = i /\ CacheKey(i).contents = files[i]
  BY DEF CacheKey
<1> QED
  BY <1>1 DEF ScoreInv, CacheRight

(* The score the cache has for an image whose file is as it was indexed was *)
(* made from that file, if nothing is replaced or built during a search and *)
(* no file is put back, for any images, batches and histories of builds     *)
(* (VisionReranker).                                                        *)
THEOREM ScoreOfFileCorrect == Spec => []ScoreOfFile
<1>1. Init => SearchInv /\ ScoreInv
  BY InitSound, InitScores
<1>2. SearchInv /\ ScoreInv /\ [Next]_vars => SearchInv' /\ ScoreInv'
  BY StepSound, StepScores
<1> QED
  BY <1>1, <1>2, RightScores, PTL DEF Spec

-----------------------------------------------------------------------------
(* The order of imgs.csv.                                                   *)

LEMMA LeastExists ==
    ASSUME NEW S, S \subseteq Nat, S # {}
    PROVE  \E x \in S : \A y \in S : x <= y
<1> DEFINE R == {p \in Nat \X Nat : p[1] < p[2]}
<1>0. S \subseteq Nat /\ S # {}
  OBVIOUS
<1>1. OpToRel(<, Nat) = R
  BY DEF OpToRel
<1>2. IsWellFoundedOn(R, Nat)
  BY <1>1, NatLessThanWellFounded
<1>3. PICK x \in S : \A y \in S : ~ (<<y, x>> \in R)
  <2> HIDE DEF R
  <2> QED
    BY ONLY <1>0, <1>2, WFMin
<1>4. ASSUME NEW y \in S
      PROVE  x <= y
  <2>1. ~ (y < x)
    BY <1>3
  <2> QED
    BY <2>1
<1> QED
  BY <1>4

(* f lists the images of S among the first k of order, step by step.        *)
Lists(order, S, k, f) ==
    f = [n \in 0..k |-> IF n = 0 THEN << >>
                        ELSE IF order[n] \in S THEN Append(f[n - 1], order[n]) ELSE f[n - 1]]

LEMMA ListsExists ==
    ASSUME NEW order, NEW S, NEW k \in Nat
    PROVE  \E f : Lists(order, S, k, f)
<1> DEFINE Bad == {n \in Nat : ~ \E f : Lists(order, S, n, f)}
<1>1. SUFFICES ASSUME Bad # {} PROVE FALSE
  OBVIOUS
<1>2. PICK m \in Bad : \A n \in Bad : m <= n
  BY <1>1, LeastExists
<1>3. m # 0
  <2>1. Lists(order, S, 0, [n \in 0..0 |-> << >>])
    BY DEF Lists
  <2>2. 0 \notin Bad
    BY <2>1
  <2>3. QED
    BY <2>2
<1>4. m - 1 \in Nat /\ m - 1 \notin Bad
  BY <1>2, <1>3
<1>5. PICK f : Lists(order, S, m - 1, f)
  BY <1>4
<1> DEFINE g == [n \in 0..m |-> IF n = 0 THEN << >>
                                ELSE IF order[n] \in S THEN Append(f[n - 1], order[n]) ELSE f[n - 1]]
<1>6. \A n \in 0..(m - 1) : f[n] = IF n = 0 THEN << >>
                                   ELSE IF order[n] \in S THEN Append(f[n - 1], order[n]) ELSE f[n - 1]
  BY <1>5 DEF Lists
<1>7. \A n \in 0..m : n # 0 => n - 1 \in 0..(m - 1) /\ n - 1 \in 0..m
  BY <1>4
<1>8. \A n \in 0..(m - 1) : g[n] = f[n]
  BY <1>4, <1>6
<1>9. \A n \in 0..m : n # 0 => g[n - 1] = f[n - 1]
  BY <1>7, <1>8
<1>10. Lists(order, S, m, g)
  BY <1>9 DEF Lists
<1>11. QED
  BY <1>10

LEMMA ListedStep ==
    ASSUME NEW order, NEW T, order \in Seq(T), NEW S
    PROVE  \E f : /\ Listed(order, S) = f[Len(order)]
                  /\ f[0] = << >>
                  /\ \A n \in 1..Len(order) :
                        f[n] = IF order[n] \in S THEN Append(f[n - 1], order[n]) ELSE f[n - 1]
<1> DEFINE f == CHOOSE h : Lists(order, S, Len(order), h)
<1>1. Len(order) \in Nat
  OBVIOUS
<1>2. Lists(order, S, Len(order), f)
  BY <1>1, ListsExists
<1>3. Listed(order, S) = f[Len(order)]
  BY DEF Listed, Lists
<1> HIDE DEF f
<1>4. f[0] = << >>
  BY <1>1, <1>2 DEF Lists
<1>5. ASSUME NEW n \in 1..Len(order)
      PROVE  f[n] = IF order[n] \in S THEN Append(f[n - 1], order[n]) ELSE f[n - 1]
  <2>1. n \in 0..Len(order) /\ n # 0
    BY ONLY <1>1
  <2>2. QED
    BY ONLY <1>2, <2>1 DEF Lists
<1>6. QED
  BY <1>3, <1>4, <1>5

LEMMA ListedType ==
    ASSUME NEW order, NEW T, order \in Seq(T), NEW S
    PROVE  Listed(order, S) \in Seq(S \cap T)
<1>1. PICK f : /\ Listed(order, S) = f[Len(order)]
               /\ f[0] = << >>
               /\ \A n \in 1..Len(order) :
                     f[n] = IF order[n] \in S THEN Append(f[n - 1], order[n]) ELSE f[n - 1]
  BY ListedStep
<1> DEFINE U == S \cap T
           Bad == {n \in 0..Len(order) : f[n] \notin Seq(U)}
<1>2. Len(order) \in Nat /\ \A n \in 1..Len(order) : order[n] \in S => order[n] \in U
  OBVIOUS
<1> HIDE DEF U
<1>3. Bad = {}
  <2>1. SUFFICES ASSUME Bad # {} PROVE FALSE
    OBVIOUS
  <2> DEFINE B == Bad
  <2> HIDE DEF B
  <2>2. PICK m \in Bad : \A n \in Bad : m <= n
    <3>1. B \subseteq Nat /\ B # {}
      BY <1>2, <2>1 DEF B
    <3>2. \E m \in B : \A n \in B : m <= n
      BY ONLY <3>1, LeastExists
    <3>3. QED
      BY ONLY <3>2 DEF B
  <2>3. m # 0
    <3>1. << >> \in Seq(U)
      OBVIOUS
    <3>2. QED
      BY <1>1, <3>1
  <2>4. m \in 1..Len(order) /\ m - 1 \in 0..Len(order) /\ m - 1 \notin Bad
    <3>1. m \in 0..Len(order) /\ B = Bad
      BY DEF B
    <3> HIDE DEF Bad
    <3>2. m \in 1..Len(order) /\ m - 1 \in 0..Len(order) /\ ~ (m <= m - 1)
      BY ONLY <1>2, <2>3, <3>1
    <3>3. QED
      BY ONLY <2>2, <3>2
  <2>5. f[m - 1] \in Seq(U)
    BY <2>4
  <2>6. f[m] \in Seq(U)
    <3>1. f[m] = IF order[m] \in S THEN Append(f[m - 1], order[m]) ELSE f[m - 1]
      BY ONLY <1>1, <2>4
    <3>2. order[m] \in S => order[m] \in U
      BY ONLY <1>2, <2>4
    <3>3. QED
      BY ONLY <2>5, <3>1, <3>2
  <2>7. QED
    BY <2>6
<1>4. f[Len(order)] \in Seq(U)
  BY <1>2, <1>3
<1>5. QED
  BY <1>1, <1>4 DEF U

LEMMA AllListed ==
    ASSUME NEW order, NEW T, order \in Seq(T), NEW S, T \subseteq S
    PROVE  Listed(order, S) = order
<1>1. PICK f : /\ Listed(order, S) = f[Len(order)]
               /\ f[0] = << >>
               /\ \A n \in 1..Len(order) :
                     f[n] = IF order[n] \in S THEN Append(f[n - 1], order[n]) ELSE f[n - 1]
  BY ListedStep
<1> DEFINE Prefix(n) == [k \in 1..n |-> order[k]]
           Bad == {n \in 0..Len(order) : f[n] # Prefix(n)}
<1>2. Len(order) \in Nat /\ \A n \in 1..Len(order) : order[n] \in S
  OBVIOUS
<1>3. Bad = {}
  <2>1. SUFFICES ASSUME Bad # {} PROVE FALSE
    OBVIOUS
  <2> DEFINE B == Bad
  <2> HIDE DEF B
  <2>2. PICK m \in Bad : \A n \in Bad : m <= n
    <3>1. B \subseteq Nat /\ B # {}
      BY <1>2, <2>1, SMTT(60) DEF B
    <3>2. \E m \in B : \A n \in B : m <= n
      BY ONLY <3>1, LeastExists
    <3>3. QED
      BY ONLY <3>2 DEF B
  <2>3. m # 0
    BY <1>1
  <2>4. m \in 1..Len(order) /\ m - 1 \in 0..Len(order) /\ m - 1 \notin Bad
    <3>1. m \in 0..Len(order) /\ B = Bad
      BY DEF B
    <3> HIDE DEF Bad
    <3>2. m \in 1..Len(order) /\ m - 1 \in 0..Len(order) /\ ~ (m <= m - 1)
      BY ONLY <1>2, <2>3, <3>1
    <3>3. QED
      BY ONLY <2>2, <3>2
  <2>5. f[m] = Append(Prefix(m - 1), order[m])
    BY <1>1, <1>2, <2>4
  <2>6. Append(Prefix(m - 1), order[m]) = Prefix(m)
    <3>1. m - 1 \in Nat /\ Prefix(m - 1) \in Seq(T) /\ Len(Prefix(m - 1)) = m - 1
      BY <1>2, <2>4
    <3>2. QED
      BY <2>4, <3>1
  <2>7. QED
    BY <2>5, <2>6
<1>4. Prefix(Len(order)) = order
  OBVIOUS
<1>5. f[Len(order)] = Prefix(Len(order))
  BY <1>2, <1>3
<1>6. QED
  BY <1>1, <1>4, <1>5

-----------------------------------------------------------------------------
(* Types.                                                                   *)

FoundAt == {"vectors", "ids", "titles", "manifest"}

BuildShape ==
    \/ build = NoBuild
    \/ build = [at |-> "embed", model |-> build.model, sums |-> build.sums, reused |-> build.reused]
    \/ /\ build.at \in FoundAt
       /\ build = [at |-> build.at, model |-> build.model, sums |-> build.sums, found |-> build.found]

Shapes ==
    /\ index = [vectors |-> index.vectors, ids |-> index.ids, titles |-> index.titles,
                manifest |-> index.manifest]
    /\ BuildShape
    /\ DOMAIN req = Clients

(* The rest of what a request knows: its matches are a sequence, its        *)
(* shortlist is finite and of a loaded index, and what it sent was there.   *)
RequestKnows(r) ==
    /\ r.op # "idle" => r.matches \in Seq(SUBSET (Images \cup Listings))
    /\ r.op \in {"score", "wait"} =>
          /\ loaded # None
          /\ r.shortlist \subseteq Images /\ IsFiniteSet(r.shortlist)
          /\ Len(r.matches) < Len(r.query.filters)
    /\ r.op = "wait" => \A i \in DOMAIN r.sent : r.sent[i] \in Nat \ {0}

TypedInv == TypeOK /\ Shapes /\ \A c \in Clients : RequestKnows(req[c])

(* Request of any r.                                                        *)
RequestType(r) ==
    \/ r = Idle
    \/ /\ r.query \in Queries
       /\ Len(r.matches) <= Len(r.query.filters)
       /\ \A k \in DOMAIN r.matches : r.matches[k] \subseteq Images \cup Listings
       /\ \/ r.op = "resolve"
          \/ r.op = "score" /\ r.scored \subseteq r.shortlist /\ r.shortlist \subseteq Images
          \/ /\ r.op = "wait"
             /\ DOMAIN r.sent # {} /\ DOMAIN r.sent \cap r.scored = {}
             /\ DOMAIN r.sent \cup r.scored \subseteq r.shortlist
          \/ r.op = "done" /\ Len(r.matches) = Len(r.query.filters)

LEMMA FiltersCounted == \A q \in Queries : Len(q.filters) \in Nat
BY DEF WellFormed

LEMMA InitTyped == Init => TypedInv
<1>1. SUFFICES ASSUME Init
               PROVE  TypedInv
  OBVIOUS
<1>2. Index
  BY <1>1 DEF Init, Index
<1>3. Build
  BY <1>1 DEF Init, Build
<1>4. \A c \in Clients : Request(c) /\ RequestKnows(req[c])
  BY <1>1 DEF Init, Request, RequestKnows, Idle
<1>5. files \in [Images -> Nat] /\ {model, builds, changes} \subseteq Nat /\ world \in Worlds
  BY <1>1 DEF Init
<1>6. DOMAIN cache = {}
  BY <1>1 DEF Init
<1>7. Shapes
  BY <1>1 DEF Init, Shapes, BuildShape
<1>8. loaded = None
  BY <1>1 DEF Init
<1>9. QED
  BY <1>2, <1>3, <1>4, <1>5, <1>6, <1>7, <1>8 DEF TypedInv, TypeOK

(* A step of one request.                                                   *)
LEMMA BecomeTyped ==
    ASSUME TypedInv, NEW c \in Clients, NEW r, Become(c, r),
           RequestType(r), RequestKnows(r)', loaded' = loaded \/ loaded = None
    PROVE  /\ \A d \in Clients : Request(d)' /\ RequestKnows(req[d])'
           /\ DOMAIN req' = Clients
<1>1. DOMAIN req = Clients
  BY DEF TypedInv, Shapes
<1>2. DOMAIN req' = Clients /\ \A d \in Clients : req'[d] = IF d = c THEN r ELSE req[d]
  BY <1>1 DEF Become
<1>3. ASSUME NEW d \in Clients
      PROVE  Request(d)' /\ RequestKnows(req[d])'
  <2>1. CASE d = c
    <3>1. req'[d] = r
      BY <1>2, <2>1
    <3>2. QED
      BY <3>1 DEF Request, RequestType, RequestKnows
  <2>2. CASE d # c
    <3>1. req'[d] = req[d]
      BY <1>2, <2>2
    <3>2. Request(d) /\ RequestKnows(req[d])
      BY DEF TypedInv, TypeOK
    <3>3. QED
      BY <3>1, <3>2 DEF Request, RequestKnows
  <2>3. QED
    BY <2>1, <2>2
<1>4. QED
  BY <1>2, <1>3

(* A step of a search keeps the types if its request, the loaded ids and    *)
(* the cache have theirs.                                                   *)
LEMMA SearchTyped ==
    ASSUME TypedInv, NEW c \in Clients, NEW r, Become(c, r), UnchangedButSearch,
           RequestType(r), RequestKnows(r)', loaded' = loaded \/ loaded = None,
           loaded' = None \/ loaded' \in Seq(Images),
           DOMAIN cache' \subseteq CacheKeys, \A k \in DOMAIN cache' : cache'[k] \in Nat \ {0}
    PROVE  TypedInv'
<1>1. /\ \A d \in Clients : Request(d)' /\ RequestKnows(req[d])'
      /\ DOMAIN req' = Clients
  BY BecomeTyped
<1>2. UNCHANGED <<world, files, model, index, build, builds, changes>>
  BY DEF UnchangedButSearch
<1>3. Index' /\ Build' /\ BuildShape'
  BY <1>2 DEF TypedInv, TypeOK, Shapes, Index, Build, BuildShape
<1>4. Shapes'
  BY <1>1, <1>2, <1>3 DEF TypedInv, Shapes
<1>5. TypeOK'
  BY <1>1, <1>2, <1>3 DEF TypedInv, TypeOK
<1>6. QED
  BY <1>1, <1>4, <1>5 DEF TypedInv

LEMMA IdleTyped == RequestType(Idle) /\ RequestKnows(Idle)'
BY DEF RequestType, RequestKnows, Idle

LEMMA MatchedTyped ==
    ASSUME NEW r, r.query \in Queries, r.matches \in Seq(SUBSET (Images \cup Listings)),
           Len(r.matches) < Len(r.query.filters),
           NEW keys, keys \subseteq Images \cup Listings
    PROVE  RequestType(Matched(r, keys)) /\ RequestKnows(Matched(r, keys))'
<1> DEFINE m == Append(r.matches, keys)
           next == Matched(r, keys)
<1>1. /\ m \in Seq(SUBSET (Images \cup Listings)) /\ Len(m) = Len(r.matches) + 1
      /\ Len(r.matches) \in Nat
  OBVIOUS
<1>2. \A k \in DOMAIN m : m[k] \subseteq Images \cup Listings
  BY <1>1
<1>3. next.op = "resolve" /\ next.query = r.query /\ next.matches = m
  BY DEF Matched
<1> HIDE DEF m, next
<1>4. Len(m) <= Len(r.query.filters)
  BY <1>1, FiltersCounted
<1>5. RequestType(next)
  BY <1>2, <1>3, <1>4 DEF RequestType
<1>6. RequestKnows(next)'
  <2>1. \A x : x = next => RequestKnows(x)'
    BY <1>1, <1>3 DEF RequestKnows
  <2>2. QED
    BY <2>1 DEF next
<1>7. QED
  BY <1>5, <1>6 DEF next

(* What is known of a request, by what it does.                             *)
LEMMA OfRequest ==
    ASSUME TypedInv, NEW c \in Clients, req[c].op # "idle"
    PROVE  /\ req[c].query \in Queries
           /\ req[c].matches \in Seq(SUBSET (Images \cup Listings))
           /\ req[c].op = "score" => req[c].scored \subseteq req[c].shortlist
           /\ req[c].op = "wait" => /\ DOMAIN req[c].sent \cup req[c].scored \subseteq req[c].shortlist
                                    /\ \A i \in DOMAIN req[c].sent : req[c].sent[i] \in Nat \ {0}
           /\ req[c].op \in {"score", "wait"} =>
                 /\ req[c].shortlist \subseteq Images /\ IsFiniteSet(req[c].shortlist)
                 /\ loaded \in Seq(Images)
                 /\ Len(req[c].matches) < Len(req[c].query.filters)
<1>1. Request(c) /\ RequestKnows(req[c]) /\ (loaded = None \/ loaded \in Seq(Images))
  BY DEF TypedInv, TypeOK
<1>2. req[c] # Idle
  BY DEF Idle
<1>3. req[c].query \in Queries /\ req[c].matches \in Seq(SUBSET (Images \cup Listings))
  BY <1>1, <1>2 DEF Request, RequestKnows
<1>4. req[c].op = "score" => req[c].scored \subseteq req[c].shortlist
  BY <1>1, <1>2 DEF Request
<1>5. req[c].op = "wait" => DOMAIN req[c].sent \cup req[c].scored \subseteq req[c].shortlist
  BY <1>1, <1>2 DEF Request
<1>6. QED
  BY <1>1, <1>3, <1>4, <1>5 DEF RequestKnows

(* A request that matched goes on, one that failed is idle.                 *)
LEMMA ResolvedTyped ==
    ASSUME TypedInv, NEW c \in Clients, UnchangedButSearch, req[c].op # "idle",
           Len(req[c].matches) < Len(req[c].query.filters),
           \/ Failed(c)
           \/ \E keys : keys \subseteq Images \cup Listings /\ Become(c, Matched(req[c], keys)),
           loaded' = loaded \/ loaded = None, loaded' = None \/ loaded' \in Seq(Images),
           cache' = cache
    PROVE  TypedInv'
<1>1. req[c].query \in Queries /\ req[c].matches \in Seq(SUBSET (Images \cup Listings))
  BY OfRequest
<1>2. DOMAIN cache' \subseteq CacheKeys /\ \A k \in DOMAIN cache' : cache'[k] \in Nat \ {0}
  BY DEF TypedInv, TypeOK
<1>3. CASE Failed(c)
  BY <1>2, <1>3, IdleTyped, SearchTyped DEF Failed
<1>4. ASSUME NEW keys, keys \subseteq Images \cup Listings, Become(c, Matched(req[c], keys))
      PROVE  TypedInv'
  <2>1. ASSUME NEW old, old = req[c], NEW r, r = Matched(old, keys)
        PROVE  TypedInv'
    <3>1. RequestType(Matched(old, keys)) /\ RequestKnows(Matched(old, keys))'
      BY <1>1, <1>4, <2>1, MatchedTyped
    <3>2. Become(c, r)
      BY <1>4, <2>1
    <3>3. QED
      BY <1>2, <2>1, <3>1, <3>2, SearchTyped
  <2>2. QED
    BY <2>1
<1>5. QED
  BY <1>3, <1>4

LEMMA LoadedImages ==
    ASSUME NEW s \in Seq(Images)
    PROVE  LET S == {s[n] : n \in DOMAIN s}
           IN  S \subseteq Images /\ IsFiniteSet(S)
<1>1. DOMAIN s = 1..Len(s) /\ Len(s) \in Nat /\ \A n \in DOMAIN s : s[n] \in Images
  OBVIOUS
<1>2. IsFiniteSet(1..Len(s))
  BY ONLY <1>1, FS_Interval
<1>3. IsFiniteSet({s[n] : n \in 1..Len(s)})
  <2> DEFINE S == {s[n] : n \in 1..Len(s)}
             f == [n \in 1..Len(s) |-> s[n]]
  <2>1. f \in Surjection(1..Len(s), S)
    BY DEF Surjection
  <2> HIDE DEF f, S
  <2>2. IsFiniteSet(S)
    BY ONLY <1>2, <2>1, FS_Surjection
  <2>3. QED
    BY <2>2 DEF S
<1>4. QED
  BY <1>1, <1>3

LEMMA ResolvingTyped ==
    ASSUME TypedInv, NEW c \in Clients,
           ResolveUnknown(c) \/ ResolveTitle(c) \/ Combine(c) \/ NotScored(c)
    PROVE  TypedInv'
<1>1. UnchangedButSearch /\ loaded' = loaded /\ cache' = cache /\ req[c].op # "idle"
  BY DEF ResolveUnknown, ResolveTitle, Combine, NotScored, Resolving
<1>2. loaded = None \/ loaded \in Seq(Images)
  BY DEF TypedInv, TypeOK
<1>3. Len(req[c].matches) < Len(req[c].query.filters)
  BY <1>1, OfRequest DEF ResolveUnknown, ResolveTitle, Combine, NotScored, Resolving
<1>4. CASE ResolveUnknown(c) \/ ResolveTitle(c)
  <2>1. \/ Failed(c)
        \/ \E keys : keys \subseteq Images \cup Listings /\ Become(c, Matched(req[c], keys))
    BY <1>4 DEF ResolveUnknown, ResolveTitle
  <2>2. QED
    BY <1>1, <1>2, <1>3, <2>1, ResolvedTyped
<1>5. CASE Combine(c)
  <2>1. req[c].shortlist \subseteq Images
    BY <1>1, <1>5, OfRequest DEF Combine
  <2>2. \E keys : keys \subseteq Images \cup Listings /\ Become(c, Matched(req[c], keys))
    BY <1>5, <2>1 DEF Combine
  <2>3. QED
    BY <1>1, <1>2, <1>3, <2>2, ResolvedTyped
<1>6. CASE NotScored(c)
  <2>1. loaded \in Seq(Images)
    BY <1>1, <1>6, OfRequest DEF NotScored
  <2>2. {loaded[n] : n \in DOMAIN loaded} \subseteq Images
    BY <2>1, LoadedImages
  <2>3. \/ Failed(c)
        \/ \E keys : keys \subseteq Images \cup Listings /\ Become(c, Matched(req[c], keys))
    BY <1>6, <2>2 DEF NotScored
  <2>4. QED
    BY <1>1, <1>2, <1>3, <2>3, ResolvedTyped
<1>7. QED
  BY <1>4, <1>5, <1>6

LEMMA AskTyped ==
    ASSUME TypedInv, NEW c \in Clients, NEW q \in Queries, Ask(c, q)
    PROVE  TypedInv'
<1> DEFINE r == [op |-> "resolve", query |-> q, matches |-> << >>]
<1>1. Become(c, r) /\ UnchangedButSearch /\ loaded' = loaded /\ cache' = cache
  BY DEF Ask
<1>2. RequestType(r)
  <2>1. 0 <= Len(q.filters)
    BY FiltersCounted
  <2>2. QED
    BY <2>1 DEF RequestType
<1>3. RequestKnows(r)'
  BY DEF RequestKnows
<1> HIDE DEF r
<1>4. /\ DOMAIN cache \subseteq CacheKeys /\ \A k \in DOMAIN cache : cache[k] \in Nat \ {0}
      /\ loaded = None \/ loaded \in Seq(Images)
  BY DEF TypedInv, TypeOK
<1>5. QED
  BY <1>1, <1>2, <1>3, <1>4, SearchTyped

LEMMA RankTyped ==
    ASSUME TypedInv, NEW c \in Clients, Rank(c)
    PROVE  TypedInv'
<1>1. /\ UnchangedButSearch /\ cache' = cache /\ req[c].op = "resolve"
      /\ loaded' = IF loaded = None /\ Readable THEN index.ids ELSE loaded
      /\ Len(req[c].matches) < Len(req[c].query.filters)
  BY DEF Rank, Resolving
<1>2. /\ loaded = None \/ loaded \in Seq(Images)
      /\ index.ids \in Seq(Images)
      /\ DOMAIN cache' \subseteq CacheKeys /\ \A k \in DOMAIN cache' : cache'[k] \in Nat \ {0}
  BY <1>1 DEF TypedInv, TypeOK, Index
<1>3. (loaded' = loaded \/ loaded = None) /\ (loaded' = None \/ loaded' \in Seq(Images))
  BY <1>1, <1>2
<1>4. /\ req[c].query \in Queries /\ req[c].matches \in Seq(SUBSET (Images \cup Listings))
  BY <1>1, OfRequest
<1>5. CASE Failed(c)
  BY <1>1, <1>2, <1>3, <1>4, <1>5, ResolvedTyped
<1>6. CASE ~ Failed(c)
  <2>1. loaded' # None
    BY <1>6 DEF Rank
  <2>2. PICK S \in kSubset(Smaller(Shortlist, Len(loaded')), {loaded'[n] : n \in DOMAIN loaded'}) :
           Become(c, [op |-> "score", query |-> req[c].query, matches |-> req[c].matches,
                      shortlist |-> S, scored |-> {i \in S : CacheKey(i) \in DOMAIN cache}])
    BY <1>6, <2>1 DEF Rank
  <2>3. S \subseteq {loaded'[n] : n \in DOMAIN loaded'}
    BY DEF kSubset
  <2>4. S \subseteq Images /\ IsFiniteSet(S)
    <3>1. loaded' \in Seq(Images)
      BY <1>3, <2>1
    <3>2. {loaded'[n] : n \in DOMAIN loaded'} \subseteq Images /\ IsFiniteSet({loaded'[n] : n \in DOMAIN loaded'})
      BY <3>1, LoadedImages
    <3>3. QED
      BY <2>3, <3>2, FS_Subset
  <2>5. ASSUME NEW r, r = [op |-> "score", query |-> req[c].query, matches |-> req[c].matches,
                           shortlist |-> S, scored |-> {i \in S : CacheKey(i) \in DOMAIN cache}]
        PROVE  TypedInv'
    <3>1. /\ r.op = "score" /\ r.query = req[c].query /\ r.matches = req[c].matches
          /\ r.shortlist = S /\ r.scored \subseteq S
      BY <2>5
    <3>2. RequestType(r)
      <4>1. /\ Len(r.matches) <= Len(r.query.filters)
            /\ \A k \in DOMAIN r.matches : r.matches[k] \subseteq Images \cup Listings
        BY <1>1, <1>4, <3>1, FiltersCounted, SMTT(60)
      <4>2. QED
        BY <1>4, <2>4, <3>1, <4>1 DEF RequestType
    <3>3. RequestKnows(r)'
      BY <1>1, <1>4, <2>1, <2>4, <3>1 DEF RequestKnows
    <3>4. QED
      BY <1>1, <1>2, <1>3, <2>2, <2>5, <3>2, <3>3, SearchTyped
  <2>6. QED
    BY <2>5
<1>7. QED
  BY <1>5, <1>6

LEMMA SendTyped ==
    ASSUME TypedInv, NEW c \in Clients, Send(c)
    PROVE  TypedInv'
<1> DEFINE left == Unscored(req[c])
<1>1. /\ UnchangedButSearch /\ cache' = cache /\ loaded' = loaded
      /\ req[c].op = "score" /\ req[c].scored # req[c].shortlist
  BY DEF Send
<1>2. /\ req[c].query \in Queries /\ req[c].matches \in Seq(SUBSET (Images \cup Listings))
      /\ req[c].scored \subseteq req[c].shortlist
      /\ req[c].shortlist \subseteq Images /\ IsFiniteSet(req[c].shortlist)
      /\ loaded \in Seq(Images) /\ loaded # None
      /\ Len(req[c].matches) < Len(req[c].query.filters)
  BY <1>1, OfRequest DEF TypedInv, RequestKnows
<1>3. /\ DOMAIN cache' \subseteq CacheKeys /\ \A k \in DOMAIN cache' : cache'[k] \in Nat \ {0}
      /\ files \in [Images -> Nat]
  BY <1>1 DEF TypedInv, TypeOK
<1>4. CASE Failed(c)
  BY <1>1, <1>2, <1>3, <1>4, ResolvedTyped
<1>5. CASE ~ Failed(c)
  <2>1. PICK batch \in kSubset(Smaller(BatchSize, Cardinality(left)), left) :
           /\ \A i \in batch : files[i] # 0
           /\ Become(c, [op |-> "wait", query |-> req[c].query, matches |-> req[c].matches,
                         shortlist |-> req[c].shortlist, scored |-> req[c].scored,
                         sent |-> [i \in batch |-> files[i]]])
    BY <1>5 DEF Send
  <2>2. left = req[c].shortlist \ req[c].scored /\ left # {}
    BY <1>1, <1>2 DEF Unscored
  <2>3. IsFiniteSet(left)
    BY <1>2, <2>2, FS_Subset
  <2>4. batch \subseteq left /\ Cardinality(batch) = Smaller(BatchSize, Cardinality(left))
    BY <2>1 DEF kSubset
  <2>5. Cardinality(batch) # 0
    <3>1. Cardinality(left) \in Nat /\ Cardinality(left) # 0
      BY ONLY <2>2, <2>3, FS_CardinalityType, FS_EmptySet
    <3>2. BatchSize \in Nat \ {0}
      OBVIOUS
    <3>3. QED
      BY ONLY <2>4, <3>1, <3>2 DEF Smaller
  <2>6. batch # {}
    BY ONLY <2>5, FS_EmptySet
  <2> HIDE DEF left
  <2>7. ASSUME NEW r, r = [op |-> "wait", query |-> req[c].query, matches |-> req[c].matches,
                           shortlist |-> req[c].shortlist, scored |-> req[c].scored,
                           sent |-> [i \in batch |-> files[i]]]
        PROVE  TypedInv'
    <3>1. /\ r.op = "wait" /\ r.query = req[c].query /\ r.matches = req[c].matches
          /\ r.shortlist = req[c].shortlist /\ r.scored = req[c].scored
          /\ r.sent = [i \in batch |-> files[i]] /\ DOMAIN r.sent = batch
      BY <2>7
    <3>2. RequestType(r)
      <4>1. /\ Len(r.matches) <= Len(r.query.filters)
            /\ \A k \in DOMAIN r.matches : r.matches[k] \subseteq Images \cup Listings
        BY <1>1, <1>2, <3>1, FiltersCounted, SMTT(60)
      <4>2. /\ DOMAIN r.sent # {} /\ DOMAIN r.sent \cap r.scored = {}
            /\ DOMAIN r.sent \cup r.scored \subseteq r.shortlist
        BY <1>2, <2>2, <2>4, <2>6, <3>1
      <4>3. QED
        BY <1>2, <3>1, <4>1, <4>2 DEF RequestType
    <3>3. \A i \in DOMAIN r.sent : r.sent[i] \in Nat \ {0}
      BY <1>2, <1>3, <2>1, <2>2, <2>4, <3>1
    <3>4. RequestKnows(r)'
      BY <1>1, <1>2, <3>1, <3>3 DEF RequestKnows
    <3>5. QED
      BY <1>1, <1>2, <1>3, <2>1, <2>7, <3>2, <3>4, SearchTyped
  <2>8. QED
    BY <2>7
<1>6. QED
  BY <1>4, <1>5

LEMMA KeysTyped == TypedInv => \A i \in Images : CacheKey(i) \in CacheKeys
<1>1. SUFFICES ASSUME TypedInv, NEW i \in Images
               PROVE  CacheKey(i) \in CacheKeys
  OBVIOUS
<1>2. i \in DOMAIN PreviousSums => PreviousSums[i] \in Nat
  <2>1. CASE index.manifest = None
    BY <2>1 DEF PreviousSums
  <2>2. CASE index.manifest # None
    <3>1. PreviousSums = index.manifest.sums
      BY <2>2 DEF PreviousSums
    <3>2. Index
      BY <1>1 DEF TypedInv, TypeOK
    <3>3. Manifest(index.manifest)
      BY <2>2, <3>2 DEF Index
    <3>4. MapTo(Nat \ {0}, index.manifest.sums)
      BY <3>3 DEF Manifest
    <3>5. QED
      BY <3>1, <3>4 DEF MapTo
  <2>3. QED
    BY <2>1, <2>2
<1>3. files[i] \in Nat
  BY <1>1 DEF TypedInv, TypeOK
<1>4. QED
  BY <1>2, <1>3 DEF CacheKey, CacheKeys

LEMMA ScoredTyped ==
    ASSUME TypedInv, NEW c \in Clients, Scored(c)
    PROVE  TypedInv'
<1> DEFINE keys == {CacheKey(i) : i \in DOMAIN req[c].sent}
<1>1. /\ UnchangedButSearch /\ cache' = Kept(req[c]) /\ loaded' = loaded
      /\ req[c].op = "wait"
      /\ Become(c, [op |-> "score", query |-> req[c].query, matches |-> req[c].matches,
                    shortlist |-> req[c].shortlist,
                    scored |-> req[c].scored \cup DOMAIN req[c].sent])
  BY DEF Scored
<1>2. /\ req[c].query \in Queries /\ req[c].matches \in Seq(SUBSET (Images \cup Listings))
      /\ DOMAIN req[c].sent \cup req[c].scored \subseteq req[c].shortlist
      /\ \A i \in DOMAIN req[c].sent : req[c].sent[i] \in Nat \ {0}
      /\ req[c].shortlist \subseteq Images /\ IsFiniteSet(req[c].shortlist)
      /\ loaded \in Seq(Images) /\ loaded # None
      /\ Len(req[c].matches) < Len(req[c].query.filters)
  BY <1>1, OfRequest DEF TypedInv, RequestKnows
<1>3. DOMAIN cache \subseteq CacheKeys /\ \A k \in DOMAIN cache : cache[k] \in Nat \ {0}
  BY DEF TypedInv, TypeOK
<1>4. cache' = [k \in DOMAIN cache \cup keys |-> IF k \in keys THEN req[c].sent[k.image] ELSE cache[k]]
  BY <1>1 DEF Kept
<1>5. \A k \in keys : k \in CacheKeys /\ k.image \in DOMAIN req[c].sent
  <2>1. \A i : CacheKey(i).image = i
    BY DEF CacheKey
  <2>2. QED
    BY <1>2, <2>1, KeysTyped
<1> HIDE DEF keys
<1>6. DOMAIN cache' \subseteq CacheKeys /\ \A k \in DOMAIN cache' : cache'[k] \in Nat \ {0}
  BY <1>2, <1>3, <1>4, <1>5
<1>7. ASSUME NEW r, r = [op |-> "score", query |-> req[c].query, matches |-> req[c].matches,
                         shortlist |-> req[c].shortlist,
                         scored |-> req[c].scored \cup DOMAIN req[c].sent]
      PROVE  TypedInv'
  <2>1. /\ r.op = "score" /\ r.query = req[c].query /\ r.matches = req[c].matches
        /\ r.shortlist = req[c].shortlist /\ r.scored = req[c].scored \cup DOMAIN req[c].sent
    BY <1>7
  <2>2. RequestType(r)
    <3>1. /\ Len(r.matches) <= Len(r.query.filters)
          /\ \A k \in DOMAIN r.matches : r.matches[k] \subseteq Images \cup Listings
      BY <1>2, <2>1, FiltersCounted
    <3>2. QED
      BY <1>2, <2>1, <3>1 DEF RequestType
  <2>3. RequestKnows(r)'
    BY <1>1, <1>2, <2>1 DEF RequestKnows
  <2>4. QED
    BY <1>1, <1>2, <1>6, <1>7, <2>2, <2>3, SearchTyped
<1>8. QED
  BY <1>7

LEMMA ExecuteTyped ==
    ASSUME TypedInv, NEW c \in Clients, Execute(c)
    PROVE  TypedInv'
<1>1. /\ UnchangedButSearch /\ cache' = cache /\ loaded' = loaded
      /\ req[c].op = "resolve" /\ ~ (Len(req[c].matches) < Len(req[c].query.filters))
      /\ \/ Failed(c)
         \/ Become(c, [op |-> "done", query |-> req[c].query, matches |-> req[c].matches])
  BY DEF Execute, Resolving
<1>2. req[c].query \in Queries /\ req[c].matches \in Seq(SUBSET (Images \cup Listings))
  BY <1>1, OfRequest
<1>3. /\ DOMAIN cache' \subseteq CacheKeys /\ \A k \in DOMAIN cache' : cache'[k] \in Nat \ {0}
      /\ loaded' = None \/ loaded' \in Seq(Images)
  BY <1>1 DEF TypedInv, TypeOK
<1>4. Len(req[c].matches) <= Len(req[c].query.filters)
  <2>1. Request(c) /\ req[c] # Idle
    BY <1>1 DEF TypedInv, TypeOK, Idle
  <2>2. QED
    BY <2>1 DEF Request
<1>5. CASE Failed(c)
  BY <1>1, <1>3, <1>5, IdleTyped, SearchTyped DEF Failed
<1>6. ASSUME NEW r, r = [op |-> "done", query |-> req[c].query, matches |-> req[c].matches],
             Become(c, r)
      PROVE  TypedInv'
  <2>1. r.op = "done" /\ r.query = req[c].query /\ r.matches = req[c].matches
    BY <1>6
  <2>2. Len(r.matches) = Len(r.query.filters)
    BY <1>1, <1>2, <1>4, <2>1, FiltersCounted
  <2>3. RequestType(r)
    <3>1. \A k \in DOMAIN r.matches : r.matches[k] \subseteq Images \cup Listings
      BY <1>2, <2>1
    <3>2. QED
      BY <1>2, <1>4, <2>1, <2>2, <3>1 DEF RequestType
  <2>4. RequestKnows(r)'
    BY <1>2, <2>1 DEF RequestKnows
  <2>5. QED
    BY <1>1, <1>3, <1>6, <2>3, <2>4, SearchTyped
<1>7. QED
  BY <1>1, <1>5, <1>6

-----------------------------------------------------------------------------
(* Types of the builder.                                                    *)

LEMMA FilesTyped ==
    ASSUME TypedInv, Change, files' \in [Images -> Nat], model' \in Nat
    PROVE  TypedInv'
<1>1. /\ UNCHANGED <<world, index, build, loaded, cache, req, builds>>
      /\ changes' \in Nat
  BY DEF Change, TypedInv, TypeOK
<1>2. Index' /\ Build' /\ BuildShape'
  BY <1>1 DEF TypedInv, TypeOK, Shapes, Index, Build, BuildShape
<1>3. \A c \in Clients : Request(c)' /\ RequestKnows(req[c])'
  BY <1>1 DEF TypedInv, TypeOK, Request, RequestKnows
<1>4. QED
  BY <1>1, <1>2, <1>3 DEF TypedInv, TypeOK, Shapes

(* A step of the builder keeps the types if index and build have theirs.    *)
LEMMA BuilderTyped ==
    ASSUME TypedInv, UNCHANGED <<world, files, model, loaded, cache, req, changes>>,
           builds' \in Nat, Index', Build', BuildShape',
           index' = [vectors |-> index'.vectors, ids |-> index'.ids, titles |-> index'.titles,
                     manifest |-> index'.manifest]
    PROVE  TypedInv'
<1>1. \A c \in Clients : Request(c)' /\ RequestKnows(req[c])'
  BY DEF TypedInv, TypeOK, Request, RequestKnows
<1>2. QED
  BY <1>1 DEF TypedInv, TypeOK, Shapes

(* The previous vectors, where the index can be read.                       *)
LEMMA PreviousTyped ==
    ASSUME TypedInv, NEW m, NEW i \in DOMAIN PreviousVectors(m)
    PROVE  /\ Readable /\ index.manifest # None /\ index.manifest.model = m
           /\ \E n \in DOMAIN index.ids :
                 /\ index.ids[n] = i /\ n \in DOMAIN index.vectors
                 /\ PreviousVectors(m)[i] = index.vectors[n]
           /\ i \in Images /\ PreviousVectors(m)[i] \in Vectors
<1>1. index.vectors \in Seq(Vectors) /\ index.ids \in Seq(Images)
  BY DEF TypedInv, TypeOK, Index
<1>2. CASE ~ (Readable /\ index.manifest # None /\ index.manifest.model = m)
  <2>1. DOMAIN PreviousVectors(m) = {}
    BY <1>2 DEF PreviousVectors
  <2>2. QED
    BY <2>1
<1>3. CASE Readable /\ index.manifest # None /\ index.manifest.model = m
  <2> DEFINE n == CHOOSE k \in DOMAIN index.ids : index.ids[k] = i
  <2>1. PreviousVectors(m) = [j \in {index.ids[k] : k \in DOMAIN index.ids} |->
            index.vectors[CHOOSE k \in DOMAIN index.ids : index.ids[k] = j]]
    BY <1>3 DEF PreviousVectors
  <2>2. i \in {index.ids[k] : k \in DOMAIN index.ids} /\ PreviousVectors(m)[i] = index.vectors[n]
    BY <2>1
  <2>3. n \in DOMAIN index.ids /\ index.ids[n] = i
    BY <2>2
  <2> HIDE DEF n
  <2>4. n \in DOMAIN index.vectors
    BY <1>1, <1>3, <2>3 DEF Readable
  <2>5. i \in Images /\ index.vectors[n] \in Vectors
    BY <1>1, <2>3, <2>4
  <2>6. QED
    BY <1>3, <2>2, <2>3, <2>4, <2>5
<1>4. QED
  BY <1>2, <1>3

LEMMA StartTyped ==
    ASSUME TypedInv, StartBuild
    PROVE  TypedInv'
<1> DEFINE sums == [i \in {j \in Images : files[j] # 0} |-> files[i]]
           reused == [i \in Reusable(model) |-> PreviousVectors(model)[i]]
<1>1. /\ UNCHANGED <<world, files, model, index, loaded, cache, req, changes>>
      /\ builds' = builds + 1
      /\ build' = [at |-> "embed", model |-> model, sums |-> sums, reused |-> reused]
  BY DEF StartBuild
<1>2. builds' \in Nat /\ model \in Nat /\ files \in [Images -> Nat]
  BY <1>1 DEF TypedInv, TypeOK
<1>3. MapTo(Nat \ {0}, sums)
  BY <1>2 DEF MapTo
<1>4. MapTo(Vectors, reused)
  <2>1. \A i \in Reusable(model) : i \in DOMAIN PreviousVectors(model)
    BY DEF Reusable
  <2>2. \A i \in Reusable(model) : i \in Images /\ PreviousVectors(model)[i] \in Vectors
    BY <2>1, PreviousTyped
  <2>3. QED
    BY <2>2 DEF MapTo
<1> HIDE DEF sums, reused
<1>5. Build' /\ BuildShape'
  BY <1>1, <1>2, <1>3, <1>4 DEF Build, BuildShape, Manifest
<1>6. Index' /\ index' = [vectors |-> index'.vectors, ids |-> index'.ids, titles |-> index'.titles,
                          manifest |-> index'.manifest]
  BY <1>1 DEF TypedInv, TypeOK, Shapes, Index
<1>7. QED
  BY <1>1, <1>2, <1>5, <1>6, BuilderTyped

(* What the build knows, by where it is.                                    *)
LEMMA OfBuild ==
    ASSUME TypedInv, build.at # "none"
    PROVE  /\ build.model \in Nat /\ MapTo(Nat \ {0}, build.sums)
           /\ build.at = "embed" => MapTo(Vectors, build.reused)
           /\ build.at \in FoundAt =>
                 /\ MapTo(Vectors, build.found)
                 /\ build = [at |-> build.at, model |-> build.model, sums |-> build.sums,
                             found |-> build.found]
           /\ build.at = "embed" \/ build.at \in FoundAt
<1>1. build # NoBuild /\ Build /\ BuildShape
  BY DEF NoBuild, TypedInv, TypeOK, Shapes
<1>2. Manifest(build)
  BY <1>1 DEF Build
<1>3. \/ build.at = "embed" /\ MapTo(Vectors, build.reused)
      \/ build.at \in FoundAt /\ MapTo(Vectors, build.found)
  BY <1>1 DEF Build, FoundAt
<1>4. build.at \in FoundAt =>
        build = [at |-> build.at, model |-> build.model, sums |-> build.sums, found |-> build.found]
  BY <1>1 DEF BuildShape, FoundAt
<1>5. "embed" \notin FoundAt
  BY DEF FoundAt
<1>6. QED
  BY <1>2, <1>3, <1>4, <1>5 DEF Manifest

(* What is found is a vector of each image whose file was there, the new    *)
(* ones of the file as it is.                                               *)
NewImages(bad) == {i \in DOMAIN build.sums \ DOMAIN build.reused : files[i] # 0} \ bad

FoundIn(bad) ==
    [i \in NewImages(bad) \cup DOMAIN build.reused |->
       IF i \in NewImages(bad) THEN Vector(i, files[i], build.model) ELSE build.reused[i]]

LEMMA EmbedFound ==
    ASSUME NEW bad, Embed(bad)
    PROVE  /\ build.at = "embed"
           /\ UNCHANGED <<world, files, model, index, loaded, cache, req, builds, changes>>
           /\ build' = [at |-> "vectors", model |-> build.model, sums |-> build.sums,
                        found |-> FoundIn(bad)]
BY DEF Embed, FoundIn, NewImages

LEMMA EmbedTyped ==
    ASSUME TypedInv, NEW bad, Embed(bad)
    PROVE  TypedInv'
<1>1. /\ build.at = "embed"
      /\ UNCHANGED <<world, files, model, index, loaded, cache, req, builds, changes>>
      /\ build' = [at |-> "vectors", model |-> build.model, sums |-> build.sums,
                   found |-> FoundIn(bad)]
  BY EmbedFound
<1>2. builds' \in Nat /\ files \in [Images -> Nat]
  BY <1>1 DEF TypedInv, TypeOK
<1>3. build.model \in Nat /\ MapTo(Nat \ {0}, build.sums) /\ MapTo(Vectors, build.reused)
  BY <1>1, OfBuild
<1>4. NewImages(bad) \subseteq Images /\ DOMAIN build.reused \subseteq Images
  BY <1>3 DEF NewImages, MapTo
<1>5. \A i \in NewImages(bad) : Vector(i, files[i], build.model) \in Vectors
  BY <1>2, <1>3, <1>4 DEF Vector, Vectors
<1>6. MapTo(Vectors, FoundIn(bad))
  BY <1>3, <1>4, <1>5 DEF MapTo, FoundIn
<1>7. Build' /\ BuildShape'
  BY <1>1, <1>3, <1>6 DEF Build, BuildShape, Manifest, FoundAt
<1>8. Index' /\ index' = [vectors |-> index'.vectors, ids |-> index'.ids, titles |-> index'.titles,
                          manifest |-> index'.manifest]
  BY <1>1 DEF TypedInv, TypeOK, Shapes, Index
<1>9. QED
  BY <1>1, <1>2, <1>7, <1>8, BuilderTyped

LEMMA FoundTyped ==
    ASSUME TypedInv, build.at \in FoundAt
    PROVE  Found \in Seq(DOMAIN build.found) /\ Found \in Seq(Images)
<1>1. DOMAIN build.found \subseteq Images
  BY OfBuild DEF MapTo, FoundAt
<1>2. Found \in Seq(DOMAIN build.found \cap Images)
  BY ListedType DEF Found
<1>3. DOMAIN build.found \cap Images = DOMAIN build.found
  BY <1>1
<1>4. Found \in Seq(DOMAIN build.found)
  BY <1>2, <1>3
<1>5. QED
  BY ONLY <1>1, <1>4

-----------------------------------------------------------------------------
(* The files of the index.                                                  *)

LEMMA SaveStep ==
    ASSUME NEW at, NEW next, NEW files_, Save(at, next, files_)
    PROVE  /\ build.at = at /\ index' = files_ /\ build' = next
           /\ UNCHANGED <<world, files, model, loaded, cache, req, builds, changes>>
BY DEF Save

(* A step that writes one file: the build goes on with what it has.         *)
LEMMA GoesOn ==
    ASSUME TypedInv, build.at \in FoundAt, NEW next \in FoundAt,
           build' = [build EXCEPT !.at = next]
    PROVE  /\ build' = [at |-> next, model |-> build.model, sums |-> build.sums,
                        found |-> build.found]
           /\ Build' /\ BuildShape'
<1>1. /\ build.model \in Nat /\ MapTo(Nat \ {0}, build.sums) /\ MapTo(Vectors, build.found)
      /\ build = [at |-> build.at, model |-> build.model, sums |-> build.sums,
                  found |-> build.found]
  BY OfBuild DEF FoundAt
<1>2. build' = [at |-> next, model |-> build.model, sums |-> build.sums, found |-> build.found]
  BY <1>1
<1>3. QED
  BY <1>1, <1>2 DEF Build, BuildShape, Manifest, FoundAt

LEMMA SaveTyped ==
    ASSUME TypedInv, SaveVectors \/ SaveIds \/ SaveTitles
    PROVE  TypedInv'
<1>1. /\ Index
      /\ index = [vectors |-> index.vectors, ids |-> index.ids, titles |-> index.titles,
                  manifest |-> index.manifest]
  BY DEF TypedInv, TypeOK, Shapes
<1>2. \E at \in {"vectors", "ids", "titles"}, next \in FoundAt :
        build.at = at /\ build' = [build EXCEPT !.at = next]
  BY DEF SaveVectors, SaveIds, SaveTitles, Save, FoundAt
<1>3. build.at \in FoundAt /\ Build' /\ BuildShape'
  BY <1>2, GoesOn DEF FoundAt
<1>4. UNCHANGED <<world, files, model, loaded, cache, req, builds, changes>>
  BY DEF SaveVectors, SaveIds, SaveTitles, Save
<1>5. MapTo(Vectors, build.found) /\ Found \in Seq(DOMAIN build.found) /\ Found \in Seq(Images)
  BY <1>3, OfBuild, FoundTyped DEF FoundAt
<1>6. [n \in DOMAIN Found |-> build.found[Found[n]]] \in Seq(Vectors)
  BY <1>5 DEF MapTo
<1>7. /\ index' = [vectors |-> index'.vectors, ids |-> index'.ids, titles |-> index'.titles,
                   manifest |-> index'.manifest]
      /\ index'.vectors \in Seq(Vectors) /\ index'.ids \in Seq(Images)
      /\ index'.titles \in BOOLEAN /\ index'.manifest = index.manifest
  <2>1. /\ index.vectors \in Seq(Vectors) /\ index.ids \in Seq(Images)
        /\ index.titles \in BOOLEAN
    BY <1>1 DEF Index
  <2>2. CASE SaveVectors
    <3>1. index' = [index EXCEPT !.vectors = [n \in DOMAIN Found |-> build.found[Found[n]]]]
      BY <2>2 DEF SaveVectors, Save, Positions
    <3>2. QED
      BY <1>1, <1>6, <2>1, <3>1
  <2>3. CASE SaveIds
    <3>1. index' = [index EXCEPT !.ids = Found]
      BY <2>3 DEF SaveIds, Save
    <3>2. QED
      BY <1>1, <1>5, <2>1, <3>1
  <2>4. CASE SaveTitles
    <3>1. index' = [index EXCEPT !.titles = TRUE]
      BY <2>4 DEF SaveTitles, Save
    <3>2. QED
      BY <1>1, <2>1, <3>1
  <2>5. QED
    BY <2>2, <2>3, <2>4
<1>8. Index'
  BY <1>1, <1>7 DEF Index, Manifest
<1>9. builds' \in Nat
  BY <1>4 DEF TypedInv, TypeOK
<1>10. QED
  BY <1>3, <1>4, <1>7, <1>8, <1>9, BuilderTyped

LEMMA SaveManifestTyped ==
    ASSUME TypedInv, SaveManifest
    PROVE  TypedInv'
<1>1. /\ Index
      /\ index = [vectors |-> index.vectors, ids |-> index.ids, titles |-> index.titles,
                  manifest |-> index.manifest]
  BY DEF TypedInv, TypeOK, Shapes
<1>2. /\ build.at = "manifest" /\ build' = NoBuild
      /\ index' = [index EXCEPT !.manifest = [model |-> build.model, sums |-> build.sums]]
      /\ UNCHANGED <<world, files, model, loaded, cache, req, builds, changes>>
  BY DEF SaveManifest, Save
<1>3. build.model \in Nat /\ MapTo(Nat \ {0}, build.sums)
  BY <1>2, OfBuild
<1>4. index' = [vectors |-> index.vectors, ids |-> index.ids, titles |-> index.titles,
                manifest |-> [model |-> build.model, sums |-> build.sums]]
  BY <1>1, <1>2
<1>5. Index'
  BY <1>1, <1>3, <1>4 DEF Index, Manifest
<1>6. Build' /\ BuildShape' /\ builds' \in Nat
  BY <1>2 DEF Build, BuildShape, TypedInv, TypeOK
<1>7. QED
  BY <1>2, <1>4, <1>5, <1>6, BuilderTyped

LEMMA FailsTyped ==
    ASSUME TypedInv, BuildFails
    PROVE  TypedInv'
<1>1. /\ build' = NoBuild
      /\ UNCHANGED <<world, files, model, index, loaded, cache, req, builds, changes>>
  BY DEF BuildFails
<1>2. Build' /\ BuildShape' /\ builds' \in Nat
  BY <1>1 DEF Build, BuildShape, TypedInv, TypeOK
<1>3. Index' /\ index' = [vectors |-> index'.vectors, ids |-> index'.ids, titles |-> index'.titles,
                          manifest |-> index'.manifest]
  BY <1>1 DEF TypedInv, TypeOK, Shapes, Index
<1>4. QED
  BY <1>1, <1>2, <1>3, BuilderTyped

LEMMA NewOrBackTyped ==
    ASSUME changes \in Nat
    PROVE  /\ NewOrBack \subseteq Nat \ {0}
           /\ "revert" \notin world => NewOrBack = {changes + 2}
BY DEF NewOrBack

LEMMA ChangeTyped ==
    ASSUME TypedInv, (\E i \in Images : ReplaceFile(i) \/ LoseFile(i)) \/ ChangeModel
    PROVE  TypedInv'
<1>1. files \in [Images -> Nat] /\ model \in Nat /\ changes \in Nat
  BY DEF TypedInv, TypeOK
<1>2. Change /\ files' \in [Images -> Nat] /\ model' \in Nat
  BY <1>1, NewOrBackTyped DEF ReplaceFile, LoseFile, ChangeModel
<1>3. QED
  BY <1>2, FilesTyped

LEMMA RestartTyped ==
    ASSUME TypedInv, Restart
    PROVE  TypedInv'
<1>1. /\ changes' = changes + 1 /\ loaded' = None /\ req' = [c \in Clients |-> Idle]
      /\ UNCHANGED <<world, files, model, index, build, cache, builds>>
  BY DEF Restart
<1>2. changes' \in Nat
  BY <1>1 DEF TypedInv, TypeOK
<1>3. \A c \in Clients : req'[c] = Idle
  BY <1>1
<1>4. \A c \in Clients : Request(c)' /\ RequestKnows(req[c])'
  BY <1>3 DEF Request, RequestKnows, Idle
<1>5. Index' /\ Build' /\ BuildShape' /\ DOMAIN req' = Clients
  BY <1>1 DEF TypedInv, TypeOK, Shapes, Index, Build, BuildShape
<1>6. Shapes'
  BY <1>1, <1>5 DEF TypedInv, Shapes
<1>7. QED
  BY <1>1, <1>2, <1>4, <1>5, <1>6 DEF TypedInv, TypeOK

LEMMA StillTyped ==
    ASSUME TypedInv, UNCHANGED vars
    PROVE  TypedInv'
<1>1. UNCHANGED <<world, files, model, index, build, loaded, cache, req, builds, changes>>
  BY DEF vars
<1>2. \A c \in Clients : Request(c)' /\ RequestKnows(req[c])'
  BY <1>1 DEF TypedInv, TypeOK, Request, RequestKnows
<1>3. Index' /\ Build' /\ Shapes'
  BY <1>1 DEF TypedInv, TypeOK, Shapes, Index, Build, BuildShape
<1>4. QED
  BY <1>1, <1>2, <1>3 DEF TypedInv, TypeOK

LEMMA StepTyped == TypedInv /\ [Next]_vars => TypedInv'
<1>1. SUFFICES ASSUME TypedInv, [Next]_vars
               PROVE  TypedInv'
  OBVIOUS
<1>2. CASE (\E i \in Images : ReplaceFile(i) \/ LoseFile(i)) \/ ChangeModel
  BY <1>1, <1>2, ChangeTyped
<1>3. CASE Builder
  <2>1. CASE StartBuild
    BY <1>1, <2>1, StartTyped
  <2>2. CASE \E bad \in SUBSET Images : Embed(bad)
    BY <1>1, <2>2, EmbedTyped
  <2>3. CASE SaveVectors \/ SaveIds \/ SaveTitles
    BY <1>1, <2>3, SaveTyped
  <2>4. CASE SaveManifest
    BY <1>1, <2>4, SaveManifestTyped
  <2>5. QED
    BY <1>3, <2>1, <2>2, <2>3, <2>4 DEF Builder
<1>4. CASE BuildFails
  BY <1>1, <1>4, FailsTyped
<1>5. ASSUME NEW c \in Clients, Work(c) \/ Scored(c) \/ NotScored(c) \/ (\E q \in Queries : Ask(c, q))
      PROVE  TypedInv'
  <2>1. CASE ResolveUnknown(c) \/ ResolveTitle(c) \/ Combine(c) \/ NotScored(c)
    BY <1>1, <2>1, ResolvingTyped
  <2>2. CASE Rank(c)
    BY <1>1, <2>2, RankTyped
  <2>3. CASE Send(c)
    BY <1>1, <2>3, SendTyped
  <2>4. CASE Execute(c)
    BY <1>1, <2>4, ExecuteTyped
  <2>5. CASE Scored(c)
    BY <1>1, <2>5, ScoredTyped
  <2>6. CASE \E q \in Queries : Ask(c, q)
    BY <1>1, <2>6, AskTyped
  <2>7. QED
    BY <1>5, <2>1, <2>2, <2>3, <2>4, <2>5, <2>6 DEF Work
<1>6. CASE Restart
  BY <1>1, <1>6, RestartTyped
<1>7. CASE UNCHANGED vars
  BY <1>1, <1>7, StillTyped
<1>8. QED
  BY <1>1, <1>2, <1>3, <1>4, <1>5, <1>6, <1>7 DEF Next

LEMMA AlwaysTyped == Spec => []TypedInv
<1>1. Init => TypedInv
  BY InitTyped
<1>2. TypedInv /\ [Next]_vars => TypedInv'
  BY StepTyped
<1>3. QED
  BY <1>1, <1>2, PTL DEF Spec

(* Every variable of the semantic search has its type (TypeOK).              *)
THEOREM SearchTypeCorrect == Spec => []TypeOK
<1>1. TypedInv => TypeOK
  BY DEF TypedInv
<1>2. QED
  BY <1>1, AlwaysTyped, PTL

-----------------------------------------------------------------------------
(* When no image is lost, every index is of all the images, in the order of *)
(* imgs.csv, and each vector is of the image of its position.                *)

OwnVectors(v) == Len(v) = Len(Order) /\ \A n \in DOMAIN Order : v[n].image = Order[n]

FilesThere == \A i \in Images : files[i] # 0

IndexOwn ==
    /\ index.ids = << >> \/ index.ids = Order
    /\ index.vectors = << >> \/ OwnVectors(index.vectors)

LoadedOwn == loaded = None \/ (loaded = Order /\ OwnVectors(index.vectors))

BuildOwn ==
    /\ build.at # "none" => DOMAIN build.sums = Images
    /\ build.at = "embed" => \A i \in DOMAIN build.reused : build.reused[i].image = i
    /\ build.at \in FoundAt =>
          DOMAIN build.found = Images /\ \A i \in Images : build.found[i].image = i

OwnInv == "loss" \notin world => FilesThere /\ IndexOwn /\ LoadedOwn /\ BuildOwn

LEMMA InitOwn == Init => OwnInv
<1>1. SUFFICES ASSUME Init
               PROVE  OwnInv
  OBVIOUS
<1>2. FilesThere /\ IndexOwn /\ LoadedOwn
  BY <1>1 DEF Init, FilesThere, IndexOwn, LoadedOwn
<1>3. build.at = "none"
  BY <1>1 DEF Init, NoBuild
<1>4. BuildOwn
  BY <1>3 DEF BuildOwn, FoundAt
<1>5. QED
  BY <1>2, <1>4 DEF OwnInv

LEMMA FoundAll ==
    ASSUME TypedInv, BuildOwn, build.at \in FoundAt
    PROVE  Found = Order
<1>1. Order \in Seq(Images) /\ Images \subseteq DOMAIN build.found
  BY DEF BuildOwn
<1>2. Listed(Order, DOMAIN build.found) = Order
  BY ONLY <1>1, AllListed
<1>3. QED
  BY <1>2 DEF Found

LEMMA ReadableOwn ==
    ASSUME TypedInv, IndexOwn, Readable
    PROVE  index.ids = Order /\ OwnVectors(index.vectors)
<1>1. index.ids \in Seq(Images) /\ index.ids = Order /\ Len(index.ids) = Len(index.vectors)
  BY DEF TypedInv, TypeOK, Index, Readable, IndexOwn
<1>2. index.vectors # << >>
  BY <1>1 DEF Readable
<1>3. QED
  BY <1>1, <1>2 DEF IndexOwn

LEMMA PreviousOwn ==
    ASSUME TypedInv, IndexOwn, NEW m, NEW i \in DOMAIN PreviousVectors(m)
    PROVE  PreviousVectors(m)[i].image = i
<1>1. Readable
  BY PreviousTyped
<1>2. PICK n \in DOMAIN index.ids : index.ids[n] = i /\ PreviousVectors(m)[i] = index.vectors[n]
  BY PreviousTyped
<1>3. index.ids = Order /\ OwnVectors(index.vectors)
  BY <1>1, ReadableOwn
<1>4. QED
  BY <1>2, <1>3 DEF OwnVectors

LEMMA ChangeOwn ==
    ASSUME TypedInv, OwnInv, (\E i \in Images : ReplaceFile(i) \/ LoseFile(i)) \/ ChangeModel
    PROVE  OwnInv'
<1>1. UNCHANGED <<world, index, build, loaded>>
  BY DEF ReplaceFile, LoseFile, ChangeModel, Change
<1>2. files \in [Images -> Nat] /\ changes \in Nat
  BY DEF TypedInv, TypeOK
<1>3. "loss" \notin world => (FilesThere => FilesThere')
  BY <1>2, NewOrBackTyped DEF ReplaceFile, LoseFile, ChangeModel, FilesThere
<1>4. QED
  BY <1>1, <1>3 DEF OwnInv, IndexOwn, LoadedOwn, OwnVectors, BuildOwn

LEMMA StartOwn ==
    ASSUME TypedInv, OwnInv, StartBuild
    PROVE  OwnInv'
<1> DEFINE sums == [i \in {j \in Images : files[j] # 0} |-> files[i]]
           reused == [i \in Reusable(model) |-> PreviousVectors(model)[i]]
<1>1. /\ UNCHANGED <<world, files, index, loaded>>
      /\ build' = [at |-> "embed", model |-> model, sums |-> sums, reused |-> reused]
  BY DEF StartBuild
<1>2. SUFFICES ASSUME "loss" \notin world
               PROVE  (FilesThere /\ IndexOwn /\ LoadedOwn /\ BuildOwn)'
  BY <1>1 DEF OwnInv
<1>3. DOMAIN sums = Images
  BY <1>2 DEF OwnInv, FilesThere
<1>4. \A i \in DOMAIN reused : reused[i].image = i
  <2>1. \A i \in Reusable(model) : i \in DOMAIN PreviousVectors(model)
    BY DEF Reusable
  <2>2. \A i \in Reusable(model) : PreviousVectors(model)[i].image = i
    BY <1>2, <2>1, PreviousOwn DEF OwnInv
  <2>3. QED
    BY <2>2
<1> HIDE DEF sums, reused
<1>5. BuildOwn'
  BY <1>1, <1>3, <1>4 DEF BuildOwn, FoundAt
<1>6. QED
  BY <1>1, <1>2, <1>5 DEF OwnInv, FilesThere, IndexOwn, LoadedOwn, OwnVectors

LEMMA EmbedOwn ==
    ASSUME TypedInv, OwnInv, NEW bad, Embed(bad)
    PROVE  OwnInv'
<1>1. /\ build.at = "embed"
      /\ UNCHANGED <<world, files, model, index, loaded, cache, req, builds, changes>>
      /\ build' = [at |-> "vectors", model |-> build.model, sums |-> build.sums,
                   found |-> FoundIn(bad)]
  BY EmbedFound
<1>2. SUFFICES ASSUME "loss" \notin world
               PROVE  (FilesThere /\ IndexOwn /\ LoadedOwn /\ BuildOwn)'
  BY <1>1 DEF OwnInv
<1>3. bad = {} /\ DOMAIN build.sums = Images /\ FilesThere
  BY <1>1, <1>2 DEF Embed, OwnInv, BuildOwn
<1>4. DOMAIN build.reused \subseteq Images /\ \A i \in DOMAIN build.reused : build.reused[i].image = i
  BY <1>1, <1>2, OfBuild DEF MapTo, OwnInv, BuildOwn
<1>5. NewImages(bad) = Images \ DOMAIN build.reused
  BY <1>3 DEF NewImages, FilesThere
<1>6. DOMAIN FoundIn(bad) = Images /\ \A i \in Images : FoundIn(bad)[i].image = i
  BY <1>4, <1>5 DEF FoundIn, Vector
<1>7. BuildOwn'
  BY <1>1, <1>3, <1>6 DEF BuildOwn, FoundAt
<1>8. QED
  BY <1>1, <1>2, <1>7 DEF OwnInv, FilesThere, IndexOwn, LoadedOwn, OwnVectors

LEMMA SaveOwn ==
    ASSUME TypedInv, OwnInv, SaveVectors \/ SaveIds \/ SaveTitles
    PROVE  OwnInv'
<1>1. UNCHANGED <<world, files, loaded>>
  BY DEF SaveVectors, SaveIds, SaveTitles, Save
<1>2. SUFFICES ASSUME "loss" \notin world
               PROVE  (FilesThere /\ IndexOwn /\ LoadedOwn /\ BuildOwn)'
  BY <1>1 DEF OwnInv
<1>3. \E at \in {"vectors", "ids", "titles"}, next \in FoundAt :
        build.at = at /\ build' = [build EXCEPT !.at = next]
  BY DEF SaveVectors, SaveIds, SaveTitles, Save, FoundAt
<1>4. PICK next \in FoundAt :
        build.at \in FoundAt /\ build' = [build EXCEPT !.at = next]
  BY <1>3 DEF FoundAt
<1>5. build' = [at |-> next, model |-> build.model, sums |-> build.sums, found |-> build.found]
  BY <1>4, GoesOn
<1>6. BuildOwn'
  BY <1>2, <1>4, <1>5 DEF OwnInv, BuildOwn, FoundAt
<1>7. Found = Order /\ \A i \in Images : build.found[i].image = i
  BY <1>2, <1>4, FoundAll DEF OwnInv, BuildOwn
<1>8. index = [vectors |-> index.vectors, ids |-> index.ids, titles |-> index.titles,
               manifest |-> index.manifest]
  BY DEF TypedInv, Shapes
<1>9. IndexOwn /\ LoadedOwn
  BY <1>2 DEF OwnInv
<1>10. CASE SaveVectors
  <2> DEFINE v == [n \in DOMAIN Order |-> build.found[Order[n]]]
  <2>1. index' = [index EXCEPT !.vectors = v]
    BY <1>7, <1>10 DEF SaveVectors, Save, Positions
  <2>2. Order \in Seq(Images) /\ DOMAIN Order = 1..Len(Order) /\ Len(Order) \in Nat
    OBVIOUS
  <2>3. OwnVectors(v)
    <3>1. Len(v) = Len(Order)
      BY <2>2
    <3>2. \A n \in DOMAIN Order : v[n].image = Order[n]
      BY <1>7, <2>2
    <3>3. QED
      BY <3>1, <3>2 DEF OwnVectors
  <2> HIDE DEF v
  <2>4. index'.vectors = v /\ index'.ids = index.ids
    BY <1>8, <2>1
  <2>5. QED
    BY <1>1, <1>2, <1>6, <1>9, <2>3, <2>4 DEF OwnInv, FilesThere, IndexOwn, LoadedOwn, OwnVectors
<1>11. CASE SaveIds
  <2>1. index' = [index EXCEPT !.ids = Order]
    BY <1>7, <1>11 DEF SaveIds, Save
  <2>2. index'.vectors = index.vectors /\ index'.ids = Order
    BY <1>8, <2>1
  <2>3. QED
    BY <1>1, <1>2, <1>6, <1>9, <2>2 DEF OwnInv, FilesThere, IndexOwn, LoadedOwn, OwnVectors
<1>12. CASE SaveTitles
  <2>1. index' = [index EXCEPT !.titles = TRUE]
    BY <1>12 DEF SaveTitles, Save
  <2>2. index'.vectors = index.vectors /\ index'.ids = index.ids
    BY <1>8, <2>1
  <2>3. QED
    BY <1>1, <1>2, <1>6, <1>9, <2>2 DEF OwnInv, FilesThere, IndexOwn, LoadedOwn, OwnVectors
<1>13. QED
  BY <1>10, <1>11, <1>12

(* The other steps leave the vectors and the ids alone.                      *)
LEMMA RestOwn ==
    ASSUME TypedInv, OwnInv, UNCHANGED <<world, files>>,
           index'.vectors = index.vectors, index'.ids = index.ids,
           build' = build \/ build' = NoBuild,
           \/ loaded' = loaded \/ loaded' = None
           \/ Readable /\ loaded' = index.ids
    PROVE  OwnInv'
<1>1. SUFFICES ASSUME "loss" \notin world
               PROVE  (FilesThere /\ IndexOwn /\ LoadedOwn /\ BuildOwn)'
  BY DEF OwnInv
<1>2. FilesThere /\ IndexOwn /\ LoadedOwn /\ BuildOwn
  BY <1>1 DEF OwnInv
<1>3. LoadedOwn'
  <2>1. CASE Readable /\ loaded' = index.ids
    BY <1>2, <2>1, ReadableOwn DEF LoadedOwn, OwnVectors
  <2>2. CASE loaded' = loaded \/ loaded' = None
    BY <1>2, <2>2 DEF LoadedOwn, OwnVectors
  <2>3. QED
    BY <2>1, <2>2
<1>4. BuildOwn'
  <2>1. CASE build' = build
    BY <1>2, <2>1 DEF BuildOwn
  <2>2. CASE build' = NoBuild
    BY <2>2 DEF BuildOwn, NoBuild, FoundAt
  <2>3. QED
    BY <2>1, <2>2
<1>5. QED
  BY <1>2, <1>3, <1>4 DEF FilesThere, IndexOwn, OwnVectors

(* The steps of a search leave the index and the builder alone.              *)
LEMMA LeavesIndex ==
    ASSUME NEW c, Work(c) \/ Scored(c) \/ NotScored(c) \/ (\E q \in Queries : Ask(c, q))
    PROVE  UnchangedButSearch
BY DEF Work, ResolveUnknown, ResolveTitle, Rank, Send, Combine, Execute, Scored, NotScored, Ask

LEMMA StepOwn == TypedInv /\ OwnInv /\ [Next]_vars => OwnInv'
<1>1. SUFFICES ASSUME TypedInv, OwnInv, [Next]_vars
               PROVE  OwnInv'
  OBVIOUS
<1>2. CASE (\E i \in Images : ReplaceFile(i) \/ LoseFile(i)) \/ ChangeModel
  BY <1>1, <1>2, ChangeOwn
<1>3. CASE Builder
  <2>1. CASE StartBuild
    BY <1>1, <2>1, StartOwn
  <2>2. CASE \E bad \in SUBSET Images : Embed(bad)
    BY <1>1, <2>2, EmbedOwn
  <2>3. CASE SaveVectors \/ SaveIds \/ SaveTitles
    BY <1>1, <2>3, SaveOwn
  <2>4. CASE SaveManifest
    <3>1. /\ UNCHANGED <<world, files, loaded>> /\ build' = NoBuild
          /\ index' = [index EXCEPT !.manifest = [model |-> build.model, sums |-> build.sums]]
      BY <2>4 DEF SaveManifest, Save
    <3>2. index = [vectors |-> index.vectors, ids |-> index.ids, titles |-> index.titles,
                   manifest |-> index.manifest]
      BY <1>1 DEF TypedInv, Shapes
    <3>3. index'.vectors = index.vectors /\ index'.ids = index.ids
      BY <3>1, <3>2
    <3>4. QED
      BY <1>1, <3>1, <3>3, RestOwn
  <2>5. QED
    BY <1>3, <2>1, <2>2, <2>3, <2>4 DEF Builder
<1>4. CASE BuildFails \/ Restart \/ UNCHANGED vars
  <2>1. UNCHANGED <<world, files, index>>
    BY <1>4 DEF BuildFails, Restart, vars
  <2>2. build' = build \/ build' = NoBuild
    BY <1>4 DEF BuildFails, Restart, vars
  <2>3. loaded' = loaded \/ loaded' = None
    BY <1>4 DEF BuildFails, Restart, vars
  <2>4. QED
    BY <1>1, <2>1, <2>2, <2>3, RestOwn
<1>5. ASSUME NEW c \in Clients, Work(c) \/ Scored(c) \/ NotScored(c) \/ (\E q \in Queries : Ask(c, q))
      PROVE  OwnInv'
  <2>1. UNCHANGED <<world, files, model, index, build, builds, changes>>
    BY <1>5, LeavesIndex DEF UnchangedButSearch
  <2>2. loaded' = loaded \/ (Readable /\ loaded' = index.ids)
    <3>1. CASE Rank(c)
      <4>1. loaded' = IF loaded = None /\ Readable THEN index.ids ELSE loaded
        BY <3>1 DEF Rank
      <4>2. QED
        BY <4>1
    <3>2. CASE ResolveUnknown(c) \/ ResolveTitle(c) \/ Send(c) \/ Combine(c) \/ Execute(c)
      BY <3>2 DEF ResolveUnknown, ResolveTitle, Send, Combine, Execute
    <3>3. CASE Scored(c) \/ NotScored(c) \/ (\E q \in Queries : Ask(c, q))
      BY <3>3 DEF Scored, NotScored, Ask
    <3>4. QED
      BY <1>5, <3>1, <3>2, <3>3 DEF Work
  <2>3. QED
    BY <1>1, <2>1, <2>2, RestOwn
<1>6. QED
  BY <1>1, <1>2, <1>3, <1>4, <1>5 DEF Next

LEMMA AlwaysOwn == Spec => [](TypedInv /\ OwnInv)
<1>1. Init => OwnInv
  BY InitOwn
<1>2. TypedInv /\ OwnInv /\ [Next]_vars => OwnInv'
  BY StepOwn
<1>3. QED
  BY <1>1, <1>2, AlwaysTyped, PTL DEF Spec

(* The ids the server holds are those of the vectors on disk, when no image *)
(* was lost (RankedByOwnVector).                                            *)
THEOREM RankedByOwnVectorCorrect == Spec => []RankedByOwnVector
<1>1. ASSUME OwnInv
      PROVE  RankedByOwnVector
  <2>1. SUFFICES ASSUME loaded # None, "loss" \notin world
                 PROVE  /\ Len(loaded) = Len(index.vectors)
                        /\ \A n \in DOMAIN loaded : index.vectors[n].image = loaded[n]
    BY DEF RankedByOwnVector
  <2>2. loaded = Order /\ OwnVectors(index.vectors)
    BY <1>1, <2>1 DEF OwnInv, LoadedOwn
  <2>3. QED
    BY <2>2 DEF OwnVectors
<1>2. OwnInv => RankedByOwnVector
  BY <1>1
<1>3. QED
  BY <1>2, AlwaysOwn, PTL

-----------------------------------------------------------------------------
(* Contents and models are numbered in the order in which they come.  While *)
(* none is put back, and a builder may not be stopped or no image be lost,   *)
(* the vectors on disk are those the manifest speaks of, or newer ones of    *)
(* the files as they still are.                                              *)

Onwards == ~ {"crash", "loss"} \subseteq world /\ "revert" \notin world

Numbered == model <= changes + 1 /\ \A i \in Images : files[i] <= changes + 1

(* c is contents the file of i had, and may still have.                      *)
Upto(i, c) == c \in Nat /\ c <= changes + 1 /\ (files[i] = 0 \/ c <= files[i])

ManifestUpto ==
    index.manifest # None =>
       /\ index.manifest.model <= model
       /\ \A i \in DOMAIN index.manifest.sums : Upto(i, index.manifest.sums[i])

BuildUpto ==
    build.at # "none" =>
       /\ build.model <= model
       /\ \A i \in DOMAIN build.sums : Upto(i, build.sums[i])
       /\ index.manifest # None =>
             /\ index.manifest.model <= build.model
             /\ \A i \in DOMAIN build.sums \cap DOMAIN index.manifest.sums :
                   index.manifest.sums[i] <= build.sums[i]

ReusedRight ==
    build.at = "embed" =>
       \A i \in DOMAIN build.reused :
          i \in DOMAIN build.sums /\ build.reused[i] = Vector(i, build.sums[i], build.model)

(* A vector that was found is of the contents of the checksum, or later.     *)
FoundRight ==
    build.at \in FoundAt =>
       \A i \in DOMAIN build.found :
          /\ i \in DOMAIN build.sums
          /\ build.found[i] = Vector(i, build.found[i].contents, build.model)
          /\ build.sums[i] <= build.found[i].contents /\ Upto(i, build.found[i].contents)

FoundVectors == [n \in DOMAIN Found |-> build.found[Found[n]]]

Written ==
    /\ build.at \in {"ids", "titles", "manifest"} => index.vectors = FoundVectors
    /\ build.at \in {"titles", "manifest"} => index.ids = Found

(* What the manifest says of the file of an image as it is holds of the      *)
(* vector in its place.                                                      *)
IndexRight ==
    Readable /\ index.manifest # None /\ index.manifest.model = model =>
       \A n \in DOMAIN index.ids :
          /\ index.ids[n] \in DOMAIN index.manifest.sums
          /\ index.manifest.sums[index.ids[n]] = files[index.ids[n]]
          => index.vectors[n] = Vector(index.ids[n], files[index.ids[n]], model)

Settled == build.at \in {"none", "embed", "vectors"} \/ "crash" \in world

ReuseInv ==
    Onwards =>
       /\ Numbered
       /\ ManifestUpto /\ BuildUpto /\ ReusedRight /\ FoundRight /\ Written
       /\ Settled => IndexRight

LEMMA InitReuse == Init => ReuseInv
<1>1. SUFFICES ASSUME Init
               PROVE  ReuseInv
  OBVIOUS
<1>2. build.at = "none" /\ index.manifest = None /\ changes = 0
  BY <1>1 DEF Init, NoBuild
<1>3. Numbered
  BY <1>1 DEF Init, Numbered
<1>4. ManifestUpto /\ BuildUpto /\ ReusedRight /\ FoundRight /\ Written /\ IndexRight
  BY <1>2 DEF ManifestUpto, BuildUpto, ReusedRight, FoundRight, Written, IndexRight, FoundAt
<1>5. QED
  BY <1>3, <1>4 DEF ReuseInv

(* A vector that was found is right by any checksum and model that are not   *)
(* newer than those of the build and are as the file and the settings are.   *)
LEMMA FoundIsRight ==
    ASSUME TypedInv, BuildUpto, FoundRight, build.at \in FoundAt,
           NEW i \in DOMAIN build.found, NEW s \in Nat \ {0}, NEW m \in Nat,
           s <= build.sums[i], s = files[i], m <= build.model, m = model
    PROVE  build.found[i] = Vector(i, files[i], model)
<1>1. /\ build.model \in Nat /\ MapTo(Nat \ {0}, build.sums) /\ MapTo(Vectors, build.found)
      /\ build.at # "none"
  BY OfBuild DEF FoundAt
<1>2. model \in Nat /\ build.model <= model
  BY <1>1 DEF TypedInv, TypeOK, BuildUpto
<1>3. build.model = model
  BY <1>1, <1>2
<1>4. /\ i \in DOMAIN build.sums
      /\ build.found[i] = Vector(i, build.found[i].contents, build.model)
      /\ build.sums[i] <= build.found[i].contents /\ Upto(i, build.found[i].contents)
  BY DEF FoundRight
<1>5. build.sums[i] \in Nat /\ build.found[i].contents \in Nat
  BY <1>1, <1>4 DEF MapTo, Upto
<1>6. build.found[i].contents <= files[i]
  BY <1>4 DEF Upto
<1>7. build.found[i].contents = files[i]
  BY <1>4, <1>5, <1>6
<1>8. QED
  BY <1>3, <1>4, <1>7

(* What a build would reuse, when the index is right.                        *)
LEMMA ReusableRight ==
    ASSUME TypedInv, IndexRight, NEW i \in Reusable(model)
    PROVE  /\ i \in Images /\ files[i] # 0
           /\ PreviousVectors(model)[i] = Vector(i, files[i], model)
<1>1. i \in DOMAIN PreviousVectors(model) /\ i \in DOMAIN PreviousSums /\ PreviousSums[i] = files[i]
  BY DEF Reusable
<1>2. Readable /\ index.manifest # None /\ index.manifest.model = model /\ i \in Images
  BY <1>1, PreviousTyped
<1>3. PICK n \in DOMAIN index.ids :
        index.ids[n] = i /\ PreviousVectors(model)[i] = index.vectors[n]
  BY <1>1, PreviousTyped
<1>4. i \in DOMAIN index.manifest.sums /\ index.manifest.sums[i] = files[i]
  BY <1>1, <1>2 DEF PreviousSums
<1>5. index.vectors[n] = Vector(i, files[i], model)
  BY <1>2, <1>3, <1>4 DEF IndexRight
<1>6. files[i] # 0
  <2>1. Index
    BY DEF TypedInv, TypeOK
  <2>2. Manifest(index.manifest)
    BY <1>2, <2>1 DEF Index
  <2>3. MapTo(Nat \ {0}, index.manifest.sums)
    BY <2>2 DEF Manifest
  <2>4. QED
    BY <1>4, <2>3 DEF MapTo
<1>7. QED
  BY <1>2, <1>3, <1>5, <1>6

LEMMA OfManifest ==
    ASSUME TypedInv, index.manifest # None
    PROVE  index.manifest.model \in Nat /\ MapTo(Nat \ {0}, index.manifest.sums)
<1>1. Index
  BY DEF TypedInv, TypeOK
<1>2. Manifest(index.manifest)
  BY <1>1 DEF Index
<1>3. QED
  BY <1>2 DEF Manifest

(* A change of files or settings.                                            *)
LEMMA ChangeReuse ==
    ASSUME TypedInv, ReuseInv, (\E i \in Images : ReplaceFile(i) \/ LoseFile(i)) \/ ChangeModel
    PROVE  ReuseInv'
<1>1. UNCHANGED <<world, index, build>> /\ changes' = changes + 1
  BY DEF ReplaceFile, LoseFile, ChangeModel, Change
<1>2. SUFFICES ASSUME Onwards
               PROVE  /\ Numbered'
                      /\ (ManifestUpto /\ BuildUpto /\ ReusedRight /\ FoundRight /\ Written)'
                      /\ (Settled => IndexRight)'
  BY <1>1 DEF ReuseInv, Onwards
<1>3. /\ Numbered
      /\ ManifestUpto /\ BuildUpto /\ ReusedRight /\ FoundRight /\ Written
      /\ Settled => IndexRight
  BY <1>2 DEF ReuseInv
<1>4. files \in [Images -> Nat] /\ changes \in Nat /\ model \in Nat
  BY DEF TypedInv, TypeOK
<1>5. /\ model' \in Nat /\ (model' = model \/ (model' = changes + 2 /\ files' = files))
      /\ \A i \in Images : files'[i] = files[i] \/ files'[i] = changes + 2 \/ files'[i] = 0
  <2>1. NewOrBack = {changes + 2}
    BY <1>2, <1>4, NewOrBackTyped DEF Onwards
  <2>2. QED
    BY <1>4, <2>1 DEF ReplaceFile, LoseFile, ChangeModel
<1>6. \A i \in Images : \A c : Upto(i, c) => Upto(i, c)'
  BY <1>1, <1>3, <1>4, <1>5 DEF Upto, Numbered
<1>7. Numbered'
  BY <1>1, <1>3, <1>4, <1>5 DEF Numbered
<1>8. ManifestUpto'
  <2>1. ASSUME index.manifest # None
        PROVE  /\ index.manifest.model <= model'
               /\ \A i \in DOMAIN index.manifest.sums : Upto(i, index.manifest.sums[i])'
    <3>1. index.manifest.model \in Nat /\ DOMAIN index.manifest.sums \subseteq Images
      BY <2>1, OfManifest DEF MapTo
    <3>2. index.manifest.model <= model
      BY <1>3, <2>1 DEF ManifestUpto
    <3>3. \A i \in DOMAIN index.manifest.sums : Upto(i, index.manifest.sums[i])
      BY <1>3, <2>1 DEF ManifestUpto
    <3>4. index' = index
      BY <1>1
    <3>5. index.manifest.model <= model'
      BY <1>3, <1>4, <1>5, <3>1, <3>2 DEF Numbered
    <3>6. QED
      BY <1>6, <3>1, <3>3, <3>4, <3>5
  <2>2. QED
    BY <1>1, <2>1 DEF ManifestUpto
<1>9. build.at # "none" =>
        build.model \in Nat /\ DOMAIN build.sums \subseteq Images
  BY OfBuild DEF MapTo
<1>10. BuildUpto'
  <2>1. build.at # "none" => build.model <= model'
    BY <1>3, <1>4, <1>5, <1>9 DEF BuildUpto, Numbered
  <2>2. build.at # "none" => \A i \in DOMAIN build.sums : Upto(i, build.sums[i])'
    BY <1>1, <1>3, <1>6, <1>9 DEF BuildUpto
  <2>3. QED
    BY <1>1, <1>3, <2>1, <2>2 DEF BuildUpto
<1>11. ReusedRight' /\ Written'
  BY <1>1, <1>3 DEF ReusedRight, Written, FoundVectors, Found
<1>12. FoundRight'
  <2>1. build.at \in FoundAt => DOMAIN build.found \subseteq Images
    BY OfBuild DEF MapTo, FoundAt
  <2>2. build.at \in FoundAt => \A i \in DOMAIN build.found : Upto(i, build.found[i].contents)'
    BY <1>1, <1>3, <1>6, <2>1 DEF FoundRight
  <2>3. QED
    BY <1>1, <1>3, <2>2 DEF FoundRight
<1>13. (Settled => IndexRight)'
  <2>1. SUFFICES ASSUME Settled, Readable, index.manifest # None, index.manifest.model = model',
                        NEW n \in DOMAIN index.ids, NEW i, i = index.ids[n],
                        i \in DOMAIN index.manifest.sums, index.manifest.sums[i] = files'[i]
                 PROVE  index.vectors[n] = Vector(i, files'[i], model')
    BY <1>1 DEF Settled, IndexRight, Readable
  <2>2. /\ index.manifest.model \in Nat /\ i \in Images /\ index.manifest.sums[i] \in Nat \ {0}
        /\ index.manifest.model <= model /\ Upto(i, index.manifest.sums[i])
    BY <1>3, <2>1, OfManifest DEF MapTo, ManifestUpto
  <2>3. model' = model
    BY <1>3, <1>4, <1>5, <2>1, <2>2 DEF Numbered
  <2>4. files'[i] = files[i]
    BY <1>3, <1>4, <1>5, <2>1, <2>2 DEF Upto, Numbered
  <2>5. IndexRight
    BY <1>3, <2>1
  <2>6. index.vectors[n] = Vector(i, files[i], model)
    BY <2>1, <2>3, <2>4, <2>5 DEF IndexRight
  <2>7. QED
    BY <2>3, <2>4, <2>6
<1>14. QED
  BY <1>7, <1>8, <1>10, <1>11, <1>12, <1>13

(* A build starts with the vectors of the files as they are.                 *)
LEMMA StartReuse ==
    ASSUME TypedInv, ReuseInv, StartBuild
    PROVE  ReuseInv'
<1> DEFINE sums == [i \in {j \in Images : files[j] # 0} |-> files[i]]
           reused == [i \in Reusable(model) |-> PreviousVectors(model)[i]]
<1>1. /\ UNCHANGED <<world, files, model, index, changes>> /\ build.at = "none"
      /\ build' = [at |-> "embed", model |-> model, sums |-> sums, reused |-> reused]
  BY DEF StartBuild, NoBuild
<1>2. SUFFICES ASSUME Onwards
               PROVE  /\ Numbered'
                      /\ (ManifestUpto /\ BuildUpto /\ ReusedRight /\ FoundRight /\ Written)'
                      /\ (Settled => IndexRight)'
  BY <1>1 DEF ReuseInv, Onwards
<1>3. /\ Numbered
      /\ ManifestUpto /\ IndexRight
  BY <1>1, <1>2 DEF ReuseInv, Settled
<1>4. files \in [Images -> Nat] /\ changes \in Nat /\ model \in Nat
  BY DEF TypedInv, TypeOK
<1>5. DOMAIN sums \subseteq Images /\ \A i \in DOMAIN sums : sums[i] = files[i] /\ files[i] # 0
  OBVIOUS
<1>6. \A i \in DOMAIN reused : i \in DOMAIN sums /\ reused[i] = Vector(i, sums[i], model)
  <2>1. \A i \in Reusable(model) :
          /\ i \in Images /\ files[i] # 0
          /\ PreviousVectors(model)[i] = Vector(i, files[i], model)
    BY <1>3, ReusableRight
  <2>2. QED
    BY <2>1
<1> HIDE DEF sums, reused
<1>7. BuildUpto'
  <2>1. ASSUME NEW i \in DOMAIN sums
        PROVE  Upto(i, sums[i])'
    <3>1. /\ sums[i] = files[i] /\ files[i] \in Nat /\ files[i] <= changes + 1
          /\ sums' = sums
      BY <1>1, <1>3, <1>4, <1>5 DEF sums, Numbered
    <3>2. QED
      BY <1>1, <3>1 DEF Upto
  <2>2. index.manifest # None =>
          /\ index.manifest.model <= model
          /\ \A i \in DOMAIN sums \cap DOMAIN index.manifest.sums : index.manifest.sums[i] <= sums[i]
    BY <1>3, <1>5 DEF ManifestUpto, Upto
  <2>3. build'.model = model /\ build'.sums = sums /\ model' = model /\ index' = index
    BY <1>1
  <2>4. \A i \in DOMAIN build'.sums : Upto(i, build.sums[i])'
    <3>1. sums' = sums
      BY <1>1 DEF sums
    <3>2. QED
      BY <2>1, <2>3, <3>1 DEF Upto
  <2>5. QED
    BY <1>4, <2>2, <2>3, <2>4 DEF BuildUpto
<1>8. ReusedRight'
  BY <1>1, <1>6 DEF ReusedRight
<1>9. FoundRight' /\ Written'
  BY <1>1 DEF FoundRight, Written, FoundAt
<1>10. Numbered' /\ ManifestUpto' /\ IndexRight'
  BY <1>1, <1>3 DEF ManifestUpto, Upto, IndexRight, Readable, Numbered
<1>11. QED
  BY <1>7, <1>8, <1>9, <1>10

(* It finds vectors of the files as they are, besides those it reuses.       *)
LEMMA EmbedReuse ==
    ASSUME TypedInv, ReuseInv, NEW bad, Embed(bad)
    PROVE  ReuseInv'
<1>1. /\ build.at = "embed"
      /\ UNCHANGED <<world, files, model, index, loaded, cache, req, builds, changes>>
      /\ build' = [at |-> "vectors", model |-> build.model, sums |-> build.sums,
                   found |-> FoundIn(bad)]
  BY EmbedFound
<1>2. SUFFICES ASSUME Onwards
               PROVE  /\ Numbered'
                      /\ (ManifestUpto /\ BuildUpto /\ ReusedRight /\ FoundRight /\ Written)'
                      /\ (Settled => IndexRight)'
  BY <1>1 DEF ReuseInv, Onwards
<1>3. /\ Numbered
      /\ ManifestUpto /\ BuildUpto /\ ReusedRight /\ IndexRight
  BY <1>1, <1>2 DEF ReuseInv, Settled
<1>4. files \in [Images -> Nat] /\ changes \in Nat
  BY DEF TypedInv, TypeOK
<1>5. MapTo(Nat \ {0}, build.sums)
  BY <1>1, OfBuild
<1>6. \A i \in DOMAIN build.reused :
        i \in DOMAIN build.sums /\ build.reused[i] = Vector(i, build.sums[i], build.model)
  BY <1>1, <1>3 DEF ReusedRight
<1>7. \A i \in DOMAIN build.sums : i \in Images /\ build.sums[i] \in Nat /\ Upto(i, build.sums[i])
  BY <1>1, <1>3, <1>5 DEF MapTo, BuildUpto
<1> DEFINE found == FoundIn(bad)
<1>8. ASSUME NEW i \in DOMAIN found
      PROVE  /\ i \in DOMAIN build.sums
             /\ found[i] = Vector(i, found[i].contents, build.model)
             /\ build.sums[i] <= found[i].contents /\ Upto(i, found[i].contents)
  <2>1. i \in NewImages(bad) \/ i \in DOMAIN build.reused
    BY DEF FoundIn
  <2>2. CASE i \in NewImages(bad)
    <3>1. i \in DOMAIN build.sums /\ files[i] # 0 /\ found[i] = Vector(i, files[i], build.model)
      BY <2>2 DEF NewImages, FoundIn
    <3>2. found[i].contents = files[i]
      BY <3>1 DEF Vector
    <3>3. build.sums[i] <= files[i] /\ Upto(i, files[i])
      BY <1>3, <1>4, <1>7, <3>1 DEF Upto, Numbered
    <3>4. QED
      BY <3>1, <3>2, <3>3
  <2>3. CASE i \in DOMAIN build.reused /\ i \notin NewImages(bad)
    <3>1. found[i] = build.reused[i]
      BY <2>3 DEF FoundIn
    <3>2. i \in DOMAIN build.sums /\ found[i] = Vector(i, build.sums[i], build.model)
      BY <1>6, <2>3, <3>1
    <3>3. found[i].contents = build.sums[i]
      BY <3>2 DEF Vector
    <3>4. QED
      BY <1>7, <3>2, <3>3
  <2>4. QED
    BY <2>1, <2>2, <2>3
<1> HIDE DEF found
<1>9. /\ build'.at = "vectors" /\ build'.model = build.model /\ build'.sums = build.sums
      /\ build'.found = found
  BY <1>1 DEF found
<1>10. FoundRight'
  BY <1>1, <1>8, <1>9 DEF FoundRight, Upto
<1>11. BuildUpto' /\ ReusedRight' /\ Written'
  BY <1>1, <1>3, <1>9 DEF BuildUpto, Upto, ReusedRight, Written
<1>12. Numbered' /\ ManifestUpto' /\ IndexRight'
  BY <1>1, <1>3 DEF ManifestUpto, Upto, IndexRight, Readable, Numbered
<1>13. QED
  BY <1>10, <1>11, <1>12

(* The vectors of the build are right by the manifest on disk: it speaks of  *)
(* files that are not newer than those of the build.                         *)
LEMMA WrittenRight ==
    ASSUME TypedInv, BuildUpto, FoundRight, build.at \in FoundAt,
           index.manifest # None, index.manifest.model = model,
           NEW n \in DOMAIN Found, NEW i, i = Found[n],
           i \in DOMAIN index.manifest.sums, index.manifest.sums[i] = files[i]
    PROVE  FoundVectors[n] = Vector(i, files[i], model)
<1>1. index.manifest.model \in Nat /\ index.manifest.sums[i] \in Nat \ {0}
  BY OfManifest DEF MapTo
<1>2. i \in DOMAIN build.found
  BY FoundTyped
<1>3. i \in DOMAIN build.sums /\ build.at # "none"
  BY <1>2 DEF FoundRight, FoundAt
<1>4. index.manifest.model <= build.model /\ index.manifest.sums[i] <= build.sums[i]
  BY <1>3 DEF BuildUpto
<1>5. build.found[i] = Vector(i, files[i], model)
  BY <1>1, <1>2, <1>4, FoundIsRight
<1>6. QED
  BY <1>5 DEF FoundVectors

(* A step that writes vectors, ids or titles, and what is written then.      *)
LEMMA SaveWrites ==
    ASSUME TypedInv, Written, SaveVectors \/ SaveIds \/ SaveTitles
    PROVE  /\ build.at \in FoundAt /\ build'.at \in {"ids", "titles", "manifest"}
           /\ build'.model = build.model /\ build'.sums = build.sums /\ build'.found = build.found
           /\ FoundVectors' = FoundVectors /\ Written' /\ index'.manifest = index.manifest
           /\ \/ index'.vectors = FoundVectors /\ index'.ids = index.ids
              \/ index'.vectors = FoundVectors /\ index'.ids = Found
<1>1. index = [vectors |-> index.vectors, ids |-> index.ids, titles |-> index.titles,
               manifest |-> index.manifest]
  BY DEF TypedInv, Shapes
<1>2. PICK next \in {"ids", "titles", "manifest"} :
        build.at \in FoundAt /\ build' = [build EXCEPT !.at = next]
  BY DEF SaveVectors, SaveIds, SaveTitles, Save, FoundAt
<1>3. /\ build'.at = next /\ build'.model = build.model /\ build'.sums = build.sums
      /\ build'.found = build.found
  <2>1. next \in FoundAt
    BY DEF FoundAt
  <2>2. build' = [at |-> next, model |-> build.model, sums |-> build.sums, found |-> build.found]
    BY <1>2, <2>1, GoesOn
  <2>3. QED
    BY <2>2
<1>4. Found' = Found /\ FoundVectors' = FoundVectors
  BY <1>3 DEF Found, FoundVectors
<1>5. /\ Written' /\ index'.manifest = index.manifest
      /\ \/ index'.vectors = FoundVectors /\ index'.ids = index.ids
         \/ index'.vectors = FoundVectors /\ index'.ids = Found
  <2>1. CASE SaveVectors
    <3>1. index' = [index EXCEPT !.vectors = FoundVectors] /\ build'.at = "ids"
      BY <2>1 DEF SaveVectors, Save, FoundVectors, Positions, TypedInv, Shapes, BuildShape, NoBuild
    <3>2. /\ index'.vectors = FoundVectors /\ index'.ids = index.ids
          /\ index'.manifest = index.manifest
      BY <1>1, <3>1
    <3>3. QED
      BY <1>4, <3>1, <3>2 DEF Written
  <2>2. CASE SaveIds
    <3>1. index' = [index EXCEPT !.ids = Found] /\ build.at = "ids"
      BY <2>2 DEF SaveIds, Save
    <3>2. /\ index'.vectors = index.vectors /\ index'.ids = Found
          /\ index'.manifest = index.manifest
      BY <1>1, <3>1
    <3>3. QED
      BY <1>4, <3>1, <3>2 DEF Written
  <2>3. CASE SaveTitles
    <3>1. index' = [index EXCEPT !.titles = TRUE] /\ build.at = "titles"
      BY <2>3 DEF SaveTitles, Save
    <3>2. /\ index'.vectors = index.vectors /\ index'.ids = index.ids
          /\ index'.manifest = index.manifest
      BY <1>1, <3>1
    <3>3. QED
      BY <1>4, <3>1, <3>2 DEF Written
  <2>4. QED
    BY <2>1, <2>2, <2>3
<1>6. QED
  BY <1>2, <1>3, <1>4, <1>5

LEMMA SaveReuse ==
    ASSUME TypedInv, OwnInv, ReuseInv, SaveVectors \/ SaveIds \/ SaveTitles
    PROVE  ReuseInv'
<1>1. UNCHANGED <<world, files, model, changes>>
  BY DEF SaveVectors, SaveIds, SaveTitles, Save
<1>2. SUFFICES ASSUME Onwards
               PROVE  /\ Numbered'
                      /\ (ManifestUpto /\ BuildUpto /\ ReusedRight /\ FoundRight /\ Written)'
                      /\ (Settled => IndexRight)'
  BY <1>1 DEF ReuseInv, Onwards
<1>3. /\ Numbered
      /\ ManifestUpto /\ BuildUpto /\ FoundRight /\ Written
  BY <1>2 DEF ReuseInv
<1>4. /\ build.at \in FoundAt /\ build'.at \in {"ids", "titles", "manifest"}
      /\ build'.model = build.model /\ build'.sums = build.sums /\ build'.found = build.found
      /\ Written' /\ index'.manifest = index.manifest
      /\ \/ index'.vectors = FoundVectors /\ index'.ids = index.ids
         \/ index'.vectors = FoundVectors /\ index'.ids = Found
  BY <1>3, SaveWrites
<1>5. "crash" \in world /\ Readable' => index'.ids = Found /\ index'.vectors = FoundVectors
  <2>1. SUFFICES ASSUME "crash" \in world, Readable', index'.ids = index.ids
                 PROVE  index'.ids = Found
    BY <1>4
  <2>2. IndexOwn /\ BuildOwn
    BY <1>2, <2>1 DEF OwnInv, Onwards
  <2>3. Found = Order
    BY <1>4, <2>2, FoundAll
  <2>4. index.ids # << >>
    BY <2>1 DEF Readable
  <2>5. QED
    BY <2>1, <2>2, <2>3, <2>4 DEF IndexOwn
<1>6. ManifestUpto' /\ BuildUpto'
  BY <1>1, <1>3, <1>4 DEF ManifestUpto, BuildUpto, Upto, FoundAt
<1>7. FoundRight' /\ ReusedRight'
  BY <1>1, <1>3, <1>4 DEF FoundRight, ReusedRight, Upto
<1>8. (Settled => IndexRight)'
  <2>1. SUFFICES ASSUME "crash" \in world, Readable', index.manifest # None,
                        index.manifest.model = model,
                        NEW n \in DOMAIN Found, NEW i, i = Found[n],
                        i \in DOMAIN index.manifest.sums, index.manifest.sums[i] = files[i],
                        index'.ids = Found, index'.vectors = FoundVectors
                 PROVE  FoundVectors[n] = Vector(i, files[i], model)
    BY <1>1, <1>4, <1>5 DEF Settled, IndexRight
  <2>2. QED
    BY <1>3, <1>4, <2>1, WrittenRight
<1>9. QED
  BY <1>1, <1>3, <1>4, <1>6, <1>7, <1>8 DEF Numbered

LEMMA ManifestReuse ==
    ASSUME TypedInv, ReuseInv, SaveManifest
    PROVE  ReuseInv'
<1>1. /\ build.at = "manifest" /\ build' = NoBuild
      /\ index' = [index EXCEPT !.manifest = [model |-> build.model, sums |-> build.sums]]
      /\ UNCHANGED <<world, files, model, loaded, cache, req, builds, changes>>
  BY DEF SaveManifest, Save
<1>2. SUFFICES ASSUME Onwards
               PROVE  /\ Numbered'
                      /\ (ManifestUpto /\ BuildUpto /\ ReusedRight /\ FoundRight /\ Written)'
                      /\ (Settled => IndexRight)'
  BY <1>1 DEF ReuseInv, Onwards
<1>3. /\ Numbered
      /\ BuildUpto /\ FoundRight /\ Written
  BY <1>2 DEF ReuseInv
<1>4. index = [vectors |-> index.vectors, ids |-> index.ids, titles |-> index.titles,
               manifest |-> index.manifest]
  BY DEF TypedInv, Shapes
<1>5. /\ index'.vectors = index.vectors /\ index'.ids = index.ids
      /\ index'.manifest = [model |-> build.model, sums |-> build.sums]
  BY <1>1, <1>4
<1>6. index.vectors = FoundVectors /\ index.ids = Found
  BY <1>1, <1>3 DEF Written
<1>7. build.at \in FoundAt /\ build.at # "none"
  BY <1>1 DEF FoundAt
<1>8. build.model \in Nat /\ MapTo(Nat \ {0}, build.sums)
  BY <1>7, OfBuild
<1>9. ManifestUpto'
  BY <1>1, <1>3, <1>5, <1>7 DEF ManifestUpto, BuildUpto, Upto
<1>10. (BuildUpto /\ ReusedRight /\ FoundRight /\ Written)'
  BY <1>1 DEF NoBuild, BuildUpto, ReusedRight, FoundRight, Written, FoundAt
<1>11. IndexRight'
  <2>1. SUFFICES ASSUME build.model = model, NEW n \in DOMAIN Found, NEW i, i = Found[n],
                        i \in DOMAIN build.sums, build.sums[i] = files[i]
                 PROVE  FoundVectors[n] = Vector(i, files[i], model)
    BY <1>1, <1>5, <1>6 DEF IndexRight
  <2>2. i \in DOMAIN build.found
    BY <1>7, <2>1, FoundTyped
  <2>3. build.sums[i] \in Nat \ {0}
    BY <1>8, <2>1 DEF MapTo
  <2>4. build.found[i] = Vector(i, files[i], model)
    BY <1>3, <1>7, <1>8, <2>1, <2>2, <2>3, FoundIsRight
  <2>5. QED
    BY <2>1, <2>4 DEF FoundVectors
<1>12. QED
  BY <1>1, <1>3, <1>9, <1>10, <1>11 DEF Numbered

(* A build that ends early leaves the index as it is; so do the other steps. *)
LEMMA RestReuse ==
    ASSUME TypedInv, ReuseInv, UNCHANGED <<world, files, model, index>>,
           changes' = changes \/ changes' = changes + 1,
           build' = build \/ (build' = NoBuild /\ "crash" \in world)
    PROVE  ReuseInv'
<1>1. SUFFICES ASSUME Onwards
               PROVE  /\ Numbered'
                      /\ (ManifestUpto /\ BuildUpto /\ ReusedRight /\ FoundRight /\ Written)'
                      /\ (Settled => IndexRight)'
  BY DEF ReuseInv, Onwards
<1>2. /\ Numbered
      /\ ManifestUpto /\ BuildUpto /\ ReusedRight /\ FoundRight /\ Written
      /\ Settled => IndexRight
  BY <1>1 DEF ReuseInv, Onwards
<1>3. files \in [Images -> Nat] /\ changes \in Nat /\ model \in Nat
  BY DEF TypedInv, TypeOK
<1>4. \A i, c : Upto(i, c) => Upto(i, c)'
  BY <1>3 DEF Upto
<1>5. Numbered' /\ ManifestUpto'
  BY <1>2, <1>3, <1>4 DEF ManifestUpto, Numbered
<1>6. (BuildUpto /\ ReusedRight /\ FoundRight /\ Written)'
  <2>1. CASE build' = build
    <3>1. BuildUpto'
      BY <1>2, <1>4, <2>1 DEF BuildUpto
    <3>2. FoundRight'
      BY <1>2, <1>4, <2>1 DEF FoundRight
    <3>3. ReusedRight' /\ Written'
      BY <1>2, <2>1 DEF ReusedRight, Written, FoundVectors, Found
    <3>4. QED
      BY <3>1, <3>2, <3>3
  <2>2. CASE build' = NoBuild
    BY <2>2 DEF NoBuild, BuildUpto, ReusedRight, FoundRight, Written, FoundAt
  <2>3. QED
    BY <2>1, <2>2
<1>7. (Settled => IndexRight)'
  BY <1>2 DEF Settled, IndexRight, Readable
<1>8. QED
  BY <1>5, <1>6, <1>7

LEMMA StepReuse == TypedInv /\ OwnInv /\ ReuseInv /\ [Next]_vars => ReuseInv'
<1>1. SUFFICES ASSUME TypedInv, OwnInv, ReuseInv, [Next]_vars
               PROVE  ReuseInv'
  OBVIOUS
<1>2. CASE (\E i \in Images : ReplaceFile(i) \/ LoseFile(i)) \/ ChangeModel
  BY <1>1, <1>2, ChangeReuse
<1>3. CASE Builder
  <2>1. CASE StartBuild
    BY <1>1, <2>1, StartReuse
  <2>2. CASE \E bad \in SUBSET Images : Embed(bad)
    BY <1>1, <2>2, EmbedReuse
  <2>3. CASE SaveVectors \/ SaveIds \/ SaveTitles
    BY <1>1, <2>3, SaveReuse
  <2>4. CASE SaveManifest
    BY <1>1, <2>4, ManifestReuse
  <2>5. QED
    BY <1>3, <2>1, <2>2, <2>3, <2>4 DEF Builder
<1>4. CASE BuildFails \/ Restart \/ UNCHANGED vars
  <2>1. UNCHANGED <<world, files, model, index>>
    BY <1>4 DEF BuildFails, Restart, vars
  <2>2. build' = build \/ (build' = NoBuild /\ "crash" \in world)
    BY <1>4 DEF BuildFails, Restart, vars
  <2>3. changes' = changes \/ changes' = changes + 1
    BY <1>4 DEF BuildFails, Restart, vars
  <2>4. QED
    BY <1>1, <2>1, <2>2, <2>3, RestReuse
<1>5. ASSUME NEW c \in Clients, Work(c) \/ Scored(c) \/ NotScored(c) \/ (\E q \in Queries : Ask(c, q))
      PROVE  ReuseInv'
  <2>1. UNCHANGED <<world, files, model, index, build, builds, changes>>
    BY <1>5, LeavesIndex DEF UnchangedButSearch
  <2>2. QED
    BY <1>1, <2>1, RestReuse
<1>6. QED
  BY <1>1, <1>2, <1>3, <1>4, <1>5 DEF Next

-----------------------------------------------------------------------------
(* Whole builds.  A build that is not stopped, and whose files stand still  *)
(* between checksum and embedding, writes vectors of what its manifest says. *)

Whole == world \cap {"crash", "race"} = {}

SumsStill == build.at = "embed" => \A i \in DOMAIN build.sums : build.sums[i] = files[i]

FoundWhole ==
    build.at \in FoundAt =>
       \A i \in DOMAIN build.found :
          i \in DOMAIN build.sums /\ build.found[i] = Vector(i, build.sums[i], build.model)

IndexWhole ==
    build.at \in {"none", "embed", "vectors"} /\ Readable /\ index.manifest # None =>
       \A n \in DOMAIN index.ids :
          index.vectors[n] = Vector(index.ids[n], index.manifest.sums[index.ids[n]],
                                    index.manifest.model)

WholeInv == Whole => SumsStill /\ ReusedRight /\ FoundWhole /\ Written /\ IndexWhole

LEMMA WholeKept == world' = world => Whole' = Whole
BY DEF Whole

LEMMA InitWhole == Init => WholeInv
<1>1. SUFFICES ASSUME Init
               PROVE  WholeInv
  OBVIOUS
<1>2. build.at = "none" /\ index.manifest = None
  BY <1>1 DEF Init, NoBuild
<1>3. QED
  BY <1>2 DEF WholeInv, SumsStill, ReusedRight, FoundWhole, Written, IndexWhole, FoundAt

(* What a whole build would reuse.                                           *)
LEMMA ReusableWhole ==
    ASSUME TypedInv, IndexWhole, build.at = "none", NEW i \in Reusable(model)
    PROVE  /\ i \in Images /\ files[i] # 0
           /\ PreviousVectors(model)[i] = Vector(i, files[i], model)
<1>1. i \in DOMAIN PreviousVectors(model) /\ i \in DOMAIN PreviousSums /\ PreviousSums[i] = files[i]
  BY DEF Reusable
<1>2. Readable /\ index.manifest # None /\ index.manifest.model = model /\ i \in Images
  BY <1>1, PreviousTyped
<1>3. PICK n \in DOMAIN index.ids :
        index.ids[n] = i /\ PreviousVectors(model)[i] = index.vectors[n]
  BY <1>1, PreviousTyped
<1>4. i \in DOMAIN index.manifest.sums /\ index.manifest.sums[i] = files[i]
  BY <1>1, <1>2 DEF PreviousSums
<1>5. index.vectors[n] = Vector(i, files[i], model)
  BY <1>2, <1>3, <1>4 DEF IndexWhole
<1>6. files[i] # 0
  BY <1>2, <1>4, OfManifest DEF MapTo
<1>7. QED
  BY <1>2, <1>3, <1>5, <1>6

(* Files and settings change: not the files that a build is reading.         *)
LEMMA ChangeWhole ==
    ASSUME TypedInv, WholeInv, (\E i \in Images : ReplaceFile(i) \/ LoseFile(i)) \/ ChangeModel
    PROVE  WholeInv'
<1>1. UNCHANGED <<world, index, build>>
  BY DEF ReplaceFile, LoseFile, ChangeModel, Change
<1>2. SUFFICES ASSUME Whole
               PROVE  (SumsStill /\ ReusedRight /\ FoundWhole /\ Written /\ IndexWhole)'
  BY <1>1, WholeKept DEF WholeInv
<1>3. SumsStill /\ ReusedRight /\ FoundWhole /\ Written /\ IndexWhole
  BY <1>2 DEF WholeInv
<1>4. build.at = "embed" => files' = files
  BY <1>2 DEF Whole, ReplaceFile, LoseFile, ChangeModel, FilesMayChange
<1>5. SumsStill'
  BY <1>1, <1>3, <1>4 DEF SumsStill
<1>6. QED
  BY <1>1, <1>3, <1>5 DEF ReusedRight, FoundWhole, Written, FoundVectors, Found, IndexWhole, Readable

LEMMA StartWhole ==
    ASSUME TypedInv, WholeInv, StartBuild
    PROVE  WholeInv'
<1> DEFINE sums == [i \in {j \in Images : files[j] # 0} |-> files[i]]
           reused == [i \in Reusable(model) |-> PreviousVectors(model)[i]]
<1>1. /\ UNCHANGED <<world, files, index>> /\ build.at = "none"
      /\ build' = [at |-> "embed", model |-> model, sums |-> sums, reused |-> reused]
  BY DEF StartBuild, NoBuild
<1>2. SUFFICES ASSUME Whole
               PROVE  (SumsStill /\ ReusedRight /\ FoundWhole /\ Written /\ IndexWhole)'
  BY <1>1, WholeKept DEF WholeInv
<1>3. IndexWhole
  BY <1>2 DEF WholeInv
<1>4. \A i \in Reusable(model) :
        /\ i \in Images /\ files[i] # 0
        /\ PreviousVectors(model)[i] = Vector(i, files[i], model)
  BY <1>1, <1>3, ReusableWhole
<1>5. \A i \in DOMAIN reused : i \in DOMAIN sums /\ reused[i] = Vector(i, sums[i], model)
  BY <1>4
<1>6. \A i \in DOMAIN sums : sums[i] = files[i]
  OBVIOUS
<1> HIDE DEF sums, reused
<1>7. SumsStill' /\ ReusedRight'
  BY <1>1, <1>5, <1>6 DEF SumsStill, ReusedRight
<1>8. FoundWhole' /\ Written'
  BY <1>1 DEF FoundWhole, Written, FoundAt
<1>9. IndexWhole'
  BY <1>1, <1>3 DEF IndexWhole, Readable
<1>10. QED
  BY <1>7, <1>8, <1>9

LEMMA EmbedWhole ==
    ASSUME TypedInv, WholeInv, NEW bad, Embed(bad)
    PROVE  WholeInv'
<1> DEFINE found == FoundIn(bad)
<1>1. /\ build.at = "embed" /\ UNCHANGED <<world, files, index>>
      /\ build' = [at |-> "vectors", model |-> build.model, sums |-> build.sums, found |-> found]
  BY EmbedFound
<1>2. SUFFICES ASSUME Whole
               PROVE  (SumsStill /\ ReusedRight /\ FoundWhole /\ Written /\ IndexWhole)'
  BY <1>1, WholeKept DEF WholeInv
<1>3. SumsStill /\ ReusedRight /\ IndexWhole
  BY <1>2 DEF WholeInv
<1>4. ASSUME NEW i \in DOMAIN found
      PROVE  i \in DOMAIN build.sums /\ found[i] = Vector(i, build.sums[i], build.model)
  <2>1. CASE i \in NewImages(bad)
    <3>1. i \in DOMAIN build.sums /\ found[i] = Vector(i, files[i], build.model)
      BY <2>1 DEF NewImages, FoundIn
    <3>2. QED
      BY <1>1, <1>3, <3>1 DEF SumsStill
  <2>2. CASE i \in DOMAIN build.reused /\ i \notin NewImages(bad)
    <3>1. found[i] = build.reused[i]
      BY <2>2 DEF FoundIn
    <3>2. QED
      BY <1>1, <1>3, <2>2, <3>1 DEF ReusedRight
  <2>3. QED
    BY <2>1, <2>2 DEF FoundIn
<1> HIDE DEF found
<1>5. /\ build'.at = "vectors" /\ build'.model = build.model /\ build'.sums = build.sums
      /\ build'.found = found
  BY <1>1
<1>6. FoundWhole'
  BY <1>4, <1>5 DEF FoundWhole
<1>7. SumsStill' /\ ReusedRight' /\ Written' /\ IndexWhole'
  BY <1>1, <1>3, <1>5 DEF SumsStill, ReusedRight, Written, IndexWhole, Readable
<1>8. QED
  BY <1>6, <1>7

LEMMA SaveWhole ==
    ASSUME TypedInv, WholeInv, SaveVectors \/ SaveIds \/ SaveTitles
    PROVE  WholeInv'
<1>1. world' = world
  BY DEF SaveVectors, SaveIds, SaveTitles, Save
<1>2. SUFFICES ASSUME Whole
               PROVE  (SumsStill /\ ReusedRight /\ FoundWhole /\ Written /\ IndexWhole)'
  BY <1>1, WholeKept DEF WholeInv
<1>3. FoundWhole /\ Written
  BY <1>2 DEF WholeInv
<1>4. /\ build.at \in FoundAt
      /\ build'.at \in {"ids", "titles", "manifest"} /\ build'.model = build.model
      /\ build'.sums = build.sums /\ build'.found = build.found
      /\ Written'
  BY <1>3, SaveWrites
<1>5. FoundWhole'
  BY <1>3, <1>4 DEF FoundWhole
<1>6. SumsStill' /\ ReusedRight' /\ IndexWhole'
  BY <1>4 DEF SumsStill, ReusedRight, IndexWhole
<1>7. QED
  BY <1>4, <1>5, <1>6

(* The manifest is of the same build as the vectors.                         *)
LEMMA ManifestWhole ==
    ASSUME TypedInv, WholeInv, SaveManifest
    PROVE  WholeInv'
<1>1. /\ build.at = "manifest" /\ build' = NoBuild /\ world' = world
      /\ index' = [index EXCEPT !.manifest = [model |-> build.model, sums |-> build.sums]]
  BY DEF SaveManifest, Save
<1>2. SUFFICES ASSUME Whole
               PROVE  (SumsStill /\ ReusedRight /\ FoundWhole /\ Written /\ IndexWhole)'
  BY <1>1, WholeKept DEF WholeInv
<1>3. FoundWhole /\ Written
  BY <1>2 DEF WholeInv
<1>4. index = [vectors |-> index.vectors, ids |-> index.ids, titles |-> index.titles,
               manifest |-> index.manifest]
  BY DEF TypedInv, Shapes
<1>5. /\ index'.vectors = FoundVectors /\ index'.ids = Found
      /\ index'.manifest = [model |-> build.model, sums |-> build.sums]
  BY <1>1, <1>3, <1>4 DEF Written
<1>6. ASSUME NEW n \in DOMAIN Found, NEW i, i = Found[n]
      PROVE  FoundVectors[n] = Vector(i, build.sums[i], build.model)
  <2>1. build.at \in FoundAt /\ i \in DOMAIN build.found
    BY <1>1, <1>6, FoundTyped DEF FoundAt
  <2>2. QED
    BY <1>3, <1>6, <2>1 DEF FoundWhole, FoundVectors
<1>7. IndexWhole'
  BY <1>5, <1>6 DEF IndexWhole
<1>8. QED
  BY <1>1, <1>7 DEF NoBuild, SumsStill, ReusedRight, FoundWhole, Written, FoundAt

LEMMA RestWhole ==
    ASSUME WholeInv, UNCHANGED <<world, files, index>>,
           build' = build \/ (build' = NoBuild /\ "crash" \in world)
    PROVE  WholeInv'
<1>1. SUFFICES ASSUME Whole
               PROVE  (SumsStill /\ ReusedRight /\ FoundWhole /\ Written /\ IndexWhole)'
  BY WholeKept DEF WholeInv
<1>2. build' = build
  BY <1>1 DEF Whole
<1>3. QED
  BY <1>1, <1>2 DEF WholeInv, SumsStill, ReusedRight, FoundWhole, Written, FoundVectors, Found,
                    IndexWhole, Readable

LEMMA StepWhole == TypedInv /\ WholeInv /\ [Next]_vars => WholeInv'
<1>1. SUFFICES ASSUME TypedInv, WholeInv, [Next]_vars
               PROVE  WholeInv'
  OBVIOUS
<1>2. CASE (\E i \in Images : ReplaceFile(i) \/ LoseFile(i)) \/ ChangeModel
  BY <1>1, <1>2, ChangeWhole
<1>3. CASE Builder
  BY <1>1, <1>3, StartWhole, EmbedWhole, SaveWhole, ManifestWhole DEF Builder
<1>4. CASE BuildFails \/ Restart \/ UNCHANGED vars
  <2>1. UNCHANGED <<world, files, index>>
    BY <1>4 DEF BuildFails, Restart, vars
  <2>2. build' = build \/ (build' = NoBuild /\ "crash" \in world)
    BY <1>4 DEF BuildFails, Restart, vars
  <2>3. QED
    BY <1>1, <2>1, <2>2, RestWhole
<1>5. ASSUME NEW c \in Clients, Work(c) \/ Scored(c) \/ NotScored(c) \/ (\E q \in Queries : Ask(c, q))
      PROVE  WholeInv'
  <2>1. UNCHANGED <<world, files, index, build>>
    BY <1>5, LeavesIndex DEF UnchangedButSearch
  <2>2. QED
    BY <1>1, <2>1, RestWhole
<1>6. QED
  BY <1>1, <1>2, <1>3, <1>4, <1>5 DEF Next

(* A repeat build reuses only what is right: after builds that ended at any  *)
(* step or with images that come and go, while nothing is put back, and, if  *)
(* files and settings are put back, after whole builds (ReuseIsRight).       *)
THEOREM ReuseIsRightCorrect == Spec => []ReuseIsRight
<1>1. Init => ReuseInv /\ WholeInv
  BY InitReuse, InitWhole
<1>2. TypedInv /\ OwnInv /\ ReuseInv /\ WholeInv /\ [Next]_vars => ReuseInv' /\ WholeInv'
  BY StepReuse, StepWhole
<1>3. TypedInv /\ ReuseInv /\ WholeInv => ReuseIsRight
  <2>1. SUFFICES ASSUME TypedInv, ReuseInv, WholeInv, build = NoBuild,
                        ~ {"crash", "loss"} \subseteq world,
                        "revert" \in world => world \cap {"crash", "race"} = {},
                        NEW i \in Reusable(model)
                 PROVE  PreviousVectors(model)[i] = Vector(i, files[i], model)
    BY DEF ReuseIsRight, ReuseMatches
  <2>2. CASE "revert" \notin world
    <3>1. IndexRight
      BY <2>1, <2>2 DEF ReuseInv, Onwards, Settled, NoBuild
    <3>2. QED
      BY <2>1, <3>1, ReusableRight
  <2>3. CASE "revert" \in world
    <3>1. IndexWhole
      BY <2>1, <2>3 DEF WholeInv, Whole
    <3>2. build.at = "none"
      BY <2>1 DEF NoBuild
    <3>3. QED
      BY <2>1, <3>1, <3>2, ReusableWhole
  <2>4. QED
    BY <2>2, <2>3
<1>4. QED
  BY <1>1, <1>2, <1>3, AlwaysOwn, PTL DEF Spec

=============================================================================
