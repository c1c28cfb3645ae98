---------------------------- MODULE SemanticSearch ----------------------------
(***************************************************************************)
(* Semantic search of the Craigslist data: the builder of the vector index *)
(* (semantic_index/builder.py), a process of its own that may end at any    *)
(* step, the index the server has loaded (store.py), and a run_sql call     *)
(* (tools/executor.py, connectors/craigslist.py, craigslist/resolver.py)    *)
(* whose image filters have a vision model score a shortlist, batch by      *)
(* batch, with a cache of scores (craigslist/vision.py).                    *)
(* Contents of files, and models, are numbered as they come; whether old    *)
(* ones come back is one of the events a run allows or not.                 *)
(***************************************************************************)
EXTENDS SemanticSql, FiniteSetsExt

CONSTANTS
    Order,      \* the images in the order of imgs.csv
    Clients,
    Queries,    \* those whose filters can be extracted
    Worlds,     \* what may happen besides: subsets of Events
    Shortlist,  \* vision_rerank_count
    BatchSize,  \* VisionReranker.batch_size
    MaxBuilds,  \* bound: builds
    MaxChanges  \* bound: changes of files and settings, and restarts, that are not put back

(* The builder may end early; a file may disappear or not be an image; the   *)
(* index and the files may change while a search runs; the files may change  *)
(* between a build's checksums and its embeddings; a file or the setting of  *)
(* the model may be put back; CLIP alone may rank when the vision model      *)
(* cannot (vision_allow_clip_only).                                          *)
Events == {"crash", "loss", "overlap", "race", "revert", "baseline"}

ASSUME SearchAssumption ==
    /\ Order \in Seq(Images)
    /\ \A q \in Queries : WellFormed(q) /\ ~ Refused(q)
    /\ Worlds \subseteq SUBSET Events
    /\ {Shortlist, BatchSize} \subseteq Nat \ {0}
    /\ {MaxBuilds, MaxChanges} \subseteq Nat

VARIABLES
    world,     \* the events that may happen
    files,     \* [Images -> contents of the file, numbered; 0 for none]
    model,     \* the CLIP model of the settings, numbered
    index,     \* the files of the index
    build,     \* the builder
    loaded,    \* load_index in the server: the ids it holds
    cache,     \* vision_scores.sqlite: [cache keys -> the contents scored]
    req,       \* [Clients -> the search in flight]
    builds, changes

vars == <<world, files, model, index, build, loaded, cache, req, builds, changes>>

-----------------------------------------------------------------------------
(* The index: vectors by position, the ids of the positions, the manifest   *)
(* (the model and the checksums).  A vector is that of some contents.       *)

Vector(i, contents, m) == [image |-> i, contents |-> contents, model |-> m]

Vectors == [image : Images, contents : Nat, model : Nat]

NoBuild == [at |-> "none"]
Idle == [op |-> "idle"]

(* A map from some of the images.                                           *)
MapTo(S, map) == DOMAIN map \subseteq Images /\ \A i \in DOMAIN map : map[i] \in S

Manifest(m) == m.model \in Nat /\ MapTo(Nat \ {0}, m.sums)

Index ==
    /\ index.vectors \in Seq(Vectors) /\ index.ids \in Seq(Images)
    /\ index.titles \in BOOLEAN
    /\ index.manifest # None => Manifest(index.manifest)

Build ==
    \/ build = NoBuild
    \/ /\ Manifest(build)
       /\ \/ build.at = "embed" /\ MapTo(Vectors, build.reused)
          \/ build.at \in {"vectors", "ids", "titles", "manifest"} /\ MapTo(Vectors, build.found)

CacheKeys == [image : Images, contents : Nat]

(* A search is resolving the filter after the matches it has, with a        *)
(* shortlist of which some images are scored, waits for the scores of a     *)
(* batch whose files it sent, or has its answer: None for an error.         *)
Request(c) ==
    LET r == req[c]
    IN  \/ r = Idle
        \/ /\ r.query \in Queries
           /\ Len(r.matches) <= Len(r.query.filters)
           /\ \A k \in DOMAIN r.matches : r.matches[k] \subseteq Images \cup Listings
           /\ \/ r.op = "resolve"
              \/ r.op = "score" /\ r.scored \subseteq r.shortlist /\ r.shortlist \subseteq Images
              \/ /\ r.op = "wait"
                 /\ DOMAIN r.sent # {} /\ DOMAIN r.sent \cap r.scored = {}
                 /\ DOMAIN r.sent \cup r.scored \subseteq r.shortlist
              \/ r.op = "done" /\ Len(r.matches) = Len(r.query.filters)

Smaller(m, n) == IF m < n THEN m ELSE n

Become(c, r) == req' = [req EXCEPT ![c] = r]

Quiet == \A c \in Clients : req[c].op \in {"idle", "done"}

Init ==
    /\ world \in Worlds
    /\ files = [i \in Images |-> 1]
    /\ model = 1
    /\ index = [vectors |-> << >>, ids |-> << >>, titles |-> FALSE, manifest |-> None]
    /\ build = NoBuild
    /\ loaded = None
    /\ cache = << >>
    /\ req = [c \in Clients |-> Idle]
    /\ builds = 0 /\ changes = 0

-----------------------------------------------------------------------------
(* What the builder reads: image files and settings change.                 *)

(* Each may be put back, if that is one of the events.                      *)
Changeable == changes < MaxChanges \/ ("revert" \in world /\ changes < 2 * MaxChanges)

Change ==
    /\ Changeable /\ changes' = changes + 1
    /\ Quiet \/ "overlap" \in world
    /\ UNCHANGED <<world, index, build, loaded, cache, req, builds>>

FilesMayChange == build.at # "embed" \/ "race" \in world

(* What was never there before, or, put back, what was.                     *)
NewOrBack == {changes + 2} \cup {n \in 1..(changes + 1) : "revert" \in world}

ReplaceFile(i) ==
    /\ FilesMayChange
    /\ \E contents \in NewOrBack : files' = [files EXCEPT ![i] = contents]
    /\ UNCHANGED model
    /\ Change

LoseFile(i) ==
    /\ "loss" \in world
    /\ FilesMayChange
    /\ files' = [files EXCEPT ![i] = 0]
    /\ UNCHANGED model
    /\ Change

ChangeModel ==
    /\ model' \in NewOrBack
    /\ UNCHANGED files
    /\ Change

-----------------------------------------------------------------------------
(* build_craigslist_indexes.                                                *)

(* load_index: the ids with their vectors, or an error when there are more  *)
(* of one than of the other.                                                *)
Readable == index.ids # << >> /\ Len(index.ids) = Len(index.vectors)

(* _previous_vectors: those of the index, if the manifest names the model   *)
(* of the settings.  Seeded fault: whatever it names.                       *)
PreviousVectors_AnyModel(m) ==
    IF Readable
    THEN [i \in {index.ids[n] : n \in DOMAIN index.ids} |->
            index.vectors[CHOOSE n \in DOMAIN index.ids : index.ids[n] = i]]
    ELSE << >>

PreviousVectors(m) ==
    IF Readable /\ index.manifest # None /\ index.manifest.model = m
    THEN [i \in {index.ids[n] : n \in DOMAIN index.ids} |->
            index.vectors[CHOOSE n \in DOMAIN index.ids : index.ids[n] = i]]
    ELSE << >>

PreviousSums == IF index.manifest = None THEN << >> ELSE index.manifest.sums

(* The images whose previous vector is taken again.                         *)
Reusable(m) ==
    {i \in DOMAIN PreviousVectors(m) \cap DOMAIN PreviousSums : PreviousSums[i] = files[i]}

(* It reads the previous index and the files' checksums.                    *)
StartBuild ==
    /\ build = NoBuild /\ builds < MaxBuilds
    /\ Quiet \/ "overlap" \in world
    /\ builds' = builds + 1
    /\ build' = [at |-> "embed", model |-> model,
                 sums |-> [i \in {j \in Images : files[j] # 0} |-> files[i]],
                 reused |-> [i \in Reusable(model) |-> PreviousVectors(model)[i]]]
    /\ UNCHANGED <<world, files, model, index, loaded, cache, req, changes>>

(* It embeds the other images, as their files are now; one that cannot be   *)
(* read is reported and left out.                                           *)
Embed(bad) ==
    LET new == {i \in DOMAIN build.sums \ DOMAIN build.reused : files[i] # 0} \ bad
    IN  /\ build.at = "embed"
        /\ bad = {} \/ "loss" \in world
        /\ build' = [at |-> "vectors", model |-> build.model, sums |-> build.sums,
                     found |-> [i \in new \cup DOMAIN build.reused |->
                                  IF i \in new THEN Vector(i, files[i], build.model)
                                  ELSE build.reused[i]]]
        /\ UNCHANGED <<world, files, model, index, loaded, cache, req, builds, changes>>

(* The images of imgs.csv that are in S, in that order.                     *)
Listed(order, S) ==
    LET upTo[n \in 0..Len(order)] ==
          IF n = 0 THEN << >>
          ELSE IF order[n] \in S THEN Append(upTo[n - 1], order[n]) ELSE upTo[n - 1]
    IN  upTo[Len(order)]

Found == Listed(Order, DOMAIN build.found)

(* The positions of the vectors.  Seeded fault: as they were embedded, those *)
(* that were reused first.                                                  *)
Positions_AsEmbedded(found) ==
    LET Reused(i) == build.found[i] \in {index.vectors[n] : n \in DOMAIN index.vectors}
        New(i) == ~ Reused(i)
    IN  SelectSeq(found, Reused) \o SelectSeq(found, New)

Positions(found) == found

(* It writes the files one after the other.                                 *)
Save(at, next, files_) ==
    /\ build.at = at
    /\ Quiet \/ "overlap" \in world
    /\ index' = files_
    /\ build' = next
    /\ UNCHANGED <<world, files, model, loaded, cache, req, builds, changes>>

SaveVectors ==
    LET ids == Positions(Found)
    IN  Save("vectors", [build EXCEPT !.at = "ids"],
             [index EXCEPT !.vectors = [n \in DOMAIN ids |-> build.found[ids[n]]]])

SaveIds == Save("ids", [build EXCEPT !.at = "titles"], [index EXCEPT !.ids = Found])

SaveTitles == Save("titles", [build EXCEPT !.at = "manifest"], [index EXCEPT !.titles = TRUE])

SaveManifest ==
    Save("manifest", NoBuild,
         [index EXCEPT !.manifest = [model |-> build.model, sums |-> build.sums]])

(* It ends before: it is stopped, or one of the models cannot be loaded.    *)
BuildFails ==
    /\ "crash" \in world
    /\ build # NoBuild
    /\ build' = NoBuild
    /\ UNCHANGED <<world, files, model, index, loaded, cache, req, builds, changes>>

-----------------------------------------------------------------------------
(* A search: run_sql, approved, of a query with filters.                    *)

UnchangedButSearch == UNCHANGED <<world, files, model, index, build, builds, changes>>

(* An error: the answer has no rows.                                        *)
Failed(c) == Become(c, Idle)

Ask(c, q) ==
    /\ req[c].op \in {"idle", "done"}
    /\ Become(c, [op |-> "resolve", query |-> q, matches |-> << >>])
    /\ UNCHANGED <<loaded, cache>> /\ UnchangedButSearch

(* The filter to resolve next, and whether a resolver knows its column.     *)
Filter(r) == r.query.filters[Len(r.matches) + 1]
Resolving(c) == req[c].op = "resolve" /\ Len(req[c].matches) < Len(req[c].query.filters)

Supported(r) ==
    Filter(r).column \in (IF TableOf(r.query, Filter(r)) = "images" THEN {"img"} ELSE {"title_u"})

Matched(r, keys) == [op |-> "resolve", query |-> r.query, matches |-> Append(r.matches, keys)]

(* A column no resolver knows matches nothing.                              *)
ResolveUnknown(c) ==
    /\ Resolving(c) /\ ~ Supported(req[c])
    /\ Become(c, Matched(req[c], {}))
    /\ UNCHANGED <<loaded, cache>> /\ UnchangedButSearch

(* CraigslistTitleResolver: the titles nearest to the text, by a score that *)
(* no other step reads.                                                     *)
ResolveTitle(c) ==
    /\ Resolving(c) /\ Supported(req[c]) /\ TableOf(req[c].query, Filter(req[c])) = "furniture"
    /\ IF index.titles
       THEN \E keys \in SUBSET Listings : Become(c, Matched(req[c], keys))
       ELSE Failed(c)
    /\ UNCHANGED <<loaded, cache>> /\ UnchangedButSearch

(* _cache_key: the checksum of the manifest, or else of the file.           *)
(* Seeded fault: the image alone.                                           *)
CacheKey_Image(i) == [image |-> i, contents |-> 1]

CacheKey(i) ==
    [image |-> i, contents |-> IF i \in DOMAIN PreviousSums THEN PreviousSums[i] ELSE files[i]]

(* CraigslistImageResolver takes the index it holds, or loads it, ranks by   *)
(* CLIP, and reads the scores of the shortlist from the cache.  Which images *)
(* are the nearest is open.  (A file that is gone has no checksum.)          *)
Rank(c) ==
    /\ Resolving(c) /\ Supported(req[c]) /\ TableOf(req[c].query, Filter(req[c])) = "images"
    /\ loaded' = IF loaded = None /\ Readable THEN index.ids ELSE loaded
    /\ IF loaded' = None THEN Failed(c)
       ELSE \E S \in kSubset(Smaller(Shortlist, Len(loaded')), {loaded'[n] : n \in DOMAIN loaded'}) :
              IF \E i \in S : CacheKey(i).contents = 0 THEN Failed(c)
              ELSE Become(c, [op |-> "score", query |-> req[c].query, matches |-> req[c].matches,
                              shortlist |-> S,
                              scored |-> {i \in S : CacheKey(i) \in DOMAIN cache}])
    /\ UNCHANGED cache /\ UnchangedButSearch

(* _request sends the next images, as their files are now.  Seeded fault:   *)
(* of all that are on the shortlist.                                        *)
Unscored_All(r) == r.shortlist

Unscored(r) == r.shortlist \ r.scored

Send(c) ==
    LET r == req[c]
    IN  /\ r.op = "score" /\ r.scored # r.shortlist
        /\ \E batch \in kSubset(Smaller(BatchSize, Cardinality(Unscored(r))), Unscored(r)) :
             IF \E i \in batch : files[i] = 0 THEN Failed(c)
             ELSE Become(c, [op |-> "wait", query |-> r.query, matches |-> r.matches,
                             shortlist |-> r.shortlist, scored |-> r.scored,
                             sent |-> [i \in batch |-> files[i]]])
        /\ UNCHANGED <<loaded, cache>> /\ UnchangedButSearch

(* Every image of the batch has a score, and they are kept (_write_cache).  *)
(* Seeded fault: only when they are the last.                               *)
Kept_AtEnd(r) ==
    LET new == [k \in {CacheKey(i) : i \in DOMAIN r.sent} |-> r.sent[k.image]]
    IN  IF r.shortlist \subseteq r.scored \cup DOMAIN r.sent
        THEN [k \in DOMAIN cache \cup DOMAIN new |-> IF k \in DOMAIN new THEN new[k] ELSE cache[k]]
        ELSE cache

Kept(r) ==
    LET new == [k \in {CacheKey(i) : i \in DOMAIN r.sent} |-> r.sent[k.image]]
    IN  [k \in DOMAIN cache \cup DOMAIN new |-> IF k \in DOMAIN new THEN new[k] ELSE cache[k]]

Scored(c) ==
    LET r == req[c]
    IN  /\ r.op = "wait"
        /\ \A i \in DOMAIN r.sent : CacheKey(i).contents # 0
        /\ cache' = Kept(r)
        /\ Become(c, [op |-> "score", query |-> r.query, matches |-> r.matches,
                      shortlist |-> r.shortlist, scored |-> r.scored \cup DOMAIN r.sent])
        /\ UNCHANGED loaded /\ UnchangedButSearch

(* Otherwise (no key, no answer in time, one that is not about exactly the  *)
(* images sent) CLIP decides, if it may, or the search fails.               *)
NotScored(c) ==
    /\ req[c].op = "wait"
    /\ IF "baseline" \in world
       THEN \E keys \in SUBSET {loaded[n] : n \in DOMAIN loaded} : Become(c, Matched(req[c], keys))
       ELSE Failed(c)
    /\ UNCHANGED <<loaded, cache>> /\ UnchangedButSearch

(* All are scored: those above the cutoff match.                            *)
Combine(c) ==
    /\ req[c].op = "score" /\ req[c].scored = req[c].shortlist
    /\ \E keys \in SUBSET req[c].shortlist : Become(c, Matched(req[c], keys))
    /\ UNCHANGED <<loaded, cache>> /\ UnchangedButSearch

(* execute_readonly runs the rewritten query.                               *)
Execute(c) ==
    LET r == req[c]
    IN  /\ r.op = "resolve" /\ ~ Resolving(c)
        /\ IF Unbound(r.query) THEN Failed(c)
           ELSE Become(c, [op |-> "done", query |-> r.query, matches |-> r.matches])
        /\ UNCHANGED <<loaded, cache>> /\ UnchangedButSearch

(* The server stops and starts.                                             *)
Restart ==
    /\ Changeable /\ changes' = changes + 1
    /\ loaded' = None
    /\ req' = [c \in Clients |-> Idle]
    /\ UNCHANGED <<world, files, model, index, build, cache, builds>>

-----------------------------------------------------------------------------
Builder == StartBuild \/ (\E bad \in SUBSET Images : Embed(bad))
           \/ SaveVectors \/ SaveIds \/ SaveTitles \/ SaveManifest

(* What the server does of itself.                                          *)
Work(c) == ResolveUnknown(c) \/ ResolveTitle(c) \/ Rank(c) \/ Send(c) \/ Combine(c) \/ Execute(c)

Next ==
    \/ \E i \in Images : ReplaceFile(i) \/ LoseFile(i)
    \/ ChangeModel
    \/ Builder \/ BuildFails
    \/ \E c \in Clients : Work(c) \/ Scored(c) \/ NotScored(c) \/ (\E q \in Queries : Ask(c, q))
    \/ Restart

Spec == Init /\ [][Next]_vars

(* The server goes on with a search, each request to the vision model ends, *)
(* and one that is sent again and again is answered well now and then.      *)
FairSpec ==
    /\ Spec
    /\ \A c \in Clients : WF_vars(Work(c)) /\ WF_vars(Scored(c) \/ NotScored(c)) /\ SF_vars(Scored(c))

-----------------------------------------------------------------------------
(* Properties.                                                              *)

(* Every variable has its type; in particular a batch is part of what is    *)
(* left of the shortlist, and a search ends with one set for each filter.   *)
TypeOK ==
    /\ world \in Worlds
    /\ files \in [Images -> Nat] /\ {model, builds, changes} \subseteq Nat
    /\ Index /\ Build
    /\ loaded = None \/ loaded \in Seq(Images)
    /\ DOMAIN cache \subseteq CacheKeys /\ \A k \in DOMAIN cache : cache[k] \in Nat \ {0}
    /\ \A c \in Clients : Request(c)

(* "A repeat build reuses vectors whose source checksum and model identity  *)
(* have not changed": what a build would reuse is the vector of that image, *)
(* of the contents of its file now and of the model of the settings.  The   *)
(* code does not keep this: a build that ended before its manifest leaves    *)
(* the vectors of another model under a manifest that fits once the setting *)
(* is put back.                                                             *)
ReuseMatches ==
    \A i \in Reusable(model) : PreviousVectors(model)[i] = Vector(i, files[i], model)

ReusePromised == build = NoBuild => ReuseMatches

(* It is kept after builds that ended at any step, or with files that come  *)
(* and go, while nothing is put back; and when files and settings are put   *)
(* back, if every build comes to its end and reads files that stand still.  *)
ReuseIsRight ==
    /\ build = NoBuild
    /\ ~ {"crash", "loss"} \subseteq world
    /\ "revert" \in world => world \cap {"crash", "race"} = {}
    => ReuseMatches

(* The server ranks an image by a vector of that image, although it holds   *)
(* the ids it loaded once while the vectors under them are those on disk,   *)
(* when no image was lost.                                                  *)
RankedByOwnVector ==
    loaded # None /\ "loss" \notin world =>
       /\ Len(loaded) = Len(index.vectors)
       /\ \A n \in DOMAIN loaded : index.vectors[n].image = loaded[n]

(* "Vision scores are cached by [...] image checksum": the score the cache  *)
(* has for an image whose file is as it was indexed was made from that file. *)
(* The code does not keep this: the key has the checksum of the manifest,   *)
(* the score is of the file that was sent, and the file may be put back.    *)
Indexed(i) == i \in DOMAIN PreviousSums => PreviousSums[i] = files[i]

ScoreByChecksum ==
    \A i \in Images :
       Indexed(i) /\ CacheKey(i) \in DOMAIN cache => cache[CacheKey(i)] = files[i]

(* It is kept when no file is put back, and no file changes and no index is *)
(* built during a search.                                                   *)
ScoreOfFile == world \cap {"overlap", "revert"} = {} => ScoreByChecksum

(* One of the two promises at least is kept at any moment, which is weaker  *)
(* than each of them.  The code does not keep this either: an index and a   *)
(* cache can contradict both, over one file that was put back.              *)
SomePromiseKept == ReusePromised \/ ScoreByChecksum

(* The rewritten SQL returns the rows the query asks for, each once,        *)
(* whatever its condition and whatever its filters matched.                 *)
RowsAreWanted ==
    \A c \in Clients :
       req[c].op = "done" =>
          LET answer == Rewritten(req[c].query, req[c].matches)
          IN  /\ {j.row : j \in answer} = Wanted(req[c].query, req[c].matches)
              /\ \A j, k \in answer : j.row = k.row => j = k

(* A user who repeats a search that can be answered gets an answer, however *)
(* often the vision model fails: the batches it scored are not sent again.  *)
Answerable(q) == ~ Unbound(q)

Askable == index.titles /\ Readable /\ \A i \in Images : files[i] # 0

RetryIsAnswered ==
    \A c \in Clients :
       []<>(req[c].op = "resolve" /\ Answerable(req[c].query)) /\ <>[]Askable
       => <>(req[c].op = "done")

=============================================================================
