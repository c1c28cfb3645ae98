--------------------------- MODULE MCSemanticSearch ---------------------------
(* An instance for TLC: two listings, one of them cheap, an image of each.    *)
EXTENDS SemanticSearch, TLC

CONSTANTS imgA, imgB, listA, listB, im, fu

Aid == (imgA :> listA) @@ (imgB :> listB)
Cheap == {listA}
Csv == <<imgA, imgB>>

NlFilter(alias, column) == [form |-> "where", alias |-> alias, column |-> column]
Lit(k) == [not |-> FALSE, of |-> k]
Not(k) == [not |-> TRUE, of |-> k]

OfImages == im :> "images"
OfBoth == (im :> "images") @@ (fu :> "furniture")

Query(from, filters, cond) == [from |-> from, filters |-> filters, cond |-> cond]

(* cheap, or looks like x; not x, and titled y; a column without vectors; an  *)
(* alias that hides the name of its table.                                    *)
SomeQueries == {
    Query(OfImages, <<NlFilter(im, "img")>>, {{Lit(0)}, {Lit(1)}}),
    Query(OfBoth, <<NlFilter(im, "img"), NlFilter(fu, "title_u")>>, {{Not(1), Lit(2)}}),
    Query(OfBoth, <<NlFilter(fu, "price")>>, {{Not(1)}}),
    Query(OfImages, <<NlFilter(None, "img")>>, {{Lit(1)}})}

SomeWorlds == {
    {"crash", "race"}, {"crash", "overlap", "race"}, {"loss", "race", "baseline"},
    {"revert", "loss"}}

(* A file is put back, and builds end early.                                  *)
BrokenBuilds == {{"revert", "crash"}}
OneQuery == {Query(OfImages, <<NlFilter(im, "img")>>, {{Lit(0)}, {Lit(1)}})}

=============================================================================
