------------------------------ MODULE SemanticSql ------------------------------
(***************************************************************************)
(* SQL with NL_FILTER (semantic_sql/operators.py, rewriter.py): which       *)
(* filters are accepted, and the plain SQL a query becomes.  A row is what  *)
(* FROM and its join conditions give: a key of the table of each alias.     *)
(***************************************************************************)
EXTENDS Naturals, Sequences, FiniteSets

CONSTANTS
    None,
    Images, Listings,  \* keys of the tables images and furniture
    ListingOf,         \* [Images -> Listings], images.aid
    Plain              \* the listings of an ordinary condition (price < 200)

ASSUME SqlAssumption ==
    /\ ListingOf \in [Images -> Listings]
    /\ Plain \subseteq Listings
    /\ None \notin Images \cup Listings

(* A query: its tables by alias, its filters, numbered as they are written, *)
(* and its condition, a set of clauses one of which must hold, each a set of *)
(* literals that must all hold.  Literal 0 is the ordinary condition.       *)
Keys == [images |-> Images, furniture |-> Listings]

Columns == [images |-> {"img", "aid"}, furniture |-> {"aid", "title_u", "price"}]

(* The filters are a sequence; the literals of the condition are filters    *)
(* and the ordinary one.                                                    *)
WellFormed(q) ==
    /\ q.filters \in Seq({q.filters[k] : k \in DOMAIN q.filters})
    /\ \A clause \in q.cond : \A l \in clause : l.of = 0 \/ l.of \in DOMAIN q.filters

(* _resolve_table: the table of a filter's column, None when it is unknown  *)
(* or not the only one.                                                     *)
TableOf(q, f) ==
    LET owners == {t \in DOMAIN Columns : f.column \in Columns[t]}
    IN  IF f.alias # None
        THEN IF f.alias \in DOMAIN q.from THEN q.from[f.alias] ELSE None
        ELSE IF Cardinality(owners) = 1 THEN CHOOSE t \in owners : TRUE ELSE None

(* extract_nl_filters refuses a query for one filter that is not in the     *)
(* WHERE of the outermost SELECT, is NL_JOIN, has other arguments than a    *)
(* column and a text, or a column it cannot place.                          *)
Refused(q) ==
    \E k \in DOMAIN q.filters :
       q.filters[k].form # "where" \/ TableOf(q, q.filters[k]) = None

(* The alias the join condition names: that of the column or its table.     *)
AliasOf(q, k) ==
    LET f == q.filters[k] IN IF f.alias # None THEN f.alias ELSE TableOf(q, f)

(* SQLite does not know the name of a table that has an alias.              *)
Unbound(q) == \E k \in DOMAIN q.filters : AliasOf(q, k) \notin DOMAIN q.from

Listing(q, row, a) == IF q.from[a] = "images" THEN ListingOf[row[a]] ELSE row[a]

(* The rows of FROM: the tables are joined on aid.                          *)
Base(q) ==
    {row \in [DOMAIN q.from -> Images \cup Listings] :
       /\ \A a \in DOMAIN q.from : row[a] \in Keys[q.from[a]]
       /\ \A a, b \in DOMAIN q.from : Listing(q, row, a) = Listing(q, row, b)}

Ordinary(q, row) == \A a \in DOMAIN q.from : Listing(q, row, a) \in Plain

(* rewrite_semantic_sql: each filter becomes a LEFT JOIN with its matches,  *)
(* which are the keys the resolver found; key[k] is match_key of the k-th.  *)
(* Seeded fault: an inner join.                                             *)
Joined_Inner(q, matches) ==
    {[row |-> row, key |-> [k \in DOMAIN q.filters |-> row[AliasOf(q, k)]]] :
       row \in {r \in Base(q) : \A k \in DOMAIN q.filters : r[AliasOf(q, k)] \in matches[k]}}

Joined(q, matches) ==
    {[row |-> row,
      key |-> [k \in DOMAIN q.filters |->
                 IF row[AliasOf(q, k)] \in matches[k] THEN row[AliasOf(q, k)] ELSE None]] :
       row \in Base(q)}

(* WHERE, with match_key IS NOT NULL in the place of each filter.           *)
Rewritten(q, matches) ==
    {j \in Joined(q, matches) :
       \E clause \in q.cond : \A l \in clause :
          l.not # (IF l.of = 0 THEN Ordinary(q, j.row) ELSE j.key[l.of] # None)}

(* What the query asks for: a filter is true of a row when the key of its    *)
(* table is one the resolver found.                                          *)
Wanted(q, matches) ==
    {row \in Base(q) :
       \E clause \in q.cond : \A l \in clause :
          l.not # (IF l.of = 0 THEN Ordinary(q, row)
                   ELSE \E key \in matches[l.of] : row[AliasOf(q, l.of)] = key)}

=============================================================================
