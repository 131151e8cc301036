---------------------------- MODULE UsageTables -----------------------------
(***************************************************************************)
(* The tables of the usage page: models and APIs of the analysis answer    *)
(* (UsagePage.tsx, ModelStatsCard.tsx, ApiDetailsCard.tsx), credentials    *)
(* (CredentialStatsCard.tsx) and the filters and pager of the request      *)
(* events (RequestEventsDetailsCard.tsx).  Shares are in whole percent.    *)
(***************************************************************************)
EXTENDS UsageFigures, SequencesExt

CONSTANTS
  AnalysisRow,  \* per API and model: [api, model, requests, success, tokens, input, output, cached, latency, samples]
  Identities,   \* [id, success, failure, total]
  NameOrder,    \* the names of APIs and models in their alphabetical order
  TopLimit      \* credentials in the top list (10)

VARIABLES
  answered,     \* the rows of the analysis answer shown
  modelSort, apiSort, \* [key, dir] of the two tables
  expandedApis

tableVars == <<answered, modelSort, apiSort, expandedApis>>

ModelSortKey == {"model", "requests", "tokens", "cost", "successRate", "averageLatencyMs", "totalLatencyMs"}
ApiSortKey == {"endpoint", "requests", "tokens", "cost"}

(* What a database holds: counts from 0, and no more rows or identities    *)
(* than it has written; every name has its place in the alphabet.          *)
ASSUME TablesAssumption ==
  /\ IsFiniteSet(AnalysisRow) /\ IsFiniteSet(Identities) /\ TopLimit \in Nat
  /\ \A r \in AnalysisRow :
       /\ \A field \in {"requests", "success", "tokens", "input", "output", "cached",
                        "latency", "samples"} : r[field] \in Nat
       /\ r.api \in ToSet(NameOrder) /\ r.model \in ToSet(NameOrder)
  /\ DOMAIN NameOrder \subseteq Nat
  /\ \A c \in Identities : {c.success, c.failure, c.total} \subseteq Nat \cup {Missing}

TablesInit ==
  /\ answered = {}
  /\ modelSort = [key |-> "requests", dir |-> "desc"]
  /\ apiSort = [key |-> "requests", dir |-> "desc"]
  /\ expandedApis = {}

TablesTypeOK ==
  /\ answered \subseteq AnalysisRow
  /\ modelSort \in [key : ModelSortKey, dir : {"asc", "desc"}]
  /\ apiSort \in [key : ApiSortKey, dir : {"asc", "desc"}]
  /\ expandedApis \subseteq {r.api : r \in AnalysisRow}

-----------------------------------------------------------------------------
(* The rows. *)

TotalOf(field, R) == SumOf([r \in R |-> r[field]])

(* The cost of tokens of one model, charged per million in the code. *)
AnalysisCost(model, R) ==
  IF model \notin DOMAIN ModelPrices THEN 0
  ELSE LET price == ModelPrices[model]
           cached == Bigger(TotalOf("cached", R), 0)
       IN  Bigger(Bigger(TotalOf("input", R), 0) - cached, 0) * price.prompt
           + Bigger(TotalOf("output", R), 0) * price.completion + cached * price.cache

SuccessRate(success, requests) == IF requests > 0 THEN (success * 100) \div requests ELSE 100

ModelRow(m) ==
  LET R == {r \in answered : r.model = m}
      samples == TotalOf("samples", R)
  IN  [model |-> m, requests |-> TotalOf("requests", R), tokens |-> TotalOf("tokens", R),
       cost |-> AnalysisCost(m, R),
       successRate |-> SuccessRate(TotalOf("success", R), TotalOf("requests", R)),
       averageLatencyMs |-> IF samples > 0 THEN TotalOf("latency", R) \div samples ELSE Missing,
       totalLatencyMs |-> IF samples > 0 THEN TotalOf("latency", R) ELSE Missing]

ModelRows == {ModelRow(m) : m \in {r.model : r \in answered}}

(* An API adds up the costs of its models. *)
ApiRow(a) ==
  LET R == {r \in answered : r.api = a} IN
  [endpoint |-> a, requests |-> TotalOf("requests", R), tokens |-> TotalOf("tokens", R),
   cost |-> SumOf([r \in R |-> AnalysisCost(r.model, {r})]),
   models |-> [m \in {r.model : r \in R} |-> TotalOf("requests", {r \in R : r.model = m})]]

ApiRows == {ApiRow(a) : a \in {r.api : r \in answered}}

-----------------------------------------------------------------------------
(* Sorting. *)

Rank(name) == CHOOSE i \in DOMAIN NameOrder : NameOrder[i] = name
SortValue(row, key) == IF key \in {"model", "endpoint"} THEN Rank(row[key]) ELSE row[key]

(* Mutant of Precedes: an absent number sorts as 0. *)
PrecedesAsZero(a, b, sort) ==
  LET left == ToNumber(SortValue(a, sort.key))
      right == ToNumber(SortValue(b, sort.key))
  IN  IF sort.dir = "asc" THEN left < right ELSE left > right

(* The comparator: a row without the number comes after all that have it,  *)
(* whatever the direction.                                                 *)
Precedes(a, b, sort) ==
  LET left == SortValue(a, sort.key)
      right == SortValue(b, sort.key)
  IN  /\ left # Missing
      /\ \/ right = Missing
         \/ /\ right # Missing
            /\ IF sort.dir = "asc" THEN left < right ELSE left > right

(* The orders the sort may leave the rows in: ties in any order. *)
SortedBy(rows, sort) ==
  {s \in SetToSeqs(rows) : \A i, j \in DOMAIN s : i < j => ~Precedes(s[j], s[i], sort)}

(* A click on another column starts with the order that column is read in. *)
HandleSort(sort, key, textKey) ==
  IF sort.key = key THEN [sort EXCEPT !.dir = IF @ = "asc" THEN "desc" ELSE "asc"]
  ELSE [key |-> key, dir |-> IF key = textKey THEN "asc" ELSE "desc"]

SortModels(key) ==
  /\ modelSort' = HandleSort(modelSort, key, "model")
  /\ UNCHANGED <<answered, apiSort, expandedApis>>

SortApis(key) ==
  /\ apiSort' = HandleSort(apiSort, key, "endpoint")
  /\ UNCHANGED <<answered, modelSort, expandedApis>>

(* Only a row that is shown can be toggled; one that has gone stays noted. *)
ToggleExpand(a) ==
  /\ a \in {r.api : r \in answered}
  /\ expandedApis' = IF a \in expandedApis THEN expandedApis \ {a} ELSE expandedApis \cup {a}
  /\ UNCHANGED <<answered, modelSort, apiSort>>

ShowAnalysis(R) ==
  /\ answered' = R
  /\ UNCHANGED <<modelSort, apiSort, expandedApis>>

TablesNext ==
  \/ \E key \in ModelSortKey : SortModels(key)
  \/ \E key \in ApiSortKey : SortApis(key)
  \/ \E a \in {r.api : r \in AnalysisRow} : ToggleExpand(a)
  \/ \E R \in SUBSET AnalysisRow : ShowAnalysis(R)

TablesSpec == TablesInit /\ [][TablesNext]_tableVars

-----------------------------------------------------------------------------
(* Credentials: the server's total, or the sum of the two counters when it *)
(* is 0 or absent; those with requests lead the top list.                  *)

CredentialRow(c) ==
  LET success == ToNumber(c.success)
      failure == ToNumber(c.failure)
      total == IF ToNumber(c.total) # 0 THEN c.total ELSE success + failure
  IN  [key |-> c.id, success |-> success, failure |-> failure, total |-> total,
       successRate |-> SuccessRate(success, total)]

BuildCredentialRows == SortedBy({CredentialRow(c) : c \in Identities}, [key |-> "total", dir |-> "desc"])

GetTopCredentialRows(rows) ==
  LET used == {i \in DOMAIN rows : rows[i].total > 0}
      Before(i) == Cardinality({j \in used : j < i})
  IN  [k \in 1..Smaller(TopLimit, Cardinality(used)) |-> rows[CHOOSE i \in used : Before(i) = k - 1]]

-----------------------------------------------------------------------------
(* Filters and pager of the request events. *)

AllFilter == "__all__"

AppendSelectedOption(options, selected) ==
  IF selected = AllFilter \/ selected \in options THEN options ELSE options \cup {selected}

FilterOptions(backend, selected) == AppendSelectedOption({AllFilter} \cup backend, selected)

EffectiveFilter(options, selected) == IF selected \in options THEN selected ELSE AllFilter

SafeTotalPages(totalPages, totalCount, size, rows) ==
  LET computed == IF size > 0 THEN (totalCount + size - 1) \div size ELSE 0
  IN  Bigger(Bigger(totalPages, computed), IF rows > 0 THEN 1 ELSE 0)

SafePage(page, safeTotal) == IF safeTotal > 0 THEN Smaller(Bigger(page, 1), safeTotal) ELSE 0

PreviousEnabled(page, safeTotal) == SafePage(page, safeTotal) > 1
NextEnabled(page, safeTotal) == safeTotal # 0 /\ SafePage(page, safeTotal) < safeTotal

-----------------------------------------------------------------------------
(* Every order of a table is one its comparator allows, rows without a     *)
(* number last in both directions; turning a column around reverses the    *)
(* rows it tells apart.                                                    *)
SortsAreSound ==
  LET turned == HandleSort(modelSort, modelSort.key, "model")
      Value(row) == SortValue(row, modelSort.key)
  IN  /\ SortedBy(ModelRows, modelSort) # {} /\ SortedBy(ApiRows, apiSort) # {}
      /\ \A s \in SortedBy(ModelRows, modelSort), i, j \in 1..Cardinality(ModelRows) :
           i < j => (Value(s[i]) = Missing => Value(s[j]) = Missing)
      /\ \A s \in SortedBy(ModelRows, modelSort), t \in SortedBy(ModelRows, turned) :
           \A a, b \in ModelRows :
             \/ Missing \in {Value(a), Value(b)} \/ Value(a) = Value(b)
             \/ LET At(q, row) == CHOOSE i \in DOMAIN q : q[i] = row IN
                At(s, a) < At(s, b) <=> At(t, b) < At(t, a)

(* The two tables split the same requests; a model never costs more in the *)
(* one than in the other, and the same when no API caches more than it     *)
(* reads; an opened API lists all its requests.                            *)
TablesAgree ==
  /\ \A field \in {"requests", "tokens"} : TotalOf(field, ModelRows) = TotalOf(field, ApiRows)
  /\ TotalOf("cost", ModelRows) <= TotalOf("cost", ApiRows)
  /\ (\A r \in answered : r.cached <= r.input) => TotalOf("cost", ModelRows) = TotalOf("cost", ApiRows)
  /\ \A row \in ApiRows : row.endpoint \in expandedApis => SumOf(row.models) = row.requests

(* The list of credentials and its top agree, a filter in force is the one *)
(* shown, and the pager never leads off the pages there are.               *)
ListsAgree ==
  /\ \A rows \in BuildCredentialRows :
       LET top == GetTopCredentialRows(rows) IN
       \A c \in {CredentialRow(d) : d \in Identities} :
         c.total > 0 /\ c \notin ToSet(top) =>
           Len(top) = TopLimit /\ \A i \in DOMAIN top : top[i].total >= c.total
  /\ \A backend \in SUBSET {r.model : r \in AnalysisRow} :
       \A selected \in {r.model : r \in AnalysisRow} \cup {AllFilter} :
         EffectiveFilter(FilterOptions(backend, selected), selected) = selected
  /\ \A size \in 0..2, count \in 0..3, rows \in 0..2, page \in 1..4 :
       LET total == SafeTotalPages(IF size = 0 THEN 0 ELSE (count + size - 1) \div size, count, size, rows)
       IN  page <= total =>
             /\ PreviousEnabled(page, total) => page - 1 \in 1..total
             /\ NextEnabled(page, total) => page + 1 \in 1..total

TablesTrue == SortsAreSound /\ TablesAgree /\ ListsAgree
=============================================================================
