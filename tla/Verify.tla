------------------------------- MODULE Verify -------------------------------
(***************************************************************************)
(* verify.py, the check that is run by hand after the jobs of              *)
(* IndexPipeline and before a server is started on what they have left.    *)
(* It reads the tables one after the other and either reports what it has  *)
(* found or ends with an exception.  It is run from the shell of the jobs: *)
(* no job runs at the same time, while members and administrators go on.   *)
(***************************************************************************)
EXTENDS IndexPipeline, Functions

CONSTANT MaxTokens     \* EMBED_MAX_TOKENS

VARIABLES
  verifying,     \* "no", the section it has got through, or how it has ended
  checked,       \* its EMBED_MODEL
  found,         \* what check has put on the list of problems
  silent,        \* members who had bought without a review when they were counted
  indexed        \* the model of the documented order, if that was run last

verification == <<verifying, checked, found, silent>>
allvars == <<vars, verification, indexed>>

Verifying == verifying \in {"counted", "read"}

InitVerify ==
  /\ Init
  /\ verifying = "no" /\ checked = NoRow /\ found = {} /\ silent = {}
  /\ indexed = NoRow

Reviewed == {p \in PurchaseIds : reviews[p] # NoRow}
Reviewers == {Buyer[p] : p \in Reviewed}
HeldOut == {p \in Reviewed : reviews[p].is_holdout}

Rows(vectors) == IF vectors = NoTable THEN NoTable ELSE vectors.rows
Filled(table) == IF table = NoTable THEN table ELSE Restrict(table, {k \in DOMAIN table : table[k] # NoRow})

(* The tables that are missing or empty.                                   *)
Unfilled(tables) == {t \in DOMAIN tables : tables[t] = NoTable \/ DOMAIN tables[t] = {}}

(* chunks and chunk_vectors are there and differ in their number of rows.  *)
NumbersDiffer ==
  /\ chunks # NoTable /\ chunk_vectors # NoTable
  /\ Cardinality(Ids(chunks)) # Cardinality(DOMAIN chunk_vectors.rows)

(* check_table_data.  Who has bought without a review is not part of       *)
(* IndexPipeline: any of the buyers of the other purchases.                *)
CountTables(m) ==
  /\ ~Verifying /\ \A s \in Shells : pc[s] \in Resting
  /\ \E quiet \in SUBSET ({Buyer[p] : p \in PurchaseIds \ Reviewed} \ Reviewers) :
       /\ silent' = quiet
       /\ found' =
            Unfilled([product |-> Filled(product), review |-> Filled(reviews),
                      chunks |-> chunks, chunk_vectors |-> Rows(chunk_vectors),
                      embedding_meta |-> Filled(embedding_meta)])
            \cup {f \in {"vectors of chunks"} : NumbersDiffer}
            \cup {f \in {"answers"} : Cardinality(HeldOut) # Cardinality(Reviewers \cup quiet)}
  /\ verifying' = "counted" /\ checked' = m
  /\ UNCHANGED <<vars, indexed>>

DimsOf(table) ==
  {d \in {Dim[m] : m \in Models} : table # NoTable /\ DOMAIN table.rows # {} /\ table.dim = d}
Dims == DimsOf(chunk_vectors) \cup DimsOf(product_vectors)

End(with) ==
  /\ verifying' = with
  /\ checked' = NoRow /\ found' = {} /\ silent' = {}
  /\ UNCHANGED <<vars, indexed>>

(* check_vector_data, check_vector_storage and check_token_sizes: model    *)
(* and dimension of embedding_meta, of each table that is there and, once  *)
(* more, of chunk_vectors.  Without embedding_meta, without any vector or  *)
(* without chunks or chunk_vectors they raise.                             *)
ReadVectors ==
  LET empty == Unfilled([chunk_vectors |-> Rows(chunk_vectors),
                         product_vectors |-> Rows(product_vectors),
                         customer_vectors |-> customer_vectors])
  IN  /\ verifying = "counted"
      /\ \/ /\ \/ embedding_meta = NoTable \/ chunks = NoTable \/ chunk_vectors = NoTable
               \/ Cardinality(empty) = 3
            /\ End("crashed")
         \/ /\ embedding_meta # NoTable /\ chunks # NoTable /\ chunk_vectors # NoTable
            /\ Cardinality(empty) < 3
            /\ verifying' = "read"
            /\ found' = found \cup empty
                 \cup {key \in {"model"} : embedding_meta.model # checked}
                 \cup {key \in {"dim"} : embedding_meta.dim # Dim[checked] \/ Dims # {Dim[checked]}}
                 \cup {key \in {"tokens"} : \E id \in Ids(chunks) : Tokens[chunks[id]] > MaxTokens}
            /\ UNCHANGED <<vars, checked, silent, indexed>>

(* compare_recommendations, inspect and print_final_result: customers are  *)
(* multiplied with products and chunks, which all have to be there and of  *)
(* the same dimension; the questions of inspect are of the model's.        *)
Report ==
  /\ verifying = "read"
  /\ \/ /\ \/ found \cap {"chunk_vectors", "product_vectors", "customer_vectors", "product"} # {}
           \/ Dims # {Dim[checked]}
        /\ End("crashed")
     \/ /\ found \cap {"chunk_vectors", "product_vectors", "customer_vectors", "product"} = {}
        /\ Dims = {Dim[checked]}
        /\ End(IF found = {} THEN "passed" ELSE "problems")

Meanwhile ==
  \/ \E p \in PurchaseIds, body \in Written : WriteReview(p, body)
  \/ \E p \in Products, details \in Details : UpdateProduct(p, details)
  \/ \E m \in ServerModels : StartServer(m) \/ StopServer

(* Everything else; the shell begins no script while it runs verify.py.    *)
Elsewhere ==
  /\ IF Verifying THEN Meanwhile ELSE Next
  /\ verifying' = IF Verifying THEN verifying ELSE "no"
  /\ indexed' = IF \E s \in Shells : pc[s] = "averaged" /\ pc'[s] = "idle" /\ ran[s] = Documented
                THEN using[CHOOSE s \in Shells : pc[s] = "averaged" /\ pc'[s] = "idle"]
                ELSE IF pc' # pc THEN NoRow ELSE indexed
  /\ UNCHANGED <<checked, found, silent>>

NextVerify ==
  \/ \E m \in Models : CountTables(m)
  \/ ReadVectors
  \/ Report
  \/ Elsewhere

SpecVerify == InitVerify /\ [][NextVerify]_allvars

-----------------------------------------------------------------------------
Passes == verifying = "read" /\ verifying' = "passed"

(* "전부 통과. 다음은 uvicorn": verify.py does not look at the fingerprint of  *)
(* the chunks, and yet a server that is started with its model after it    *)
(* has passed has nothing to warn about.                                   *)
PassedMeansQuiet == [][Passes => Problems(checked) = {}]_allvars

(* The documented order leaves what verify.py takes, whatever was there    *)
(* before and whichever reviews were written meanwhile, as long as nobody  *)
(* bought or reviewed for the first time since the answers were set aside, *)
(* there are products, and somebody has a review that was not set aside.   *)
DocumentedOrderVerifies ==
  [][(/\ Verifying /\ ~Verifying' /\ indexed = checked
      /\ silent = {} /\ Reviewers = {Buyer[p] : p \in HeldOut}
      /\ \E p \in Products : product[p] # NoRow
      /\ DOMAIN customer_vectors # {})
     => verifying' = "passed"]_allvars
=============================================================================
