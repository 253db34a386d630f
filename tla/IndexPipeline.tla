--------------------------- MODULE IndexPipeline ----------------------------
(***************************************************************************)
(* The jobs that turn reviews into the search index:                       *)
(*                                                                         *)
(*   load      load_csv.py            reviews and products from CSV files  *)
(*   holdout   prep_rec.py holdout    sets a review of each member aside   *)
(*   chunk     chunk.py               reviews -> chunks                    *)
(*   embed     embed.py [--full]      chunks -> chunk_vectors              *)
(*   vectors   prep_rec.py vectors    product_vectors and customer_vectors *)
(*                                                                         *)
(* Each is a process and a transaction of its own, run from a shell one    *)
(* after the other or from two shells at once.  Members write reviews      *)
(* meanwhile, administrators edit products, a job can fail anywhere, and   *)
(* servers are started on whatever the jobs have left.                     *)
(***************************************************************************)
EXTENDS Naturals, Sequences, FiniteSets, FiniteSetsExt

CONSTANTS
  Shells,              \* each runs one script at a time
  Scripts,             \* sequences of jobs
  PurchaseIds,         \* the later purchase has the higher id
  Buyer,               \* the member of a purchase
  Bodies, NoBody,      \* review texts; NULL
  Written,             \* the texts that members write
  Products, Details,   \* product ids, and what product_text makes of their rows
  Loads,               \* what the CSV files can hold
  Models, Dim,         \* EMBED_MODEL and its EMBED_DIM
  ServerModels,        \* the models that servers are started with
  Split,               \* the pieces split_review cuts, by model and text
  Tokens,              \* n_tokens of a piece
  NoRow, NoTable,
  InitialMeta          \* embedding_meta, which no job creates

Jobs == {"load", "holdout", "chunk", "embed", "embed_full", "vectors"}
ReviewRow == [body: Bodies \cup {NoBody}, is_holdout: BOOLEAN]
Reviews == [PurchaseIds -> ReviewRow \cup {NoRow}]
ProductRows == [Products -> Details \cup {NoRow}]

ASSUME IndexConstantsOK ==
  /\ PurchaseIds \subseteq Nat /\ IsFiniteSet(PurchaseIds)
  /\ Scripts \subseteq Seq(Jobs) \ {<<>>}
  /\ Written \subseteq Bodies /\ NoBody \notin Bodies
  /\ InitialMeta \in {NoTable, [model |-> NoRow, dim |-> NoRow, source |-> NoRow]}
  /\ Loads \subseteq [reviews: Reviews, products: ProductRows]
  /\ Dim \in [Models -> Nat] /\ ServerModels \subseteq Models
  /\ \A m \in Models, b \in Bodies : Len(Split[m][b]) > 0
  /\ NoRow \notin ReviewRow \cup Details \cup Models

VARIABLES
  reviews, product,   \* committed rows that the jobs read
  chunks,             \* (purchase_id, chunk_index) -> piece, or NoTable
  chunk_vectors,      \* dim, and each chunk's vector and source_hash, or NoTable
  embedding_meta,     \* the rows model, dim and source, or NoTable
  product_vectors, customer_vectors,
  server,             \* "down", or what check_freshness said at its start
  pc,                 \* where each shell is
  script, ran,        \* the jobs it has still to run, and all it was given
  using,              \* its EMBED_MODEL
  hand                \* what its transaction has read

source == <<reviews, product>>
index == <<chunks, chunk_vectors, embedding_meta, product_vectors, customer_vectors>>
shell == <<pc, script, ran, using, hand>>
vars == <<source, index, server, shell>>

NoHand == [todo |-> {}]

Resting == {"idle", "failed"}
Chunking == {"cut", "no_vectors", "vectors_locked", "replaced"}
Embedding == {"chunks_read", "compared", "recreated", "updated", "filled"}
Recommending == {"compared_products", "products_built", "averaged"}

Ids(pieces) == DOMAIN pieces

(* Mutant: source_hash of the text alone.                                  *)
MarkWithoutModel(m, text) == <<"any", text>>

(* fingerprint: source_hash of the model and the text.                     *)
Mark(m, text) == <<m, text>>

(* The vector a model makes of a text, with the mark it is stored under.   *)
Embedded(m, text) == [vector |-> <<m, text>>, source_hash |-> Mark(m, text)]

(* chunk_fingerprint, and what embed.py stores under source.               *)
Fingerprint(pieces) ==
  <<Cardinality(Ids(pieces)),
    MapThenSumSet(LAMBDA id : id[1], Ids(pieces)),
    MapThenSumSet(LAMBDA id : Tokens[pieces[id]], Ids(pieces))>>

(* check_freshness.                                                        *)
Problems(m) ==
  {key \in {"model", "dim", "source"} :
     embedding_meta[key] # CASE key = "model" -> m
                            [] key = "dim" -> Dim[m]
                            [] key = "source" -> Fingerprint(chunks)}

(* Mutant: INDEX_FILTER without r.is_holdout = 0.                          *)
AnyReview(row) == row # NoRow /\ row.body # NoBody

(* INDEX_FILTER.                                                           *)
Indexable(row) == row # NoRow /\ row.body # NoBody /\ ~row.is_holdout

(* split_reviews of the rows that FETCH_SQL reads.                         *)
Cut(rows, m) ==
  LET pieces(p) == Split[m][rows[p].body]
  IN  [id \in UNION {{p} \X (1..Len(pieces(p))) : p \in {q \in PurchaseIds : Indexable(rows[q])}}
         |-> pieces(id[1])[id[2]]]

(* What chunk.py can make, and what embed.py makes of it from nothing.     *)
ChunkTables == {c \in {Cut(rows, m) : rows \in Reviews, m \in Models} : Ids(c) # {}}

VectorsOf(m, pieces) ==
  [dim |-> Dim[m], rows |-> [id \in Ids(pieces) |-> Embedded(m, pieces[id])]]

MetaOf(m, pieces) == [model |-> m, dim |-> Dim[m], source |-> Fingerprint(pieces)]

ASSUME IndexTablesOK ==
  \A m \in Models, c \in ChunkTables : NoTable \notin {VectorsOf(m, c), MetaOf(m, c)}

(* The latest reviewed purchase of every member.                           *)
Latest ==
  LET reviewed == {p \in PurchaseIds : reviews[p] # NoRow /\ reviews[p].body # NoBody}
  IN  {p \in reviewed : \A q \in reviewed : Buyer[q] = Buyer[p] => q <= p}

-----------------------------------------------------------------------------
(* Which table locks a transaction holds: reading takes a shared one,      *)
(* DROP, CREATE and the new foreign key an exclusive one, to the COMMIT.   *)
ReadsRows(s) ==
  pc[s] \in {"marked"} \cup Chunking \cup Recommending

(* Mutant: embed.py reads the chunks in a transaction of its own.          *)
ReadsChunksAlone(s) == FALSE

ReadsChunks(s) == pc[s] \in Embedding

RewritesChunks(s) == pc[s] = "replaced"

ReadsVectors(s) == pc[s] \in {"compared", "updated", "averaged"}

UpdatesVectors(s) == pc[s] = "updated" /\ hand[s].todo # {}

RewritesVectors(s) ==
  \/ pc[s] \in {"vectors_locked", "recreated", "filled"}
  \/ pc[s] = "replaced" /\ chunk_vectors # NoTable

ReadsProducts(s) == pc[s] \in Recommending

UpdatesProducts(s) == pc[s] \in {"products_built", "averaged"} /\ hand[s].todo # {}

RecreatesProducts(s) == pc[s] \in {"products_built", "averaged"} /\ hand[s].fresh

(* known_product_hashes: no table, or its first vector has another         *)
(* dimension; of an empty table the dimension is not noticed.              *)
MustRecreateProducts(m) ==
  \/ product_vectors = NoTable
  \/ DOMAIN product_vectors.rows # {} /\ product_vectors.dim # Dim[m]

(* The hashes that sync compares with: none with --full.                   *)
Known(s) ==
  IF Head(script[s]) = "embed_full" \/ chunk_vectors = NoTable
  THEN <<>>
  ELSE chunk_vectors.rows

(* The shells whose transactions the next statement of s waits for.        *)
WaitsFor(s) ==
  {t \in Shells \ {s} :
     CASE pc[s] = "next" ->
            \/ Head(script[s]) = "load" /\ ReadsRows(t)
            \/ Head(script[s]) = "holdout" /\ pc[t] = "marked"
            \/ Head(script[s]) \in {"embed", "embed_full"} /\ RewritesChunks(t)
            \/ Head(script[s]) = "vectors" /\ product_vectors # NoTable /\ RecreatesProducts(t)
       [] pc[s] = "cut" ->
            chunk_vectors # NoTable /\ (ReadsVectors(t) \/ RewritesVectors(t))
       [] pc[s] \in {"no_vectors", "vectors_locked"} -> ReadsChunks(t) \/ RewritesChunks(t)
       [] pc[s] = "chunks_read" ->
            RewritesVectors(t) \/ (Known(s) = <<>> /\ ReadsVectors(t))
       [] pc[s] = "compared" -> hand[s].todo # {} /\ UpdatesVectors(t)
       [] pc[s] = "compared_products" ->
            \/ hand[s].todo # {} /\ UpdatesProducts(t)
            \/ hand[s].fresh /\ product_vectors # NoTable /\ ReadsProducts(t)
            \/ hand[s].fresh /\ RecreatesProducts(t)
       [] pc[s] = "products_built" -> RewritesVectors(t) \/ pc[t] = "averaged"
       [] OTHER -> FALSE}

-----------------------------------------------------------------------------
Init ==
  /\ \E load \in Loads : reviews = load.reviews /\ product = load.products
  /\ chunks = NoTable
  /\ chunk_vectors = NoTable
  /\ embedding_meta = InitialMeta
  /\ product_vectors = NoTable
  /\ customer_vectors = NoTable
  /\ server = "down"
  /\ pc = [s \in Shells |-> "idle"]
  /\ script = [s \in Shells |-> <<>>]
  /\ ran = [s \in Shells |-> <<>>]
  /\ using = [s \in Shells |-> NoRow]
  /\ hand = [s \in Shells |-> NoHand]

BeginScript(s) ==
  \E jobs \in Scripts, m \in Models :
    /\ pc[s] \in Resting
    /\ pc' = [pc EXCEPT ![s] = "next"]
    /\ script' = [script EXCEPT ![s] = jobs]
    /\ ran' = [ran EXCEPT ![s] = jobs]
    /\ using' = [using EXCEPT ![s] = m]
    /\ UNCHANGED <<source, index, server, hand>>

Job(s, jobs) == pc[s] = "next" /\ Head(script[s]) \in jobs

Go(s, to) ==
  /\ pc' = [pc EXCEPT ![s] = to]
  /\ UNCHANGED <<source, index, server, script, ran, using>>

Step(s, from, to) == pc[s] = from /\ Go(s, to)

(* The shell has nothing to run any more.                                  *)
Rest(s, where) ==
  /\ pc' = [pc EXCEPT ![s] = where]
  /\ script' = [script EXCEPT ![s] = <<>>]
  /\ ran' = [ran EXCEPT ![s] = <<>>]
  /\ using' = [using EXCEPT ![s] = NoRow]
  /\ hand' = [hand EXCEPT ![s] = NoHand]

(* The transaction is committed, and the next job of the script is started.*)
Finish(s) ==
  /\ UNCHANGED server
  /\ \/ Len(script[s]) = 1 /\ Rest(s, "idle")
     \/ /\ Len(script[s]) > 1
        /\ pc' = [pc EXCEPT ![s] = "next"]
        /\ script' = [script EXCEPT ![s] = Tail(@)]
        /\ hand' = [hand EXCEPT ![s] = NoHand]
        /\ UNCHANGED <<ran, using>>

(* The job ends with an exception, which rolls its transaction back, and   *)
(* the script is not continued.                                            *)
Abort(s) ==
  /\ Rest(s, "failed")
  /\ UNCHANGED <<source, index, server>>

-----------------------------------------------------------------------------
(* load_csv: DROP and CREATE lock every table of app/models but those of   *)
(* models/chunk.py, which is not imported there.                           *)
Load(s) ==
  /\ Job(s, {"load"})
  /\ WaitsFor(s) = {}
  /\ \E load \in Loads : reviews' = load.reviews /\ product' = load.products
  /\ Finish(s)
  /\ UNCHANGED index

(* mark_holdout: everything back to 0, then the latest of each member.     *)
MarkHoldout(s) ==
  /\ Job(s, {"holdout"})
  /\ WaitsFor(s) = {}
  /\ Go(s, "marked")
  /\ hand' = [hand EXCEPT ![s] = [todo |-> Latest]]

(* Mutant: the marks of the last time are kept.                            *)
AddsMarks(s) ==
  /\ pc[s] = "marked"
  /\ reviews' = [p \in PurchaseIds |->
       IF p \in hand[s].todo THEN [reviews[p] EXCEPT !.is_holdout = TRUE] ELSE reviews[p]]
  /\ Finish(s)
  /\ UNCHANGED <<product, index>>

CommitHoldout(s) ==
  /\ pc[s] = "marked"
  /\ reviews' = [p \in PurchaseIds |->
       IF reviews[p] = NoRow THEN NoRow
       ELSE [reviews[p] EXCEPT !.is_holdout = p \in hand[s].todo]]
  /\ Finish(s)
  /\ UNCHANGED <<product, index>>

(* chunk.py reads and cuts; it exits when there is nothing to cut.         *)
FetchRows(s) ==
  /\ Job(s, {"chunk"})
  /\ \/ Ids(Cut(reviews, using[s])) = {} /\ Abort(s)
     \/ /\ Ids(Cut(reviews, using[s])) # {}
        /\ Go(s, "cut")
        /\ hand' = [hand EXCEPT ![s] = [todo |-> {}, pieces |-> Cut(reviews, using[s])]]

(* save_chunks: DROP chunk_vectors, if it is there, locks chunk_vectors and *)
(* then, for the foreign key, chunks, which the DROP of chunks locks too:  *)
(* "vectors_locked" has the first lock and waits for the second.           *)
DropVectors(s) ==
  /\ WaitsFor(s) = {}
  /\ Step(s, "cut", IF chunk_vectors = NoTable THEN "no_vectors" ELSE "vectors_locked")
  /\ UNCHANGED hand

(* save_chunks: DROP and CREATE chunks; vectors that have come meanwhile   *)
(* refer to them and stop the DROP.                                        *)
ReplaceChunks(s) ==
  /\ pc[s] \in {"no_vectors", "vectors_locked"}
  /\ WaitsFor(s) = {}
  /\ \/ pc[s] = "no_vectors" /\ chunk_vectors # NoTable /\ Abort(s)
     \/ /\ pc[s] = "no_vectors" => chunk_vectors = NoTable
        /\ Go(s, "replaced")
        /\ UNCHANGED hand

(* Mutant: DROP TABLE chunks CASCADE, which leaves the vectors.            *)
KeepsVectors(s) ==
  /\ pc[s] = "replaced"
  /\ chunks' = hand[s].pieces
  /\ Finish(s)
  /\ UNCHANGED <<source, chunk_vectors, embedding_meta, product_vectors, customer_vectors>>

CommitChunk(s) ==
  /\ pc[s] = "replaced"
  /\ chunks' = hand[s].pieces
  /\ chunk_vectors' = NoTable
  /\ Finish(s)
  /\ UNCHANGED <<source, embedding_meta, product_vectors, customer_vectors>>

-----------------------------------------------------------------------------
ReadChunks(s) ==
  /\ Job(s, {"embed", "embed_full"})
  /\ WaitsFor(s) = {}
  /\ \/ chunks = NoTable /\ Abort(s)
     \/ /\ chunks # NoTable
        /\ Go(s, "chunks_read")
        /\ hand' = [hand EXCEPT ![s] = [todo |-> {}, pieces |-> chunks]]

(* The chunks whose stored mark is not that of this text and model.        *)
Changed(pieces, rows, m) ==
  {id \in Ids(pieces) :
     id \in DOMAIN rows => rows[id].source_hash # Mark(m, pieces[id])}

(* sync, with vectors to start from: what has to be embedded?              *)
Compare(s) ==
  /\ pc[s] = "chunks_read"
  /\ Known(s) # <<>>
  /\ WaitsFor(s) = {}
  /\ Go(s, "compared")
  /\ hand' = [hand EXCEPT ![s].todo = Changed(hand[s].pieces, Known(s), using[s])]

(* sync, with none (the first time, after chunk.py, or --full): recreate.  *)
Recreate(s) ==
  /\ pc[s] = "chunks_read"
  /\ Known(s) = <<>>
  /\ WaitsFor(s) = {}
  /\ \/ embedding_meta = NoTable /\ Abort(s)
     \/ /\ embedding_meta # NoTable
        /\ Go(s, "recreated")
        /\ hand' = [hand EXCEPT ![s].todo = Ids(hand[s].pieces)]

(* Mutant: vectors that do not fit the column are compared and made again. *)
TriesAgain(s) ==
  \/ /\ Step(s, "compared", "updated")
     /\ hand[s].todo # {} => chunk_vectors.dim = Dim[using[s]]
     /\ WaitsFor(s) = {}
     /\ UNCHANGED hand
  \/ /\ Step(s, "compared", "chunks_read")
     /\ hand[s].todo # {} /\ chunk_vectors.dim # Dim[using[s]]
     /\ UNCHANGED hand
  \/ Step(s, "recreated", "filled") /\ UNCHANGED hand

(* sync, after the model has answered: upsert.  The column of a table that *)
(* was not recreated takes vectors of its own dimension only.              *)
Upsert(s) ==
  \/ /\ Step(s, "compared", "updated")
     /\ hand[s].todo # {} => chunk_vectors.dim = Dim[using[s]]
     /\ WaitsFor(s) = {}
     /\ UNCHANGED hand
  \/ /\ pc[s] = "compared"
     /\ hand[s].todo # {} /\ chunk_vectors.dim # Dim[using[s]]
     /\ Abort(s)
  \/ Step(s, "recreated", "filled") /\ UNCHANGED hand

(* The vectors after the upsert and the delete of chunks that are gone.    *)
NewRows(s, old) ==
  [id \in (DOMAIN old \cap Ids(hand[s].pieces)) \cup hand[s].todo |->
     IF id \in hand[s].todo THEN Embedded(using[s], hand[s].pieces[id]) ELSE old[id]]

(* Mutant: the fingerprint of the chunks that were embedded this time.     *)
MetaOfTodo(s) ==
  [model |-> IF hand[s].todo # {} THEN using[s] ELSE embedding_meta.model,
   dim |-> IF pc[s] = "filled" THEN Dim[using[s]] ELSE embedding_meta.dim,
   source |-> Fingerprint([id \in hand[s].todo |-> hand[s].pieces[id]])]

(* recreate writes model and dim, upsert model, and embed.py source.       *)
NewMeta(s) ==
  [model |-> IF hand[s].todo # {} THEN using[s] ELSE embedding_meta.model,
   dim |-> IF pc[s] = "filled" THEN Dim[using[s]] ELSE embedding_meta.dim,
   source |-> Fingerprint(hand[s].pieces)]

CommitEmbed(s) ==
  /\ pc[s] \in {"updated", "filled"}
  /\ chunk_vectors' =
       IF pc[s] = "filled"
       THEN [dim |-> Dim[using[s]], rows |-> NewRows(s, <<>>)]
       ELSE [chunk_vectors EXCEPT !.rows = NewRows(s, @)]
  /\ embedding_meta' = NewMeta(s)
  /\ Finish(s)
  /\ UNCHANGED <<source, chunks, product_vectors, customer_vectors>>

-----------------------------------------------------------------------------
(* build_product_vectors reads the products and compares their marks.      *)
CompareProducts(s) ==
  /\ Job(s, {"vectors"})
  /\ WaitsFor(s) = {}
  /\ Go(s, "compared_products")
  /\ LET texts == [p \in {q \in Products : product[q] # NoRow} |-> product[p]]
         fresh == MustRecreateProducts(using[s])
         known == IF fresh THEN <<>> ELSE product_vectors.rows
     IN  hand' = [hand EXCEPT ![s] =
           [todo |-> Changed(texts, known, using[s]), pieces |-> texts,
            fresh |-> fresh, customers |-> <<>>]]

(* build_product_vectors, the recreate and the upsert, which fails on a    *)
(* column of another dimension.                                            *)
BuildProducts(s) ==
  LET misfit == ~hand[s].fresh /\ hand[s].todo # {} /\ product_vectors.dim # Dim[using[s]]
  IN  /\ pc[s] = "compared_products"
      /\ WaitsFor(s) = {}
      /\ \/ ~misfit /\ Go(s, "products_built") /\ UNCHANGED hand
         \/ misfit /\ Abort(s)

(* build_customer_vectors: the members and the purchases behind each mean. *)
(* The table is made anew for the dimension of this model, and means of    *)
(* vectors of another one do not fit it.                                   *)
Average(s) ==
  LET shown == {p \in PurchaseIds :
                  /\ reviews[p] # NoRow /\ ~reviews[p].is_holdout
                  /\ \E id \in DOMAIN chunk_vectors.rows : id[1] = p}
      misfit == shown # {} /\ chunk_vectors.dim # Dim[using[s]]
  IN  /\ pc[s] = "products_built"
      /\ WaitsFor(s) = {}
      /\ \/ chunk_vectors = NoTable /\ Abort(s)
         \/ chunk_vectors # NoTable /\ misfit /\ Abort(s)
         \/ /\ chunk_vectors # NoTable /\ ~misfit
            /\ Go(s, "averaged")
            /\ hand' = [hand EXCEPT ![s].customers =
                 [u \in {Buyer[p] : p \in shown} |-> {p \in shown : Buyer[p] = u}]]

CommitVectors(s) ==
  /\ pc[s] = "averaged"
  /\ product_vectors' =
       IF hand[s].fresh
       THEN [dim |-> Dim[using[s]], rows |-> NewRows(s, <<>>)]
       ELSE [product_vectors EXCEPT !.rows = NewRows(s, @)]
  /\ customer_vectors' = hand[s].customers
  /\ Finish(s)
  /\ UNCHANGED <<source, chunks, chunk_vectors, embedding_meta>>

-----------------------------------------------------------------------------
Fail(s) == pc[s] \notin Resting /\ Abort(s)

(* The deadlock detector ends one of the jobs that wait for each other.    *)
DeadlockVictim(s) ==
  /\ \E S \in SUBSET Shells : s \in S /\ \A t \in S : WaitsFor(t) \cap S # {}
  /\ Abort(s)

(* create_review.                                                          *)
WriteReview(p, body) ==
  /\ reviews[p] = NoRow
  /\ reviews' = [reviews EXCEPT ![p] = [body |-> body, is_holdout |-> FALSE]]
  /\ UNCHANGED <<product, index, server, shell>>

(* The administrator's PATCH of a product.                                 *)
UpdateProduct(p, details) ==
  /\ product[p] # NoRow
  /\ product' = [product EXCEPT ![p] = details]
  /\ UNCHANGED <<reviews, index, server, shell>>

(* lifespan: check_freshness runs once; without its tables it raises.      *)
StartServer(m) ==
  /\ server = "down"
  /\ embedding_meta # NoTable /\ chunks # NoTable
  /\ \A s \in Shells : ~RewritesChunks(s)
  /\ server' = IF Problems(m) = {} THEN "quiet" ELSE "warned"
  /\ UNCHANGED <<source, index, shell>>

StopServer ==
  /\ server # "down"
  /\ server' = "down"
  /\ UNCHANGED <<source, index, shell>>

(* The statements that may wait for another transaction.                   *)
Waiting(s) ==
  \/ Load(s) \/ MarkHoldout(s) \/ DropVectors(s) \/ ReplaceChunks(s)
  \/ ReadChunks(s) \/ Compare(s) \/ Recreate(s) \/ Upsert(s)
  \/ CompareProducts(s) \/ BuildProducts(s) \/ Average(s)

Proceed(s) ==
  \/ CommitHoldout(s) \/ FetchRows(s) \/ CommitChunk(s)
  \/ CommitEmbed(s) \/ CommitVectors(s)

Next ==
  \/ \E s \in Shells :
       BeginScript(s) \/ Waiting(s) \/ Proceed(s) \/ Fail(s) \/ DeadlockVictim(s)
  \/ \E p \in PurchaseIds, body \in Written : WriteReview(p, body)
  \/ \E p \in Products, details \in Details : UpdateProduct(p, details)
  \/ \E m \in ServerModels : StartServer(m) \/ StopServer

Spec == Init /\ [][Next]_vars

(* A job is not paused for ever, the database hands locks on to those who  *)
(* wait, and its deadlock detector runs.                                   *)
Fairness ==
  \A s \in Shells :
    /\ WF_vars(Proceed(s))
    /\ SF_vars(Waiting(s))
    /\ WF_vars(DeadlockVictim(s))

FairSpec == Spec /\ Fairness

-----------------------------------------------------------------------------
(* A table of vectors: its dimension and what is stored for each key.      *)
IsVectorTable(table, keys) ==
  /\ table.dim \in {Dim[m] : m \in Models}
  /\ DOMAIN table.rows \subseteq keys
  /\ \A k \in DOMAIN table.rows : table.rows[k].vector[1] \in Models

(* Every shell that is not resting runs a job with a model.                *)
ShellsOK ==
  /\ pc \in [Shells -> Resting \cup {"next", "marked"} \cup Chunking \cup Embedding
                        \cup Recommending]
  /\ script \in [Shells -> Seq(Jobs)]
  /\ using \in [Shells -> Models \cup {NoRow}]
  /\ DOMAIN ran = Shells /\ DOMAIN hand = Shells
  /\ \A s \in Shells : /\ pc[s] \in Resting <=> script[s] = <<>>
                       /\ pc[s] \notin Resting => using[s] \in Models

(* The tables and jobs have the shape the schema and the code give them.   *)
TypeOK ==
  /\ reviews \in Reviews /\ product \in ProductRows
  /\ chunks # NoTable => \A id \in Ids(chunks) : id[1] \in PurchaseIds /\ id[2] > 0
  /\ chunk_vectors # NoTable => IsVectorTable(chunk_vectors, Ids(chunks))
  /\ embedding_meta # NoTable => embedding_meta.model \in Models \cup {NoRow}
  /\ product_vectors # NoTable => IsVectorTable(product_vectors, Products)
  /\ customer_vectors # NoTable =>
       \A u \in DOMAIN customer_vectors :
         customer_vectors[u] \subseteq {p \in PurchaseIds : Buyer[p] = u}
  /\ server \in {"down", "quiet", "warned"}
  /\ ShellsOK

(* Search joins chunk_vectors with chunks by key and compares distances:   *)
(* whatever jobs overlap, change the model or fail half way, every vector  *)
(* that can be searched is of the text its chunk has now, and all of them  *)
(* are of the one model and dimension that embedding_meta names.           *)
VectorsMatchChunks ==
  chunk_vectors # NoTable =>
    /\ chunks # NoTable /\ embedding_meta # NoTable
    /\ DOMAIN chunk_vectors.rows = Ids(chunks)
    /\ chunk_vectors.dim = Dim[embedding_meta.model]
    /\ \A id \in Ids(chunks) :
         chunk_vectors.rows[id].vector = <<embedding_meta.model, chunks[id]>>

(* check_freshness: a server with the model of the index is not warned     *)
(* about an index that is there, because every job that changes the chunks *)
(* or the vectors leaves embedding_meta in step.                           *)
NoFalseAlarm ==
  chunk_vectors # NoTable => Problems(embedding_meta.model) = {}

(* What keeps both.  The index is what embed.py makes of the chunks from   *)
(* nothing, with one model, whichever way it has got there.                *)
IndexMade ==
  chunk_vectors # NoTable =>
    /\ chunks # NoTable
    /\ \E m \in Models :
         embedding_meta = MetaOf(m, chunks) /\ chunk_vectors = VectorsOf(m, chunks)

(* The tables that the jobs have locked: nobody rewrites what another      *)
(* reads or rewrites.                                                      *)
LocksAgree(s, t) ==
  /\ RewritesChunks(s) => ~ReadsChunks(t) /\ ~RewritesChunks(t)
  /\ RewritesVectors(s) => ~ReadsVectors(t) /\ ~RewritesVectors(t)

(* A job has in hand what is still in the tables that it has locked.  All  *)
(* of the chunks have to be embedded, or none.                             *)
HandInStep(s) ==
  /\ pc[s] \in Chunking => hand[s].pieces \in ChunkTables
  /\ pc[s] \in Embedding =>
       chunks # NoTable /\ hand[s] = [todo |-> hand[s].todo, pieces |-> chunks]
  /\ pc[s] \in {"recreated", "filled"} => hand[s].todo = Ids(chunks)
  /\ pc[s] \in {"compared", "updated"} =>
       chunk_vectors # NoTable /\ hand[s].todo \in {{}, Ids(chunks)}
  /\ pc[s] = "updated" /\ hand[s].todo # {} => chunk_vectors.dim = Dim[using[s]]

(* The tables of product_vectors that the job can add to.                  *)
TakesProducts(table) ==
  IsVectorTable(table, Products) /\ DOMAIN table = {"dim", "rows"}

(* The same of the products and the customers.                             *)
ProductsInStep(s) ==
  pc[s] \in Recommending =>
    /\ hand[s] = [todo |-> hand[s].todo, pieces |-> hand[s].pieces,
                  fresh |-> hand[s].fresh, customers |-> hand[s].customers]
    /\ Ids(hand[s].pieces) \subseteq Products /\ hand[s].todo \subseteq Ids(hand[s].pieces)
    /\ ~hand[s].fresh => TakesProducts(product_vectors)
    /\ pc[s] = "averaged" =>
         \A u \in DOMAIN hand[s].customers :
           hand[s].customers[u] \subseteq {p \in PurchaseIds : Buyer[p] = u}

IInv ==
  /\ TypeOK
  /\ chunks # NoTable => chunks \in ChunkTables
  /\ IndexMade
  /\ product_vectors # NoTable => TakesProducts(product_vectors)
  /\ \A s, t \in Shells : s # t => LocksAgree(s, t)
  /\ \A s \in Shells : HandInStep(s) /\ ProductsInStep(s)

UpToDate(rows, m, texts) ==
  /\ DOMAIN rows = Ids(texts)
  /\ \A key \in Ids(texts) : rows[key].vector = <<m, texts[key]>>

Committed(s) == pc'[s] \in {"next", "idle"}

(* Incremental embedding skips what has the right mark: after embed.py and *)
(* after prep_rec.py every chunk and every product has the vector of its   *)
(* present text and of the model it was run with, and nothing else has one.*)
JobsCatchUp ==
  [][\A s \in Shells :
       /\ pc[s] \in {"updated", "filled"} /\ Committed(s)
            => UpToDate(chunk_vectors'.rows, using[s], chunks')
       /\ pc[s] = "averaged" /\ Committed(s)
            => UpToDate(product_vectors'.rows, using[s], hand[s].pieces)]_vars

Documented == <<"holdout", "chunk", "embed", "vectors">>

(* prep_rec.py: the reviews set aside are not to be seen by the index.     *)
NothingHeldOutIsIndexed ==
  \A p \in PurchaseIds : reviews[p] # NoRow /\ reviews[p].is_holdout =>
    /\ \A id \in DOMAIN chunk_vectors.rows : id[1] # p
    /\ \A u \in DOMAIN customer_vectors : p \notin customer_vectors[u]

(* The order that prep_rec.py documents, run from one shell while members  *)
(* write reviews, keeps every review that is set aside out of the vectors, *)
(* whatever was there before and whichever attempts failed.                *)
DocumentedOrderHidesHoldout ==
  [][\A s \in Shells :
       pc[s] = "averaged" /\ Committed(s) /\ ran[s] = Documented
         => NothingHeldOutIsIndexed']_vars

(* Jobs that wait for each other's tables (chunk drops what embed reads,   *)
(* embed refers to what chunk drops) do not wait for ever.                 *)
ScriptsEnd == \A s \in Shells : pc[s] \notin Resting ~> pc[s] \in Resting

-----------------------------------------------------------------------------
(* "load_csv.py 재실행 후 재색인을 잊으면 ... 알리기만 하고 막지는 않는다": a    *)
(* server that starts without a warning has chunks of the reviews that are *)
(* in the database.                                                        *)
QuietMeansCurrent ==
  [][server = "down" /\ server' = "quiet" =>
       \A id \in Ids(chunks) :
         /\ reviews[id[1]] # NoRow /\ reviews[id[1]].body # NoBody
         /\ \E m \in Models : \E k \in 1..Len(Split[m][reviews[id[1]].body]) :
              Split[m][reviews[id[1]].body][k] = chunks[id]]_vars
=============================================================================
