------------------------ MODULE IndexPipelineProofs -------------------------
(***************************************************************************)
(* IndexPipeline, for every number of shells, reviews, models and scripts: *)
(* the index is what embed.py makes of the present chunks from nothing.    *)
(* For one shell: jobs catch up with the texts, and the documented order   *)
(* keeps the reviews that are set aside out of the vectors.  Verify: a     *)
(* check that has passed leaves a new server nothing to warn about.        *)
(***************************************************************************)
EXTENDS Verify, SequenceTheorems, TLAPS

Places == Resting \cup {"next", "marked"} \cup Chunking \cup Embedding \cup Recommending

(* Only shell s moves.                                                     *)
OthersWait(s) ==
  \A t \in Shells : t # s => pc'[t] = pc[t] /\ hand'[t] = hand[t] /\ using'[t] = using[t]

(* The chunks that chunk.py cuts are numbered pieces of reviews.           *)
LEMMA ChunksAreNumbered ==
  ASSUME NEW c \in ChunkTables, NEW id \in Ids(c)
  PROVE  id[1] \in PurchaseIds /\ id[2] > 0
<1>1. PICK rows \in Reviews, m \in Models : c = Cut(rows, m)
  BY DEF ChunkTables
<1>2. Ids(c) = UNION {{p} \X (1..Len(Split[m][rows[p].body])) :
                        p \in {q \in PurchaseIds : Indexable(rows[q])}}
  BY <1>1 DEF Cut, Ids
<1>3. PICK p \in PurchaseIds : id \in {p} \X (1..Len(Split[m][rows[p].body]))
  BY <1>2
<1> QED BY <1>3

(* The vectors of another model all have to be made again, the vectors of  *)
(* this model not one.                                                     *)
LEMMA AllOrNothing ==
  ASSUME NEW m, NEW n, NEW c
  PROVE  Changed(c, VectorsOf(m, c).rows, n) = IF m = n THEN {} ELSE Ids(c)
BY DEF Changed, VectorsOf, Embedded, Mark, Ids

(* What a job has made of all chunks, or left as it is, is the whole index.*)
LEMMA RowsMade ==
  ASSUME NEW s \in Shells, NEW m
  PROVE  LET c == hand[s].pieces
         IN  /\ hand[s].todo = Ids(c) => NewRows(s, VectorsOf(m, c).rows) = VectorsOf(using[s], c).rows
             /\ hand[s].todo = Ids(c) => NewRows(s, <<>>) = VectorsOf(using[s], c).rows
             /\ hand[s].todo = {} => NewRows(s, VectorsOf(m, c).rows) = VectorsOf(m, c).rows
<1> DEFINE c == hand[s].pieces
           todo == hand[s].todo
<1>1. DOMAIN VectorsOf(m, c).rows = Ids(c)
  BY DEF VectorsOf
<1>2. DOMAIN <<>> = {}
  OBVIOUS
<1>3. ASSUME todo = Ids(c), NEW old
      PROVE  NewRows(s, old) = VectorsOf(using[s], c).rows
  <2>1. (DOMAIN old \cap Ids(c)) \cup todo = Ids(c)
    BY <1>3
  <2> QED BY <1>3, <2>1 DEF NewRows, VectorsOf
<1>4. ASSUME todo = {} PROVE NewRows(s, VectorsOf(m, c).rows) = VectorsOf(m, c).rows
  <2>1. (DOMAIN VectorsOf(m, c).rows \cap Ids(c)) \cup todo = Ids(c)
    BY <1>1, <1>4
  <2> QED BY <1>4, <2>1 DEF NewRows, VectorsOf
<1> QED BY <1>3, <1>4

-----------------------------------------------------------------------------
(* A shell goes on within its job.                                         *)
LEMMA GoTypes ==
  ASSUME ShellsOK, NEW s \in Shells, NEW to \in Places \ Resting, Go(s, to),
         pc[s] \notin Resting, DOMAIN hand' = Shells
  PROVE  /\ ShellsOK'
         /\ pc'[s] = to /\ using' = using
         /\ \A t \in Shells : t # s => pc'[t] = pc[t]
<1>1. /\ pc' = [pc EXCEPT ![s] = to] /\ pc \in [Shells -> Places]
      /\ UNCHANGED <<script, ran, using>>
  BY DEF Go, ShellsOK, Places
<1>2. /\ pc' \in [Shells -> Places] /\ pc'[s] = to
      /\ \A t \in Shells : t # s => pc'[t] = pc[t]
  BY <1>1
<1> QED BY <1>1, <1>2 DEF ShellsOK, Places

(* A shell has ended its last job, or lost it.                             *)
LEMMA RestTypes ==
  ASSUME ShellsOK, NEW s \in Shells, NEW where \in Resting, Rest(s, where)
  PROVE  ShellsOK' /\ pc'[s] = where /\ OthersWait(s)
<1>1. /\ pc' = [pc EXCEPT ![s] = where] /\ script' = [script EXCEPT ![s] = <<>>]
      /\ using' = [using EXCEPT ![s] = NoRow] /\ DOMAIN ran' = Shells
      /\ hand' = [hand EXCEPT ![s] = NoHand] /\ DOMAIN hand' = Shells
      /\ pc \in [Shells -> Places] /\ where \in Places
  BY DEF Rest, ShellsOK, Places
<1>2. /\ pc' \in [Shells -> Places] /\ pc'[s] = where /\ script'[s] = <<>>
      /\ script' \in [Shells -> Seq(Jobs)] /\ using' \in [Shells -> Models \cup {NoRow}]
      /\ \A t \in Shells : t # s => pc'[t] = pc[t] /\ script'[t] = script[t] /\ using'[t] = using[t]
  BY <1>1 DEF ShellsOK
<1>3. OthersWait(s)
  BY <1>1, <1>2 DEF OthersWait, ShellsOK
<1> QED BY <1>1, <1>2, <1>3 DEF ShellsOK, Places

(* The jobs that are left when one of several is done.                     *)
LEMMA OneLess ==
  ASSUME NEW n \in Nat, n > 1
  PROVE  n - 1 # 0
OBVIOUS

(* A shell has committed, and starts its next job if it has one.           *)
LEMMA FinishTypes ==
  ASSUME ShellsOK, NEW s \in Shells, Finish(s), pc[s] \notin Resting
  PROVE  ShellsOK' /\ pc'[s] \in {"idle", "next"} /\ OthersWait(s) /\ server' = server
<1>1. CASE Rest(s, "idle")
  BY <1>1, RestTypes DEF Finish, Resting
<1>2. CASE /\ Len(script[s]) > 1
           /\ pc' = [pc EXCEPT ![s] = "next"]
           /\ script' = [script EXCEPT ![s] = Tail(@)]
           /\ hand' = [hand EXCEPT ![s] = NoHand]
           /\ UNCHANGED <<ran, using>>
  <2>1. Tail(script[s]) \in Seq(Jobs) /\ Tail(script[s]) # <<>>
    <3>1. script[s] \in Seq(Jobs) /\ script[s] # <<>>
      BY <1>2 DEF ShellsOK
    <3>2. Tail(script[s]) \in Seq(Jobs) /\ Len(Tail(script[s])) = Len(script[s]) - 1
      BY <3>1, HeadTailProperties
    <3>3. Len(script[s]) \in Nat /\ Len(<<>>) = 0
      BY <3>1, LenProperties
    <3> QED BY <1>2, <3>2, <3>3, OneLess
  <2>2. pc \in [Shells -> Places] /\ "next" \in Places /\ DOMAIN hand = Shells
    BY DEF ShellsOK, Places
  <2>3. /\ pc' \in [Shells -> Places] /\ pc'[s] = "next"
        /\ script' \in [Shells -> Seq(Jobs)] /\ script'[s] # <<>>
        /\ \A t \in Shells : t # s => pc'[t] = pc[t] /\ script'[t] = script[t]
    BY <1>2, <2>1, <2>2 DEF ShellsOK
  <2>4. DOMAIN hand' = Shells /\ OthersWait(s)
    BY <1>2, <2>2, <2>3 DEF OthersWait
  <2>5. "next" \notin Resting
    BY DEF Resting
  <2> QED BY <1>2, <2>3, <2>4, <2>5 DEF ShellsOK, Places, Finish
<1> QED BY <1>1, <1>2 DEF Finish

-----------------------------------------------------------------------------
(* A shell moves, and no table of the index changes: what has to be shown  *)
(* is what the shell now has in hand and which locks it has taken.         *)
LEMMA MoveKeepsIInv ==
  ASSUME IInv, NEW s \in Shells, ShellsOK', OthersWait(s), UNCHANGED index,
         reviews' \in Reviews, product' \in ProductRows, server' \in {"down", "quiet", "warned"},
         HandInStep(s)', ProductsInStep(s)',
         \A t \in Shells : t # s => LocksAgree(s, t)' /\ LocksAgree(t, s)'
  PROVE  IInv'
<1> USE DEF IInv
<1>1. TypeOK'
  BY DEF TypeOK, index, IsVectorTable
<1>2. /\ (chunks # NoTable => chunks \in ChunkTables)'
      /\ (product_vectors # NoTable => TakesProducts(product_vectors))'
  BY DEF index, TakesProducts, IsVectorTable
<1>3. IndexMade'
  BY DEF IndexMade, index
<1>4. ASSUME NEW r \in Shells, NEW t \in Shells, r # t PROVE LocksAgree(r, t)'
  <2>1. CASE r = s \/ t = s
    BY <1>4, <2>1
  <2>2. CASE r # s /\ t # s
    BY <1>4, <2>2 DEF LocksAgree, RewritesChunks, ReadsChunks, RewritesVectors, ReadsVectors,
                      OthersWait, index
  <2> QED BY <2>1, <2>2
<1>5. ASSUME NEW t \in Shells PROVE HandInStep(t)' /\ ProductsInStep(t)'
  <2>1. CASE t = s
    BY <2>1
  <2>2. CASE t # s
    BY <2>2 DEF HandInStep, ProductsInStep, TakesProducts, IsVectorTable, OthersWait, index
  <2> QED BY <2>1, <2>2
<1> QED BY <1>1, <1>2, <1>3, <1>4, <1>5

(* A shell that is between two jobs has nothing in hand and no lock.       *)
LEMMA BetweenJobsKeepsIInv ==
  ASSUME IInv, NEW s \in Shells, ShellsOK', OthersWait(s), UNCHANGED index,
         reviews' \in Reviews, product' \in ProductRows, server' = server,
         pc'[s] \in Resting \cup {"next", "marked"}
  PROVE  IInv'
<1>1. HandInStep(s)' /\ ProductsInStep(s)'
  BY DEF HandInStep, ProductsInStep, Resting, Chunking, Embedding, Recommending
<1>2. \A t \in Shells : LocksAgree(s, t)' /\ LocksAgree(t, s)'
  BY DEF LocksAgree, RewritesChunks, ReadsChunks, RewritesVectors, ReadsVectors, Resting,
         Embedding
<1>3. server' \in {"down", "quiet", "warned"}
  BY DEF IInv, TypeOK
<1> QED BY <1>1, <1>2, <1>3, MoveKeepsIInv

LEMMA AbortKeepsIInv ==
  ASSUME IInv, NEW s \in Shells, Abort(s)
  PROVE  IInv'
<1>1. ShellsOK' /\ pc'[s] = "failed" /\ OthersWait(s)
  BY RestTypes DEF Abort, Resting, IInv, TypeOK
<1> QED BY <1>1, BetweenJobsKeepsIInv DEF Abort, source, IInv, TypeOK, Resting

LEMMA BeginScriptKeepsIInv ==
  ASSUME IInv, NEW s \in Shells, BeginScript(s)
  PROVE  IInv'
<1>1. PICK jobs \in Scripts, m \in Models :
        /\ pc' = [pc EXCEPT ![s] = "next"]
        /\ script' = [script EXCEPT ![s] = jobs]
        /\ ran' = [ran EXCEPT ![s] = jobs]
        /\ using' = [using EXCEPT ![s] = m]
        /\ UNCHANGED <<source, index, server, hand>>
  BY DEF BeginScript
<1>2. jobs \in Seq(Jobs) /\ jobs # <<>> /\ "next" \notin Resting
  BY IndexConstantsOK DEF Resting
<1>3. ShellsOK
  BY DEF IInv, TypeOK
<1>4. /\ pc \in [Shells -> Places] /\ "next" \in Places /\ script \in [Shells -> Seq(Jobs)]
      /\ using \in [Shells -> Models \cup {NoRow}] /\ DOMAIN ran = Shells /\ DOMAIN hand = Shells
  BY <1>3 DEF ShellsOK, Places
<1>5. /\ pc' \in [Shells -> Places] /\ pc'[s] = "next" /\ script' \in [Shells -> Seq(Jobs)]
      /\ script'[s] = jobs /\ using'[s] = m /\ using' \in [Shells -> Models \cup {NoRow}]
      /\ \A t \in Shells : t # s => pc'[t] = pc[t] /\ script'[t] = script[t] /\ using'[t] = using[t]
  BY <1>1, <1>2, <1>4
<1>6. ShellsOK'
  <2>1. DOMAIN ran' = Shells /\ DOMAIN hand' = Shells
    BY <1>1, <1>4
  <2> QED BY <1>2, <1>3, <1>5, <2>1 DEF ShellsOK, Places
<1> QED BY <1>1, <1>5, <1>6, BetweenJobsKeepsIInv DEF source, IInv, TypeOK, OthersWait

LEMMA LoadKeepsIInv ==
  ASSUME IInv, NEW s \in Shells, Load(s)
  PROVE  IInv'
<1>1. ShellsOK /\ pc[s] \notin Resting
  BY DEF IInv, TypeOK, Load, Job, Resting
<1>2. ShellsOK' /\ pc'[s] \in {"idle", "next"} /\ OthersWait(s) /\ server' = server
  BY <1>1, FinishTypes DEF Load
<1>3. reviews' \in Reviews /\ product' \in ProductRows /\ UNCHANGED index
  BY IndexConstantsOK DEF Load
<1> QED BY <1>2, <1>3, BetweenJobsKeepsIInv DEF Resting

LEMMA MarkHoldoutKeepsIInv ==
  ASSUME IInv, NEW s \in Shells, MarkHoldout(s)
  PROVE  IInv'
<1>1. /\ ShellsOK /\ pc[s] \notin Resting /\ Go(s, "marked")
      /\ hand' = [hand EXCEPT ![s] = [todo |-> Latest]]
  BY DEF IInv, TypeOK, MarkHoldout, Job, Resting
<1>2. DOMAIN hand' = Shells
  BY <1>1 DEF ShellsOK
<1>3. "marked" \in Places \ Resting
  BY DEF Places, Resting
<1>4. /\ ShellsOK' /\ pc'[s] = "marked" /\ using' = using
      /\ \A t \in Shells : t # s => pc'[t] = pc[t]
  BY <1>1, <1>2, <1>3, GoTypes
<1>5. OthersWait(s)
  BY <1>1, <1>4 DEF OthersWait, ShellsOK
<1> QED BY <1>1, <1>4, <1>5, BetweenJobsKeepsIInv DEF Go, source, IInv, TypeOK

LEMMA CommitHoldoutKeepsIInv ==
  ASSUME IInv, NEW s \in Shells, CommitHoldout(s)
  PROVE  IInv'
<1>1. ShellsOK /\ pc[s] \notin Resting
  BY DEF IInv, TypeOK, CommitHoldout, Resting
<1>2. ShellsOK' /\ pc'[s] \in {"idle", "next"} /\ OthersWait(s) /\ server' = server
  BY <1>1, FinishTypes DEF CommitHoldout
<1>3. reviews' \in Reviews
  <2>1. reviews' = [p \in PurchaseIds |->
          IF reviews[p] = NoRow THEN NoRow
          ELSE [reviews[p] EXCEPT !.is_holdout = p \in hand[s].todo]]
    BY DEF CommitHoldout
  <2>2. \A p \in PurchaseIds : reviews[p] # NoRow => reviews[p] \in ReviewRow
    BY DEF IInv, TypeOK, Reviews
  <2>3. \A r \in ReviewRow, b \in BOOLEAN : [r EXCEPT !.is_holdout = b] \in ReviewRow
    BY DEF ReviewRow
  <2>4. \A p \in PurchaseIds : (p \in hand[s].todo) \in BOOLEAN
    OBVIOUS
  <2> QED BY <2>1, <2>2, <2>3, <2>4 DEF Reviews
<1>4. product' \in ProductRows /\ UNCHANGED index
  BY DEF CommitHoldout, IInv, TypeOK
<1> QED BY <1>2, <1>3, <1>4, BetweenJobsKeepsIInv DEF Resting

-----------------------------------------------------------------------------
(* The locks that s takes in this step are free: t has none against them.  *)
LocksFree(s, t) ==
  /\ ReadsChunks(s)' => ReadsChunks(s) \/ ~RewritesChunks(t)
  /\ RewritesChunks(s)' => RewritesChunks(s) \/ (~ReadsChunks(t) /\ ~RewritesChunks(t))
  /\ ReadsVectors(s)' => ReadsVectors(s) \/ ~RewritesVectors(t)
  /\ RewritesVectors(s)' => RewritesVectors(s) \/ (~ReadsVectors(t) /\ ~RewritesVectors(t))

(* A statement of a job: it takes its locks and keeps in hand what it read.*)
LEMMA GoKeepsIInv ==
  ASSUME IInv, NEW s \in Shells, NEW to \in Places \ Resting, Go(s, to), pc[s] \notin Resting,
         DOMAIN hand' = Shells, \A t \in Shells : t # s => hand'[t] = hand[t],
         pc'[s] = to => HandInStep(s)' /\ ProductsInStep(s)',
         pc'[s] = to => \A t \in Shells : t # s => LocksFree(s, t)
  PROVE  IInv'
<1>1. /\ ShellsOK' /\ pc'[s] = to /\ using' = using
      /\ \A t \in Shells : t # s => pc'[t] = pc[t]
  BY GoTypes DEF IInv, TypeOK
<1>2. OthersWait(s)
  BY <1>1 DEF OthersWait
<1>3. /\ UNCHANGED index /\ reviews' \in Reviews /\ product' \in ProductRows
      /\ server' \in {"down", "quiet", "warned"}
  BY DEF Go, source, IInv, TypeOK
<1>4. ASSUME NEW t \in Shells, t # s PROVE LocksAgree(s, t)' /\ LocksAgree(t, s)'
  <2>1. LocksAgree(s, t) /\ LocksAgree(t, s) /\ LocksFree(s, t)
    BY <1>1, <1>4 DEF IInv
  <2>2. /\ ReadsChunks(t)' = ReadsChunks(t) /\ RewritesChunks(t)' = RewritesChunks(t)
        /\ ReadsVectors(t)' = ReadsVectors(t) /\ RewritesVectors(t)' = RewritesVectors(t)
    BY <1>1, <1>3, <1>4 DEF ReadsChunks, RewritesChunks, ReadsVectors, RewritesVectors, index
  <2> QED BY <2>1, <2>2 DEF LocksAgree, LocksFree
<1> QED BY <1>1, <1>2, <1>3, <1>4, MoveKeepsIInv

(* What the statements of s that wait for locks find.                      *)
LEMMA NothingToWaitFor ==
  ASSUME NEW s \in Shells, WaitsFor(s) = {}, NEW t \in Shells, t # s
  PROVE  /\ pc[s] = "next" /\ Head(script[s]) \in {"embed", "embed_full"} => ~RewritesChunks(t)
         /\ pc[s] = "cut" => chunk_vectors = NoTable \/ (~ReadsVectors(t) /\ ~RewritesVectors(t))
         /\ pc[s] \in {"no_vectors", "vectors_locked"} => ~ReadsChunks(t) /\ ~RewritesChunks(t)
         /\ pc[s] = "chunks_read" =>
              ~RewritesVectors(t) /\ (Known(s) = <<>> => ~ReadsVectors(t))
         /\ pc[s] = "products_built" => ~RewritesVectors(t)
<1> DEFINE waits ==
      CASE pc[s] = "next" ->
            \/ Head(script[s]) = "load" /\ ReadsRows(t)
            \/ Head(script[s]) = "holdout" /\ pc[t] = "marked"
            \/ Head(script[s]) \in {"embed", "embed_full"} /\ RewritesChunks(t)
            \/ Head(script[s]) = "vectors" /\ product_vectors # NoTable /\ RecreatesProducts(t)
        [] pc[s] = "cut" ->
             chunk_vectors # NoTable /\ (ReadsVectors(t) \/ RewritesVectors(t))
        [] pc[s] \in {"no_vectors", "vectors_locked"} -> ReadsChunks(t) \/ RewritesChunks(t)
        [] pc[s] = "chunks_read" ->
             RewritesVectors(t) \/ (Known(s) = <<>> /\ ReadsVectors(t))
        [] pc[s] = "compared" -> hand[s].todo # {} /\ UpdatesVectors(t)
        [] pc[s] = "compared_products" ->
             \/ hand[s].todo # {} /\ UpdatesProducts(t)
             \/ hand[s].fresh /\ product_vectors # NoTable /\ ReadsProducts(t)
             \/ hand[s].fresh /\ RecreatesProducts(t)
        [] pc[s] = "products_built" -> RewritesVectors(t) \/ pc[t] = "averaged"
        [] OTHER -> FALSE
<1>1. ~waits
  BY DEF WaitsFor
<1> QED BY <1>1

-----------------------------------------------------------------------------
(* chunk.py.                                                               *)
LEMMA FetchRowsKeepsIInv ==
  ASSUME IInv, NEW s \in Shells, FetchRows(s)
  PROVE  IInv'
<1>1. CASE Abort(s)
  BY <1>1, AbortKeepsIInv
<1>2. CASE ~Abort(s)
  <2> DEFINE cut == Cut(reviews, using[s])
  <2>1. /\ pc[s] = "next" /\ Ids(cut) # {} /\ Go(s, "cut")
        /\ hand' = [hand EXCEPT ![s] = [todo |-> {}, pieces |-> cut]]
    BY <1>2 DEF FetchRows, Job
  <2>2. /\ reviews \in Reviews /\ using[s] \in Models /\ pc[s] \notin Resting
        /\ DOMAIN hand = Shells
    BY <2>1 DEF IInv, TypeOK, ShellsOK, Resting
  <2>3. cut \in ChunkTables
    BY <2>1, <2>2 DEF ChunkTables
  <2>4. hand'[s].pieces = cut /\ DOMAIN hand' = Shells /\ \A t \in Shells : t # s => hand'[t] = hand[t]
    <3> HIDE DEF cut
    <3> QED BY <2>1, <2>2
  <2>5. pc'[s] = "cut" => HandInStep(s)' /\ ProductsInStep(s)'
    BY <2>3, <2>4 DEF HandInStep, ProductsInStep, Chunking, Embedding, Recommending
  <2>6. pc'[s] = "cut" => \A t \in Shells : t # s => LocksFree(s, t)
    BY DEF LocksFree, ReadsChunks, RewritesChunks, ReadsVectors, RewritesVectors, Embedding
  <2>7. "cut" \in Places \ Resting
    BY DEF Places, Resting, Chunking
  <2> QED BY <2>1, <2>2, <2>4, <2>5, <2>6, <2>7, GoKeepsIInv
<1> QED BY <1>1, <1>2

LEMMA DropVectorsKeepsIInv ==
  ASSUME IInv, NEW s \in Shells, DropVectors(s)
  PROVE  IInv'
<1> DEFINE to == IF chunk_vectors = NoTable THEN "no_vectors" ELSE "vectors_locked"
<1>1. pc[s] = "cut" /\ WaitsFor(s) = {} /\ Go(s, to) /\ UNCHANGED hand
  BY DEF DropVectors, Step
<1>2. hand[s].pieces \in ChunkTables /\ pc[s] \notin Resting /\ DOMAIN hand' = Shells
  BY <1>1 DEF IInv, TypeOK, ShellsOK, HandInStep, Chunking, Resting
<1>3. pc'[s] = to => HandInStep(s)' /\ ProductsInStep(s)'
  BY <1>1, <1>2 DEF HandInStep, ProductsInStep, Chunking, Embedding, Recommending
<1>4. ASSUME pc'[s] = to, NEW t \in Shells, t # s PROVE LocksFree(s, t)
  <2>1. UNCHANGED chunk_vectors
    BY <1>1 DEF Go, index
  <2>2. chunk_vectors = NoTable \/ (~ReadsVectors(t) /\ ~RewritesVectors(t))
    BY <1>1, <1>4, NothingToWaitFor
  <2> QED BY <1>4, <2>1, <2>2 DEF LocksFree, ReadsChunks, RewritesChunks, ReadsVectors,
                                  RewritesVectors, Embedding
<1>5. to \in Places \ Resting
  BY DEF Places, Resting, Chunking
<1> QED BY <1>1, <1>2, <1>3, <1>4, <1>5, GoKeepsIInv

LEMMA ReplaceChunksKeepsIInv ==
  ASSUME IInv, NEW s \in Shells, ReplaceChunks(s)
  PROVE  IInv'
<1>1. CASE Abort(s)
  BY <1>1, AbortKeepsIInv
<1>2. CASE ~Abort(s)
  <2>1. /\ pc[s] \in {"no_vectors", "vectors_locked"} /\ WaitsFor(s) = {}
        /\ pc[s] = "no_vectors" => chunk_vectors = NoTable
        /\ Go(s, "replaced") /\ UNCHANGED hand
    BY <1>2 DEF ReplaceChunks
  <2>2. hand[s].pieces \in ChunkTables /\ pc[s] \notin Resting /\ DOMAIN hand' = Shells
    BY <2>1 DEF IInv, TypeOK, ShellsOK, HandInStep, Chunking, Resting
  <2>3. pc'[s] = "replaced" => HandInStep(s)' /\ ProductsInStep(s)'
    BY <2>1, <2>2 DEF HandInStep, ProductsInStep, Chunking, Embedding, Recommending
  <2>4. ASSUME pc'[s] = "replaced", NEW t \in Shells, t # s PROVE LocksFree(s, t)
    <3>1. UNCHANGED chunk_vectors
      BY <2>1 DEF Go, index
    <3>2. ~ReadsChunks(t) /\ ~RewritesChunks(t)
      BY <2>1, <2>4, NothingToWaitFor
    <3> QED BY <2>1, <2>4, <3>1, <3>2 DEF LocksFree, ReadsChunks, RewritesChunks, ReadsVectors,
                                          RewritesVectors, Embedding
  <2>5. "replaced" \in Places \ Resting
    BY DEF Places, Resting, Chunking
  <2> QED BY <2>1, <2>2, <2>3, <2>4, <2>5, GoKeepsIInv
<1> QED BY <1>1, <1>2

(* The COMMIT of chunk.py: new chunks, and no vectors.                     *)
LEMMA CommitChunkKeepsIInv ==
  ASSUME IInv, NEW s \in Shells, CommitChunk(s)
  PROVE  IInv'
<1> USE DEF IInv
<1>1. /\ pc[s] = "replaced" /\ chunks' = hand[s].pieces /\ chunk_vectors' = NoTable
      /\ UNCHANGED <<source, embedding_meta, product_vectors, customer_vectors>>
      /\ Finish(s)
  BY DEF CommitChunk
<1>2. ShellsOK' /\ pc'[s] \in {"idle", "next"} /\ OthersWait(s) /\ server' = server
  BY <1>1, FinishTypes DEF TypeOK, Resting
<1>3. chunks' \in ChunkTables
  BY <1>1 DEF HandInStep, Chunking
<1>4. TypeOK'
  <2>1. \A id \in Ids(chunks') : id[1] \in PurchaseIds /\ id[2] > 0
    BY <1>3, ChunksAreNumbered
  <2> QED BY <1>1, <1>2, <2>1 DEF TypeOK, source, IsVectorTable
<1>5. IndexMade' /\ (product_vectors # NoTable => TakesProducts(product_vectors))'
  BY <1>1 DEF IndexMade, TakesProducts, IsVectorTable
<1>6. \A t \in Shells : t # s => ~ReadsChunks(t) /\ ~RewritesChunks(t)
  BY <1>1 DEF LocksAgree, RewritesChunks
<1>7. ASSUME NEW r \in Shells, NEW t \in Shells, r # t PROVE LocksAgree(r, t)'
  <2>1. LocksAgree(r, t)
    BY <1>7
  <2> QED BY <1>1, <1>2, <1>6, <1>7, <2>1
          DEF LocksAgree, RewritesChunks, ReadsChunks, RewritesVectors, ReadsVectors, OthersWait,
              Embedding
<1>8. ASSUME NEW t \in Shells PROVE HandInStep(t)' /\ ProductsInStep(t)'
  <2>1. CASE t = s
    BY <1>2, <2>1 DEF HandInStep, ProductsInStep, Chunking, Embedding, Recommending
  <2>2. CASE t # s
    <3>1. pc'[t] = pc[t] /\ hand'[t] = hand[t] /\ pc[t] \notin Embedding
      BY <1>2, <1>6, <2>2 DEF OthersWait, ReadsChunks
    <3> QED BY <1>1, <3>1 DEF HandInStep, ProductsInStep, TakesProducts, IsVectorTable,
                              Embedding, Chunking
  <2> QED BY <2>1, <2>2
<1> QED BY <1>3, <1>4, <1>5, <1>7, <1>8

-----------------------------------------------------------------------------
(* embed.py.                                                               *)
LEMMA ReadChunksKeepsIInv ==
  ASSUME IInv, NEW s \in Shells, ReadChunks(s)
  PROVE  IInv'
<1>1. CASE Abort(s)
  BY <1>1, AbortKeepsIInv
<1>2. CASE ~Abort(s)
  <2>1. /\ pc[s] = "next" /\ Head(script[s]) \in {"embed", "embed_full"} /\ WaitsFor(s) = {}
        /\ chunks # NoTable /\ Go(s, "chunks_read")
        /\ hand' = [hand EXCEPT ![s] = [todo |-> {}, pieces |-> chunks]]
    BY <1>2 DEF ReadChunks, Job
  <2>2. UNCHANGED chunks /\ pc[s] \notin Resting /\ DOMAIN hand = Shells
    BY <2>1 DEF Go, index, IInv, TypeOK, ShellsOK, Resting
  <2>3. /\ hand'[s] = [todo |-> {}, pieces |-> chunks] /\ DOMAIN hand' = Shells
        /\ \A t \in Shells : t # s => hand'[t] = hand[t]
    BY <2>1, <2>2
  <2>4. pc'[s] = "chunks_read" => HandInStep(s)' /\ ProductsInStep(s)'
    BY <2>1, <2>2, <2>3 DEF HandInStep, ProductsInStep, Chunking, Embedding, Recommending
  <2>5. ASSUME pc'[s] = "chunks_read", NEW t \in Shells, t # s PROVE LocksFree(s, t)
    <3>1. ~RewritesChunks(t)
      BY <2>1, <2>5, NothingToWaitFor
    <3> QED BY <2>5, <3>1 DEF LocksFree, ReadsChunks, RewritesChunks, ReadsVectors,
                              RewritesVectors, Embedding
  <2>6. "chunks_read" \in Places \ Resting
    BY DEF Places, Resting, Embedding
  <2> QED BY <2>1, <2>2, <2>3, <2>4, <2>5, <2>6, GoKeepsIInv
<1> QED BY <1>1, <1>2

(* While a job reads the chunks, the vectors that are there are of them.   *)
LEMMA VectorsRead ==
  ASSUME IInv, NEW s \in Shells, pc[s] \in Embedding, chunk_vectors # NoTable
  PROVE  /\ chunks \in ChunkTables /\ hand[s].pieces = chunks /\ Ids(chunks) # {}
         /\ \E m \in Models : embedding_meta = MetaOf(m, chunks) /\ chunk_vectors = VectorsOf(m, chunks)
<1>1. chunks # NoTable /\ hand[s] = [todo |-> hand[s].todo, pieces |-> chunks]
  BY DEF IInv, HandInStep
<1>2. chunks \in ChunkTables /\ hand[s].pieces = chunks
  BY <1>1 DEF IInv
<1> QED BY <1>1, <1>2 DEF IInv, IndexMade, ChunkTables

LEMMA CompareKeepsIInv ==
  ASSUME IInv, NEW s \in Shells, Compare(s)
  PROVE  IInv'
<1> DEFINE todo == Changed(hand[s].pieces, Known(s), using[s])
<1>1. /\ pc[s] = "chunks_read" /\ Known(s) # <<>> /\ WaitsFor(s) = {} /\ Go(s, "compared")
      /\ hand' = [hand EXCEPT ![s].todo = todo]
  BY DEF Compare
<1>2. /\ chunk_vectors # NoTable /\ Known(s) = chunk_vectors.rows
      /\ UNCHANGED <<chunks, chunk_vectors>> /\ pc[s] \notin Resting /\ DOMAIN hand = Shells
  BY <1>1 DEF Known, Go, index, IInv, TypeOK, ShellsOK, Resting
<1>3. PICK m \in Models : chunk_vectors = VectorsOf(m, chunks) /\ hand[s].pieces = chunks
  BY <1>1, <1>2, VectorsRead DEF Embedding
<1>4. todo \in {{}, Ids(chunks)}
  BY <1>2, <1>3, AllOrNothing
<1>5. chunks # NoTable /\ hand[s] = [todo |-> hand[s].todo, pieces |-> chunks]
  BY <1>1 DEF IInv, HandInStep, Embedding
<1>6. /\ hand'[s] = [todo |-> todo, pieces |-> chunks] /\ DOMAIN hand' = Shells
      /\ \A t \in Shells : t # s => hand'[t] = hand[t]
  <2> HIDE DEF todo
  <2>1. /\ hand'[s] = [hand[s] EXCEPT !.todo = todo] /\ DOMAIN hand' = Shells
        /\ \A t \in Shells : t # s => hand'[t] = hand[t]
    BY <1>1, <1>2
  <2> QED BY <1>5, <2>1
<1>7. pc'[s] = "compared" => HandInStep(s)' /\ ProductsInStep(s)'
  <2> HIDE DEF todo
  <2> QED BY <1>2, <1>4, <1>5, <1>6 DEF HandInStep, ProductsInStep, Chunking, Embedding,
                                        Recommending
<1>8. ASSUME pc'[s] = "compared", NEW t \in Shells, t # s PROVE LocksFree(s, t)
  <2>1. ~RewritesVectors(t)
    BY <1>1, <1>8, NothingToWaitFor
  <2> QED BY <1>1, <1>8, <2>1 DEF LocksFree, ReadsChunks, RewritesChunks, ReadsVectors,
                                  RewritesVectors, Embedding
<1>9. "compared" \in Places \ Resting
  BY DEF Places, Resting, Embedding
<1> QED BY <1>1, <1>2, <1>6, <1>7, <1>8, <1>9, GoKeepsIInv

LEMMA RecreateKeepsIInv ==
  ASSUME IInv, NEW s \in Shells, Recreate(s)
  PROVE  IInv'
<1>1. CASE Abort(s)
  BY <1>1, AbortKeepsIInv
<1>2. CASE ~Abort(s)
  <2> DEFINE todo == Ids(hand[s].pieces)
  <2>1. /\ pc[s] = "chunks_read" /\ Known(s) = <<>> /\ WaitsFor(s) = {} /\ Go(s, "recreated")
        /\ hand' = [hand EXCEPT ![s].todo = todo]
    BY <1>2 DEF Recreate
  <2>2. /\ chunks # NoTable /\ hand[s] = [todo |-> hand[s].todo, pieces |-> chunks]
        /\ UNCHANGED chunks /\ pc[s] \notin Resting /\ DOMAIN hand = Shells
    BY <2>1 DEF IInv, TypeOK, ShellsOK, HandInStep, Embedding, Go, index, Resting
  <2>3. todo = Ids(chunks)
    BY <2>2
  <2>4. /\ hand'[s] = [todo |-> todo, pieces |-> chunks] /\ DOMAIN hand' = Shells
        /\ \A t \in Shells : t # s => hand'[t] = hand[t]
    <3> HIDE DEF todo
    <3>1. /\ hand'[s] = [hand[s] EXCEPT !.todo = todo] /\ DOMAIN hand' = Shells
          /\ \A t \in Shells : t # s => hand'[t] = hand[t]
      BY <2>1, <2>2
    <3> QED BY <2>2, <3>1
  <2>5. pc'[s] = "recreated" => HandInStep(s)' /\ ProductsInStep(s)'
    <3> HIDE DEF todo
    <3> QED BY <2>2, <2>3, <2>4 DEF HandInStep, ProductsInStep, Chunking, Embedding, Recommending
  <2>6. ASSUME pc'[s] = "recreated", NEW t \in Shells, t # s PROVE LocksFree(s, t)
    <3>1. ~RewritesVectors(t) /\ ~ReadsVectors(t)
      BY <2>1, <2>6, NothingToWaitFor
    <3> QED BY <2>1, <2>6, <3>1 DEF LocksFree, ReadsChunks, RewritesChunks, ReadsVectors,
                                    RewritesVectors, Embedding
  <2>7. "recreated" \in Places \ Resting
    BY DEF Places, Resting, Embedding
  <2> QED BY <2>1, <2>2, <2>4, <2>5, <2>6, <2>7, GoKeepsIInv
<1> QED BY <1>1, <1>2

LEMMA UpsertKeepsIInv ==
  ASSUME IInv, NEW s \in Shells, Upsert(s)
  PROVE  IInv'
<1>1. CASE Abort(s)
  BY <1>1, AbortKeepsIInv
<1>2. CASE ~Abort(s)
  <2>1. PICK to \in {"updated", "filled"} :
          /\ Go(s, to) /\ UNCHANGED hand
          /\ \/ to = "filled" /\ pc[s] = "recreated"
             \/ /\ to = "updated" /\ pc[s] = "compared"
                /\ hand[s].todo # {} => chunk_vectors.dim = Dim[using[s]]
    BY <1>2 DEF Upsert, Step
  <2>2. /\ HandInStep(s) /\ UNCHANGED <<chunks, chunk_vectors, using>>
        /\ pc[s] \notin Resting /\ DOMAIN hand' = Shells
    BY <2>1 DEF IInv, TypeOK, ShellsOK, Go, index, Resting
  <2>3. pc'[s] = to => HandInStep(s)' /\ ProductsInStep(s)'
    BY <2>1, <2>2 DEF HandInStep, ProductsInStep, Chunking, Embedding, Recommending
  <2>4. pc'[s] = to => \A t \in Shells : t # s => LocksFree(s, t)
    BY <2>1 DEF LocksFree, ReadsChunks, RewritesChunks, ReadsVectors, RewritesVectors, Embedding
  <2>5. to \in Places \ Resting
    BY DEF Places, Resting, Embedding
  <2> QED BY <2>1, <2>2, <2>3, <2>4, <2>5, GoKeepsIInv
<1> QED BY <1>1, <1>2

(* What embed.py leaves, whichever way it has come, is the whole index.    *)
LEMMA CommitEmbedMakes ==
  ASSUME IInv, NEW s \in Shells, CommitEmbed(s)
  PROVE  /\ chunks \in ChunkTables /\ chunks # NoTable /\ chunks' = chunks
         /\ hand[s].pieces = chunks /\ hand[s].todo \in {{}, Ids(chunks)}
         /\ \E m \in Models :
              /\ embedding_meta' = MetaOf(m, chunks) /\ chunk_vectors' = VectorsOf(m, chunks)
              /\ hand[s].todo # {} => m = using[s]
              /\ hand[s].todo = {} => pc[s] = "updated" /\ chunk_vectors' = chunk_vectors
              /\ pc[s] = "updated" => chunk_vectors # NoTable /\ chunk_vectors'.dim = chunk_vectors.dim
<1> DEFINE new == using[s]
           todo == hand[s].todo
<1>1. /\ pc[s] \in {"updated", "filled"} /\ chunks' = chunks
      /\ chunk_vectors' = IF pc[s] = "filled"
                          THEN [dim |-> Dim[new], rows |-> NewRows(s, <<>>)]
                          ELSE [chunk_vectors EXCEPT !.rows = NewRows(s, @)]
      /\ embedding_meta' =
           [model |-> IF todo # {} THEN new ELSE embedding_meta.model,
            dim |-> IF pc[s] = "filled" THEN Dim[new] ELSE embedding_meta.dim,
            source |-> Fingerprint(hand[s].pieces)]
  BY DEF CommitEmbed, NewMeta
<1>2. /\ HandInStep(s) /\ pc[s] \in Embedding /\ new \in Models
      /\ chunks # NoTable /\ hand[s].pieces = chunks
  <2>1. HandInStep(s) /\ pc[s] \in Embedding /\ new \in Models
    BY <1>1 DEF IInv, TypeOK, ShellsOK, Embedding, Resting
  <2>2. chunks # NoTable /\ hand[s] = [todo |-> hand[s].todo, pieces |-> chunks]
    BY <2>1 DEF HandInStep
  <2> QED BY <2>1, <2>2
<1>3. chunks \in ChunkTables /\ Ids(chunks) # {} /\ todo \in {{}, Ids(chunks)}
  BY <1>1, <1>2 DEF IInv, HandInStep, ChunkTables
<1>4. CASE pc[s] = "filled"
  <2>1. todo = Ids(chunks) /\ todo # {}
    BY <1>2, <1>3, <1>4 DEF HandInStep
  <2>2. NewRows(s, <<>>) = VectorsOf(new, chunks).rows
    BY <1>2, <2>1, RowsMade
  <2>3. chunk_vectors' = VectorsOf(new, chunks) /\ embedding_meta' = MetaOf(new, chunks)
    BY <1>1, <1>2, <1>4, <2>1, <2>2 DEF VectorsOf, MetaOf
  <2> QED BY <1>1, <1>2, <1>3, <1>4, <2>1, <2>3
<1>5. CASE pc[s] = "updated"
  <2>1. chunk_vectors # NoTable /\ (todo # {} => chunk_vectors.dim = Dim[new])
    BY <1>2, <1>5 DEF HandInStep
  <2>2. PICK m \in Models : embedding_meta = MetaOf(m, chunks) /\ chunk_vectors = VectorsOf(m, chunks)
    BY <1>2, <2>1, VectorsRead
  <2>3. chunk_vectors' = [dim |-> Dim[m], rows |-> NewRows(s, VectorsOf(m, chunks).rows)]
    <3>1. /\ VectorsOf(m, chunks) = [dim |-> Dim[m], rows |-> VectorsOf(m, chunks).rows]
          /\ chunk_vectors' = [chunk_vectors EXCEPT !.rows = NewRows(s, chunk_vectors.rows)]
      BY <1>1, <1>5 DEF VectorsOf
    <3> QED BY <2>2, <3>1
  <2>4. CASE todo = {}
    <3>1. NewRows(s, VectorsOf(m, chunks).rows) = VectorsOf(m, chunks).rows
      BY <1>2, <2>4, RowsMade
    <3>2. chunk_vectors' = VectorsOf(m, chunks) /\ embedding_meta' = MetaOf(m, chunks)
      BY <1>1, <1>2, <1>5, <2>2, <2>3, <2>4, <3>1 DEF VectorsOf, MetaOf
    <3> QED BY <1>1, <1>2, <1>3, <1>5, <2>1, <2>2, <2>4, <3>2
  <2>5. CASE todo # {}
    <3>1. todo = Ids(chunks) /\ Dim[m] = Dim[new]
      BY <1>3, <2>1, <2>2, <2>5 DEF VectorsOf
    <3>2. NewRows(s, VectorsOf(m, chunks).rows) = VectorsOf(new, chunks).rows
      BY <1>2, <3>1, RowsMade
    <3>3. chunk_vectors' = VectorsOf(new, chunks) /\ embedding_meta' = MetaOf(new, chunks)
      BY <1>1, <1>2, <1>5, <2>2, <2>3, <2>5, <3>1, <3>2 DEF VectorsOf, MetaOf
    <3>4. chunk_vectors'.dim = chunk_vectors.dim
      BY <2>2, <3>1, <3>3 DEF VectorsOf
    <3> QED BY <1>1, <1>2, <1>3, <2>1, <2>5, <3>3, <3>4
  <2> QED BY <2>4, <2>5
<1> QED BY <1>1, <1>4, <1>5

LEMMA CommitEmbedKeepsIInv ==
  ASSUME IInv, NEW s \in Shells, CommitEmbed(s)
  PROVE  IInv'
<1> USE DEF IInv
<1>1. /\ pc[s] \in {"updated", "filled"} /\ Finish(s)
      /\ UNCHANGED <<source, chunks, product_vectors, customer_vectors>>
  BY DEF CommitEmbed
<1>2. ShellsOK' /\ pc'[s] \in {"idle", "next"} /\ OthersWait(s) /\ server' = server
  BY <1>1, FinishTypes DEF TypeOK, Resting
<1>3. chunks \in ChunkTables /\ chunks # NoTable
  BY CommitEmbedMakes
<1>4. PICK m \in Models :
        /\ embedding_meta' = MetaOf(m, chunks) /\ chunk_vectors' = VectorsOf(m, chunks)
        /\ pc[s] = "updated" => chunk_vectors # NoTable /\ chunk_vectors'.dim = chunk_vectors.dim
  BY CommitEmbedMakes
<1>5. chunk_vectors' # NoTable
  BY <1>3, <1>4, IndexTablesOK
<1>6. TypeOK'
  <2>1. IsVectorTable(VectorsOf(m, chunks), Ids(chunks))
    BY DEF IsVectorTable, VectorsOf, Embedded
  <2>2. embedding_meta'.model = m
    BY <1>4 DEF MetaOf
  <2>3. IsVectorTable(chunk_vectors', Ids(chunks'))
    BY <1>1, <1>4, <2>1
  <2>4. (product_vectors # NoTable => IsVectorTable(product_vectors, Products))'
    BY <1>1 DEF TypeOK, IsVectorTable
  <2> QED BY <1>1, <1>2, <2>2, <2>3, <2>4 DEF TypeOK, source
<1>7. /\ IndexMade' /\ (chunks # NoTable => chunks \in ChunkTables)'
      /\ (product_vectors # NoTable => TakesProducts(product_vectors))'
  BY <1>1, <1>3, <1>4 DEF IndexMade, TakesProducts, IsVectorTable
<1>8. \A t \in Shells : t # s => ~RewritesChunks(t)
  BY <1>1 DEF LocksAgree, ReadsChunks, Embedding
<1>9. ASSUME NEW r \in Shells, NEW t \in Shells, r # t PROVE LocksAgree(r, t)'
  <2>1. LocksAgree(r, t)
    BY <1>9
  <2>2. \A x \in Shells : RewritesVectors(x)' => RewritesVectors(x)
    BY <1>2, <1>8 DEF RewritesVectors, RewritesChunks, OthersWait
  <2> QED BY <1>2, <1>9, <2>1, <2>2
          DEF LocksAgree, RewritesChunks, ReadsChunks, ReadsVectors, OthersWait, Embedding
<1>10. ASSUME NEW t \in Shells PROVE HandInStep(t)' /\ ProductsInStep(t)'
  <2>1. CASE t = s
    BY <1>2, <2>1 DEF HandInStep, ProductsInStep, Chunking, Embedding, Recommending
  <2>2. CASE t # s
    <3>1. pc'[t] = pc[t] /\ hand'[t] = hand[t] /\ using'[t] = using[t]
      BY <1>2, <2>2 DEF OthersWait
    <3>2. ProductsInStep(t)'
      BY <1>1, <3>1 DEF ProductsInStep, TakesProducts, IsVectorTable
    <3>3. pc[t] \in {"compared", "updated"} => chunk_vectors'.dim = chunk_vectors.dim
      BY <1>1, <1>4, <2>2 DEF LocksAgree, RewritesVectors, ReadsVectors
    <3> QED BY <1>1, <1>5, <3>1, <3>2, <3>3 DEF HandInStep
  <2> QED BY <2>1, <2>2
<1> QED BY <1>6, <1>7, <1>9, <1>10

-----------------------------------------------------------------------------
(* prep_rec.py vectors.                                                    *)
LEMMA CompareProductsKeepsIInv ==
  ASSUME IInv, NEW s \in Shells, CompareProducts(s)
  PROVE  IInv'
<1> DEFINE texts == [p \in {q \in Products : product[q] # NoRow} |-> product[p]]
           fresh == MustRecreateProducts(using[s])
           known == IF fresh THEN <<>> ELSE product_vectors.rows
           todo == Changed(texts, known, using[s])
           new == [todo |-> todo, pieces |-> texts, fresh |-> fresh, customers |-> <<>>]
<1>1. /\ pc[s] = "next" /\ Go(s, "compared_products")
      /\ hand' = [hand EXCEPT ![s] = new]
  BY DEF CompareProducts, Job
<1>2. UNCHANGED product_vectors /\ pc[s] \notin Resting /\ DOMAIN hand = Shells
  BY <1>1 DEF Go, index, IInv, TypeOK, ShellsOK, Resting
<1>3. Ids(texts) \subseteq Products /\ todo \subseteq Ids(texts)
  BY DEF Ids, Changed
<1>4. ~fresh => TakesProducts(product_vectors)
  BY DEF MustRecreateProducts, IInv
<1>5. /\ hand'[s] = new /\ DOMAIN hand' = Shells
      /\ \A t \in Shells : t # s => hand'[t] = hand[t]
  <2> HIDE DEF new
  <2> QED BY <1>1, <1>2
<1>6. pc'[s] = "compared_products" => HandInStep(s)' /\ ProductsInStep(s)'
  <2>1. /\ hand'[s] = [todo |-> hand'[s].todo, pieces |-> hand'[s].pieces,
                       fresh |-> hand'[s].fresh, customers |-> hand'[s].customers]
        /\ hand'[s].todo = todo /\ hand'[s].pieces = texts /\ hand'[s].fresh = fresh
    <3> HIDE DEF todo, texts, fresh
    <3> QED BY <1>5
  <2>2. TakesProducts(product_vectors)' = TakesProducts(product_vectors)
    BY <1>2 DEF TakesProducts, IsVectorTable
  <2> HIDE DEF todo, texts, fresh
  <2> QED BY <1>3, <1>4, <2>1, <2>2 DEF HandInStep, ProductsInStep, Chunking, Embedding,
                                        Recommending
<1>7. pc'[s] = "compared_products" => \A t \in Shells : t # s => LocksFree(s, t)
  BY DEF LocksFree, ReadsChunks, RewritesChunks, ReadsVectors, RewritesVectors, Embedding
<1>8. "compared_products" \in Places \ Resting
  BY DEF Places, Resting, Recommending
<1> QED BY <1>1, <1>2, <1>5, <1>6, <1>7, <1>8, GoKeepsIInv

LEMMA BuildProductsKeepsIInv ==
  ASSUME IInv, NEW s \in Shells, BuildProducts(s)
  PROVE  IInv'
<1>1. CASE Abort(s)
  BY <1>1, AbortKeepsIInv
<1>2. CASE ~Abort(s)
  <2>1. pc[s] = "compared_products" /\ Go(s, "products_built") /\ UNCHANGED hand
    BY <1>2 DEF BuildProducts
  <2>2. /\ ProductsInStep(s) /\ UNCHANGED product_vectors
        /\ pc[s] \notin Resting /\ DOMAIN hand' = Shells
    BY <2>1 DEF IInv, TypeOK, ShellsOK, Go, index, Resting
  <2>3. pc'[s] = "products_built" => HandInStep(s)' /\ ProductsInStep(s)'
    BY <2>1, <2>2 DEF HandInStep, ProductsInStep, TakesProducts, IsVectorTable, Chunking,
                      Embedding, Recommending
  <2>4. pc'[s] = "products_built" => \A t \in Shells : t # s => LocksFree(s, t)
    BY DEF LocksFree, ReadsChunks, RewritesChunks, ReadsVectors, RewritesVectors, Embedding
  <2>5. "products_built" \in Places \ Resting
    BY DEF Places, Resting, Recommending
  <2> QED BY <2>1, <2>2, <2>3, <2>4, <2>5, GoKeepsIInv
<1> QED BY <1>1, <1>2

LEMMA AverageKeepsIInv ==
  ASSUME IInv, NEW s \in Shells, Average(s)
  PROVE  IInv'
<1>1. CASE Abort(s)
  BY <1>1, AbortKeepsIInv
<1>2. CASE ~Abort(s)
  <2> DEFINE shown == {p \in PurchaseIds :
                         /\ reviews[p] # NoRow /\ ~reviews[p].is_holdout
                         /\ \E id \in DOMAIN chunk_vectors.rows : id[1] = p}
             means == [u \in {Buyer[p] : p \in shown} |-> {p \in shown : Buyer[p] = u}]
  <2>1. /\ pc[s] = "products_built" /\ WaitsFor(s) = {} /\ Go(s, "averaged")
        /\ hand' = [hand EXCEPT ![s].customers = means]
    BY <1>2 DEF Average
  <2>2. /\ ProductsInStep(s) /\ UNCHANGED product_vectors
        /\ pc[s] \notin Resting /\ DOMAIN hand = Shells
    BY <2>1 DEF IInv, TypeOK, ShellsOK, Go, index, Resting
  <2>3. \A u \in DOMAIN means : means[u] \subseteq {p \in PurchaseIds : Buyer[p] = u}
    OBVIOUS
  <2> HIDE DEF means
  <2>4. /\ hand'[s] = [hand[s] EXCEPT !.customers = means] /\ DOMAIN hand' = Shells
        /\ \A t \in Shells : t # s => hand'[t] = hand[t]
    BY <2>1, <2>2
  <2>5. hand'[s] = [todo |-> hand[s].todo, pieces |-> hand[s].pieces,
                    fresh |-> hand[s].fresh, customers |-> means]
    <3>1. hand[s] = [todo |-> hand[s].todo, pieces |-> hand[s].pieces,
                     fresh |-> hand[s].fresh, customers |-> hand[s].customers]
      BY <2>1, <2>2 DEF ProductsInStep, Recommending
    <3> QED BY <2>4, <3>1
  <2>6. pc'[s] = "averaged" => HandInStep(s)' /\ ProductsInStep(s)'
    <3>1. TakesProducts(product_vectors)' = TakesProducts(product_vectors)
      BY <2>2 DEF TakesProducts, IsVectorTable
    <3> QED BY <2>1, <2>2, <2>3, <2>5, <3>1 DEF HandInStep, ProductsInStep, Chunking, Embedding,
                                                Recommending
  <2>7. ASSUME pc'[s] = "averaged", NEW t \in Shells, t # s PROVE LocksFree(s, t)
    <3>1. ~RewritesVectors(t)
      BY <2>1, <2>7, NothingToWaitFor
    <3> QED BY <2>7, <3>1 DEF LocksFree, ReadsChunks, RewritesChunks, ReadsVectors,
                              RewritesVectors, Embedding
  <2>8. "averaged" \in Places \ Resting
    BY DEF Places, Resting, Recommending
  <2> QED BY <2>1, <2>2, <2>4, <2>6, <2>7, <2>8, GoKeepsIInv
<1> QED BY <1>1, <1>2

(* The COMMIT of prep_rec.py vectors.                                      *)
LEMMA CommitVectorsKeepsIInv ==
  ASSUME IInv, NEW s \in Shells, CommitVectors(s)
  PROVE  IInv'
<1> USE DEF IInv
<1>1. /\ pc[s] = "averaged" /\ Finish(s) /\ customer_vectors' = hand[s].customers
      /\ product_vectors' = IF hand[s].fresh
                            THEN [dim |-> Dim[using[s]], rows |-> NewRows(s, <<>>)]
                            ELSE [product_vectors EXCEPT !.rows = NewRows(s, @)]
      /\ UNCHANGED <<source, chunks, chunk_vectors, embedding_meta>>
  BY DEF CommitVectors
<1>2. ShellsOK' /\ pc'[s] \in {"idle", "next"} /\ OthersWait(s) /\ server' = server
  BY <1>1, FinishTypes DEF TypeOK, Resting
<1>3. /\ Ids(hand[s].pieces) \subseteq Products /\ hand[s].todo \subseteq Ids(hand[s].pieces)
      /\ ~hand[s].fresh => TakesProducts(product_vectors)
      /\ \A u \in DOMAIN hand[s].customers :
           hand[s].customers[u] \subseteq {p \in PurchaseIds : Buyer[p] = u}
  BY <1>1 DEF ProductsInStep, Recommending
<1>4. using[s] \in Models
  BY <1>1 DEF TypeOK, ShellsOK, Resting
<1>5. TakesProducts(product_vectors)'
  <2>1. ASSUME NEW old,
               \A k \in DOMAIN old \cap Ids(hand[s].pieces) : old[k].vector[1] \in Models
        PROVE  /\ DOMAIN NewRows(s, old) \subseteq Products
               /\ \A k \in DOMAIN NewRows(s, old) : NewRows(s, old)[k].vector[1] \in Models
    <3>1. \A k : Embedded(using[s], hand[s].pieces[k]).vector[1] \in Models
      BY <1>4 DEF Embedded
    <3> QED BY <1>3, <2>1, <3>1 DEF NewRows
  <2>2. CASE hand[s].fresh
    <3> DEFINE rows == NewRows(s, <<>>)
    <3>1. DOMAIN <<>> = {}
      OBVIOUS
    <3>2. /\ DOMAIN rows \subseteq Products
          /\ \A k \in DOMAIN rows : rows[k].vector[1] \in Models
      BY <2>1, <3>1
    <3>3. product_vectors' = [dim |-> Dim[using[s]], rows |-> rows]
      BY <1>1, <2>2
    <3> HIDE DEF rows
    <3> QED BY <1>4, <3>2, <3>3 DEF TakesProducts, IsVectorTable
  <2>3. CASE ~hand[s].fresh
    <3> DEFINE rows == NewRows(s, product_vectors.rows)
    <3>1. /\ product_vectors.dim \in {Dim[m] : m \in Models}
          /\ \A k \in DOMAIN product_vectors.rows : product_vectors.rows[k].vector[1] \in Models
          /\ DOMAIN product_vectors = {"dim", "rows"}
      BY <1>3, <2>3 DEF TakesProducts, IsVectorTable
    <3>2. /\ DOMAIN rows \subseteq Products
          /\ \A k \in DOMAIN rows : rows[k].vector[1] \in Models
      BY <2>1, <3>1
    <3>3. product_vectors' = [product_vectors EXCEPT !.rows = rows]
      BY <1>1, <2>3
    <3> HIDE DEF rows
    <3>4. /\ product_vectors'.dim = product_vectors.dim /\ product_vectors'.rows = rows
          /\ DOMAIN product_vectors' = {"dim", "rows"}
      BY <3>1, <3>3
    <3> QED BY <3>1, <3>2, <3>4 DEF TakesProducts, IsVectorTable
  <2> QED BY <2>2, <2>3
<1>6. TypeOK'
  <2>1. IsVectorTable(product_vectors, Products)'
    BY <1>5 DEF TakesProducts
  <2>2. (chunk_vectors # NoTable => IsVectorTable(chunk_vectors, Ids(chunks)))'
    BY <1>1 DEF TypeOK, IsVectorTable
  <2> QED BY <1>1, <1>2, <1>3, <2>1, <2>2 DEF TypeOK, source
<1>7. IndexMade' /\ (chunks # NoTable => chunks \in ChunkTables)'
  BY <1>1 DEF IndexMade
<1>8. ASSUME NEW r \in Shells, NEW t \in Shells, r # t PROVE LocksAgree(r, t)'
  <2>1. LocksAgree(r, t)
    BY <1>8
  <2> QED BY <1>1, <1>2, <1>8, <2>1
          DEF LocksAgree, RewritesChunks, ReadsChunks, RewritesVectors, ReadsVectors, OthersWait,
              Embedding
<1>9. ASSUME NEW t \in Shells PROVE HandInStep(t)' /\ ProductsInStep(t)'
  <2>1. CASE t = s
    BY <1>2, <2>1 DEF HandInStep, ProductsInStep, Chunking, Embedding, Recommending
  <2>2. CASE t # s
    <3>1. pc'[t] = pc[t] /\ hand'[t] = hand[t] /\ using'[t] = using[t]
      BY <1>2, <2>2 DEF OthersWait
    <3> QED BY <1>1, <1>5, <3>1 DEF HandInStep, ProductsInStep
  <2> QED BY <2>1, <2>2
<1> QED BY <1>5, <1>6, <1>7, <1>8, <1>9

-----------------------------------------------------------------------------
(* Members, administrators and servers leave the jobs and the index alone. *)
LEMMA OutsideKeepsIInv ==
  ASSUME IInv, UNCHANGED <<index, shell>>, reviews' \in Reviews, product' \in ProductRows,
         server' \in {"down", "quiet", "warned"}
  PROVE  IInv'
<1> USE DEF IInv, index, shell
<1>1. TypeOK'
  BY DEF TypeOK, ShellsOK, IsVectorTable
<1>2. IndexMade' /\ (product_vectors # NoTable => TakesProducts(product_vectors))'
  BY DEF IndexMade, TakesProducts, IsVectorTable
<1>3. \A s, t \in Shells : s # t => LocksAgree(s, t)'
  BY DEF LocksAgree, RewritesChunks, ReadsChunks, RewritesVectors, ReadsVectors
<1>4. \A s \in Shells : HandInStep(s)' /\ ProductsInStep(s)'
  BY DEF HandInStep, ProductsInStep, TakesProducts, IsVectorTable
<1> QED BY <1>1, <1>2, <1>3, <1>4

LEMMA WriteReviewKeepsIInv ==
  ASSUME IInv, NEW p \in PurchaseIds, NEW body \in Written, WriteReview(p, body)
  PROVE  IInv'
<1>1. [body |-> body, is_holdout |-> FALSE] \in ReviewRow
  BY IndexConstantsOK DEF ReviewRow
<1>2. reviews' \in Reviews
  BY <1>1 DEF WriteReview, IInv, TypeOK, Reviews
<1> QED BY <1>2, OutsideKeepsIInv DEF WriteReview, IInv, TypeOK

LEMMA UpdateProductKeepsIInv ==
  ASSUME IInv, NEW p \in Products, NEW details \in Details, UpdateProduct(p, details)
  PROVE  IInv'
<1>1. product' \in ProductRows
  BY DEF UpdateProduct, IInv, TypeOK, ProductRows
<1> QED BY <1>1, OutsideKeepsIInv DEF UpdateProduct, IInv, TypeOK

LEMMA ServersKeepIInv ==
  ASSUME IInv, (\E m \in ServerModels : StartServer(m)) \/ StopServer \/ UNCHANGED vars
  PROVE  IInv'
<1>1. UNCHANGED <<source, index, shell>> /\ server' \in {"down", "quiet", "warned"}
  BY DEF StartServer, StopServer, vars, IInv, TypeOK
<1> QED BY <1>1, OutsideKeepsIInv DEF source, IInv, TypeOK

(* Before the first job there is no index and nothing in hand.             *)
LEMMA InitIInv == Init => IInv
<1> SUFFICES ASSUME Init PROVE IInv
  OBVIOUS
<1> USE DEF Init
<1>1. reviews \in Reviews /\ product \in ProductRows
  BY IndexConstantsOK
<1>2. ShellsOK
  BY DEF ShellsOK, Resting
<1>3. embedding_meta # NoTable => embedding_meta.model = NoRow
  BY IndexConstantsOK
<1>4. TypeOK
  BY <1>1, <1>2, <1>3 DEF TypeOK
<1>5. IndexMade
  BY DEF IndexMade
<1>6. \A s \in Shells : HandInStep(s) /\ ProductsInStep(s)
  BY DEF HandInStep, ProductsInStep, Chunking, Embedding, Recommending
<1>7. \A s, t \in Shells : LocksAgree(s, t)
  BY DEF LocksAgree, RewritesChunks, RewritesVectors
<1> QED BY <1>4, <1>5, <1>6, <1>7 DEF IInv

(* IInv is inductive.                                                      *)
LEMMA NextKeepsIInv == IInv /\ [Next]_vars => IInv'
<1> SUFFICES ASSUME IInv, [Next]_vars PROVE IInv'
  OBVIOUS
<1>1. ASSUME NEW s \in Shells, Waiting(s) PROVE IInv'
  BY <1>1, LoadKeepsIInv, MarkHoldoutKeepsIInv, DropVectorsKeepsIInv, ReplaceChunksKeepsIInv,
     ReadChunksKeepsIInv, CompareKeepsIInv, RecreateKeepsIInv, UpsertKeepsIInv,
     CompareProductsKeepsIInv, BuildProductsKeepsIInv, AverageKeepsIInv DEF Waiting
<1>2. ASSUME NEW s \in Shells, Proceed(s) PROVE IInv'
  BY <1>2, CommitHoldoutKeepsIInv, FetchRowsKeepsIInv, CommitChunkKeepsIInv,
     CommitEmbedKeepsIInv, CommitVectorsKeepsIInv DEF Proceed
<1>3. ASSUME NEW s \in Shells, Fail(s) \/ DeadlockVictim(s) PROVE IInv'
  BY <1>3, AbortKeepsIInv DEF Fail, DeadlockVictim
<1> QED BY <1>1, <1>2, <1>3, BeginScriptKeepsIInv, WriteReviewKeepsIInv,
           UpdateProductKeepsIInv, ServersKeepIInv DEF Next

(* The inductive invariant of the jobs: the index is what embed.py makes   *)
(* of the present chunks from nothing, and a job has in hand what is still *)
(* in the tables that it has locked.                                       *)
THEOREM SpecIInv == Spec => []IInv
BY InitIInv, NextKeepsIInv, PTL DEF Spec

(* Tables and jobs keep the shape that the schema and the code give them.  *)
THEOREM SpecTypeOK == Spec => []TypeOK
BY SpecIInv, PTL DEF IInv

(* The index as a whole, read by the search and by check_freshness.        *)
LEMMA IndexMadeMatches ==
  ASSUME IInv, chunk_vectors # NoTable
  PROVE  VectorsMatchChunks /\ NoFalseAlarm
<1>1. PICK m \in Models : embedding_meta = MetaOf(m, chunks) /\ chunk_vectors = VectorsOf(m, chunks)
  BY DEF IInv, IndexMade
<1>2. chunks # NoTable /\ chunks \in ChunkTables
  BY DEF IInv, IndexMade
<1>3. embedding_meta # NoTable
  BY <1>1, <1>2, IndexTablesOK
<1>4. /\ embedding_meta.model = m /\ chunk_vectors.dim = Dim[m]
      /\ DOMAIN chunk_vectors.rows = Ids(chunks)
      /\ \A id \in Ids(chunks) : chunk_vectors.rows[id].vector = <<m, chunks[id]>>
  BY <1>1 DEF MetaOf, VectorsOf, Embedded
<1>5. VectorsMatchChunks
  BY <1>2, <1>3, <1>4 DEF VectorsMatchChunks
<1>6. /\ embedding_meta["model"] = m /\ embedding_meta["dim"] = Dim[m]
      /\ embedding_meta["source"] = Fingerprint(chunks)
  BY <1>1 DEF MetaOf
<1>7. Problems(m) = {}
  BY <1>6 DEF Problems
<1> QED BY <1>4, <1>5, <1>7 DEF NoFalseAlarm

(* Whatever jobs overlap, change the model or fail half way: every vector  *)
(* that can be searched is of the text its chunk has now, and all are of   *)
(* the model and the dimension that embedding_meta names.                  *)
THEOREM SpecVectorsMatchChunks == Spec => []VectorsMatchChunks
<1>1. IInv => VectorsMatchChunks
  BY IndexMadeMatches DEF VectorsMatchChunks
<1> QED BY <1>1, SpecIInv, PTL

(* A server with the model of the index is not warned about it.            *)
THEOREM SpecNoFalseAlarm == Spec => []NoFalseAlarm
<1>1. IInv => NoFalseAlarm
  BY IndexMadeMatches DEF NoFalseAlarm
<1> QED BY <1>1, SpecIInv, PTL

-----------------------------------------------------------------------------
(* One shell: nothing comes between two statements of its jobs.            *)
OneShell == \A s, t \in Shells : s = t

(* Every vector of the table is stored under the mark of its own text.     *)
Marked(table) ==
  \A k \in DOMAIN table.rows : table.rows[k].source_hash = table.rows[k].vector

(* What s has still to embed is what the tables do not have yet.           *)
TodoIsCurrent(s) ==
  /\ pc[s] \in {"compared", "updated"} =>
       hand[s].todo = Changed(chunks, chunk_vectors.rows, using[s])
  /\ pc[s] \in Recommending =>
       /\ hand[s].todo = Changed(hand[s].pieces,
            IF hand[s].fresh THEN <<>> ELSE product_vectors.rows, using[s])
       /\ ~hand[s].fresh => Marked(product_vectors)

IsHeldOut(p) == p \in PurchaseIds /\ reviews[p] # NoRow /\ reviews[p].is_holdout

AfterHoldout == <<"chunk", "embed", "vectors">>
AfterChunk == <<"embed", "vectors">>
AfterEmbed == <<"vectors">>

(* How far the documented order has come, and that from chunk.py on the    *)
(* chunks are not of reviews that are set aside.                           *)
OrderKept(s) ==
  ran[s] = Documented =>
    /\ pc[s] = "marked" => script[s] = Documented
    /\ pc[s] \in Chunking => script[s] = AfterHoldout
    /\ pc[s] \in Embedding => script[s] = AfterChunk
    /\ pc[s] \in Recommending => script[s] = AfterEmbed
    /\ pc[s] \notin Resting =>
         script[s] \in {Documented, AfterHoldout, AfterChunk, AfterEmbed}
    /\ pc[s] \in Chunking => \A id \in Ids(hand[s].pieces) : ~IsHeldOut(id[1])
    /\ script[s] \in {AfterChunk, AfterEmbed} => \A id \in Ids(chunks) : ~IsHeldOut(id[1])
    /\ pc[s] = "averaged" =>
         \A u \in DOMAIN hand[s].customers : \A p \in hand[s].customers[u] : ~IsHeldOut(p)

(* The invariant of the jobs of one shell, which nobody gets in between.   *)
OneShellInv ==
  /\ product_vectors # NoTable => Marked(product_vectors)
  /\ \A s \in Shells :
       /\ TodoIsCurrent(s)
       /\ OrderKept(s)
       /\ pc[s] = "averaged" => chunk_vectors # NoTable

LEMMA Suffixes ==
  /\ Head(Documented) = "holdout" /\ Tail(Documented) = AfterHoldout
  /\ Head(AfterHoldout) = "chunk" /\ Tail(AfterHoldout) = AfterChunk
  /\ Head(AfterChunk) = "embed" /\ Tail(AfterChunk) = AfterEmbed
  /\ Head(AfterEmbed) = "vectors" /\ Len(AfterEmbed) = 1
  /\ Documented # <<>>
BY DEF Documented, AfterHoldout, AfterChunk, AfterEmbed

LEMMA SuffixesDiffer ==
  /\ Documented \notin {AfterHoldout, AfterChunk, AfterEmbed}
  /\ AfterHoldout \notin {AfterChunk, AfterEmbed} /\ AfterChunk # AfterEmbed
BY Suffixes

(* A shell that rests has forgotten its script.                            *)
LEMMA RestForgets ==
  ASSUME ShellsOK, NEW s \in Shells, NEW where, Rest(s, where)
  PROVE  ran'[s] # Documented
<1>1. ran'[s] = <<>>
  BY DEF Rest, ShellsOK
<1> QED BY <1>1, Suffixes

(* A shell that is still in the documented order has gone on to its next   *)
(* job.                                                                    *)
LEMMA FinishGoesOn ==
  ASSUME ShellsOK, NEW s \in Shells, Finish(s), ran'[s] = Documented
  PROVE  /\ pc'[s] = "next" /\ ran[s] = Documented
         /\ script'[s] = Tail(script[s]) /\ Len(script[s]) > 1
<1>1. ~Rest(s, "idle")
  BY RestForgets
<1> QED BY <1>1 DEF Finish, ShellsOK

(* Where the only shell moves and the tables stay as they are.             *)
LEMMA OnlyShellMoves ==
  ASSUME OneShell, OneShellInv, NEW s \in Shells, UNCHANGED index,
         TodoIsCurrent(s)', OrderKept(s)', pc'[s] = "averaged" => chunk_vectors # NoTable
  PROVE  OneShellInv'
BY DEF OneShell, OneShellInv, Marked, index

(* A job has gone on to a place where nothing is left to embed.            *)
LEMMA OnlyShellGoes ==
  ASSUME OneShell, IInv, OneShellInv, NEW s \in Shells, NEW to, Go(s, to),
         to \notin Resting \cup Embedding \cup Recommending, OrderKept(s)'
  PROVE  OneShellInv'
<1>1. pc'[s] = to /\ UNCHANGED index
  BY DEF Go, IInv, TypeOK, ShellsOK
<1>2. TodoIsCurrent(s)' /\ (pc'[s] = "averaged" => chunk_vectors # NoTable)
  BY <1>1 DEF TodoIsCurrent, Embedding, Recommending
<1> QED BY <1>1, <1>2, OnlyShellMoves

LEMMA AbortKeepsOneShell ==
  ASSUME OneShell, IInv, OneShellInv, NEW s \in Shells, Abort(s)
  PROVE  OneShellInv'
<1>1. ShellsOK /\ Rest(s, "failed") /\ UNCHANGED index
  BY DEF Abort, IInv, TypeOK
<1>2. pc'[s] = "failed"
  BY <1>1, RestTypes DEF Resting
<1>3. OrderKept(s)'
  BY <1>1, RestForgets DEF OrderKept
<1>4. TodoIsCurrent(s)'
  BY <1>2 DEF TodoIsCurrent, Recommending
<1> QED BY <1>1, <1>2, <1>3, <1>4, OnlyShellMoves

LEMMA BeginScriptKeepsOneShell ==
  ASSUME OneShell, IInv, OneShellInv, NEW s \in Shells, BeginScript(s)
  PROVE  OneShellInv'
<1>1. PICK jobs \in Scripts :
        pc'[s] = "next" /\ script'[s] = jobs /\ ran'[s] = jobs /\ UNCHANGED index
  BY DEF BeginScript, IInv, TypeOK, ShellsOK
<1>2. OrderKept(s)'
  BY <1>1, SuffixesDiffer DEF OrderKept, Chunking, Embedding, Recommending
<1>3. TodoIsCurrent(s)'
  BY <1>1 DEF TodoIsCurrent, Recommending
<1> QED BY <1>1, <1>2, <1>3, OnlyShellMoves

(* The job that the documented order is at.                                *)
LEMMA JobInOrder ==
  ASSUME OneShellInv, NEW s \in Shells, pc[s] = "next", ran[s] = Documented
  PROVE  /\ Head(script[s]) # "load"
         /\ Head(script[s]) = "holdout" => script[s] = Documented
         /\ Head(script[s]) = "chunk" => script[s] = AfterHoldout
         /\ Head(script[s]) \in {"embed", "embed_full"} => script[s] = AfterChunk
         /\ Head(script[s]) = "vectors" => script[s] = AfterEmbed
<1>1. script[s] \in {Documented, AfterHoldout, AfterChunk, AfterEmbed}
  BY DEF OneShellInv, OrderKept, Resting
<1> QED BY <1>1, Suffixes

LEMMA LoadKeepsOneShell ==
  ASSUME OneShell, IInv, OneShellInv, NEW s \in Shells, Load(s)
  PROVE  OneShellInv'
<1>1. /\ ShellsOK /\ pc[s] = "next" /\ Head(script[s]) = "load" /\ Finish(s) /\ UNCHANGED index
      /\ pc[s] \notin Resting
  BY DEF Load, Job, IInv, TypeOK, Resting
<1>2. pc'[s] \in {"idle", "next"}
  BY <1>1, FinishTypes
<1>3. OrderKept(s)'
  BY <1>1, FinishGoesOn, JobInOrder DEF OrderKept
<1>4. TodoIsCurrent(s)'
  BY <1>2 DEF TodoIsCurrent, Recommending
<1> QED BY <1>1, <1>2, <1>3, <1>4, OnlyShellMoves

LEMMA MarkHoldoutKeepsOneShell ==
  ASSUME OneShell, IInv, OneShellInv, NEW s \in Shells, MarkHoldout(s)
  PROVE  OneShellInv'
<1>1. /\ pc[s] = "next" /\ Head(script[s]) = "holdout" /\ Go(s, "marked")
      /\ pc'[s] = "marked" /\ UNCHANGED <<script, ran>>
  BY DEF MarkHoldout, Job, Go, IInv, TypeOK, ShellsOK
<1>2. OrderKept(s)'
  BY <1>1, JobInOrder, SuffixesDiffer DEF OrderKept, Chunking, Embedding, Recommending
<1> QED BY <1>1, <1>2, OnlyShellGoes DEF Resting, Embedding, Recommending

LEMMA CommitHoldoutKeepsOneShell ==
  ASSUME OneShell, IInv, OneShellInv, NEW s \in Shells, CommitHoldout(s)
  PROVE  OneShellInv'
<1>1. /\ ShellsOK /\ pc[s] = "marked" /\ Finish(s) /\ UNCHANGED index /\ pc[s] \notin Resting
  BY DEF CommitHoldout, IInv, TypeOK, Resting
<1>2. pc'[s] \in {"idle", "next"}
  BY <1>1, FinishTypes
<1>3. ASSUME ran'[s] = Documented PROVE pc'[s] = "next" /\ script'[s] = AfterHoldout
  <2>1. pc'[s] = "next" /\ ran[s] = Documented /\ script'[s] = Tail(script[s])
    BY <1>1, <1>3, FinishGoesOn
  <2>2. script[s] = Documented
    BY <1>1, <2>1 DEF OneShellInv, OrderKept
  <2> QED BY <2>1, <2>2, Suffixes
<1>4. OrderKept(s)'
  BY <1>3, SuffixesDiffer DEF OrderKept, Chunking, Embedding, Recommending
<1>5. TodoIsCurrent(s)'
  BY <1>2 DEF TodoIsCurrent, Recommending
<1> QED BY <1>1, <1>2, <1>4, <1>5, OnlyShellMoves
(* INDEX_FILTER keeps out the reviews that are set aside when they are cut.*)
LEMMA NoneHeldOutIsCut ==
  ASSUME NEW m, NEW id \in Ids(Cut(reviews, m))
  PROVE  ~IsHeldOut(id[1])
<1>1. PICK p \in PurchaseIds : /\ Indexable(reviews[p])
                              /\ id \in {p} \X (1..Len(Split[m][reviews[p].body]))
  BY DEF Cut, Ids
<1>2. id[1] = p
  BY <1>1
<1> QED BY <1>1, <1>2 DEF IsHeldOut, Indexable

LEMMA FetchRowsKeepsOneShell ==
  ASSUME OneShell, IInv, OneShellInv, NEW s \in Shells, FetchRows(s)
  PROVE  OneShellInv'
<1>1. CASE Abort(s)
  BY <1>1, AbortKeepsOneShell
<1>2. CASE ~Abort(s)
  <2>1. /\ pc[s] = "next" /\ Head(script[s]) = "chunk" /\ Go(s, "cut")
        /\ hand'[s].pieces = Cut(reviews, using[s])
        /\ pc'[s] = "cut" /\ UNCHANGED <<script, ran, reviews>>
    BY <1>2 DEF FetchRows, Job, Go, source, IInv, TypeOK, ShellsOK
  <2>2. \A id \in Ids(hand'[s].pieces) : ~IsHeldOut(id[1])'
    BY <2>1, NoneHeldOutIsCut DEF IsHeldOut
  <2>3. OrderKept(s)'
    BY <2>1, <2>2, JobInOrder, SuffixesDiffer DEF OrderKept, Chunking, Embedding, Recommending
  <2> QED BY <2>1, <2>3, OnlyShellGoes DEF Resting, Embedding, Recommending
<1> QED BY <1>1, <1>2

LEMMA SaveChunksKeepsOneShell ==
  ASSUME OneShell, IInv, OneShellInv, NEW s \in Shells, DropVectors(s) \/ ReplaceChunks(s)
  PROVE  OneShellInv'
<1>1. CASE Abort(s)
  BY <1>1, AbortKeepsOneShell
<1>2. CASE ~Abort(s)
  <2>1. PICK to \in {"no_vectors", "vectors_locked", "replaced"} :
          Go(s, to) /\ UNCHANGED hand /\ pc[s] \in Chunking
    BY <1>2 DEF DropVectors, ReplaceChunks, Step, Chunking
  <2>2. pc'[s] = to /\ UNCHANGED <<script, ran, reviews, chunks>>
    BY <2>1 DEF Go, source, index, IInv, TypeOK, ShellsOK
  <2>3. OrderKept(s)
    BY DEF OneShellInv
  <2>4. OrderKept(s)'
    BY <2>1, <2>2, <2>3, SuffixesDiffer DEF OrderKept, IsHeldOut, Chunking, Embedding,
                                            Recommending, Resting
  <2> QED BY <2>1, <2>4, OnlyShellGoes DEF Resting, Embedding, Recommending
<1> QED BY <1>1, <1>2

LEMMA CommitChunkKeepsOneShell ==
  ASSUME OneShell, IInv, OneShellInv, NEW s \in Shells, CommitChunk(s)
  PROVE  OneShellInv'
<1>1. /\ ShellsOK /\ pc[s] = "replaced" /\ chunks' = hand[s].pieces /\ Finish(s)
      /\ UNCHANGED <<reviews, product_vectors>> /\ pc[s] \notin Resting
  BY DEF CommitChunk, source, IInv, TypeOK, Resting
<1>2. pc'[s] \in {"idle", "next"}
  BY <1>1, FinishTypes
<1>3. ASSUME ran'[s] = Documented
      PROVE  /\ pc'[s] = "next" /\ script'[s] = AfterChunk
             /\ \A id \in Ids(chunks') : ~IsHeldOut(id[1])'
  <2>1. pc'[s] = "next" /\ ran[s] = Documented /\ script'[s] = Tail(script[s])
    BY <1>1, <1>3, FinishGoesOn
  <2>2. script[s] = AfterHoldout /\ \A id \in Ids(hand[s].pieces) : ~IsHeldOut(id[1])
    BY <1>1, <2>1 DEF OneShellInv, OrderKept, Chunking
  <2> QED BY <1>1, <2>1, <2>2, Suffixes DEF IsHeldOut
<1>4. OrderKept(s)'
  BY <1>3 DEF OrderKept, Chunking, Embedding, Recommending
<1>5. TodoIsCurrent(s)' /\ pc'[s] # "averaged"
  BY <1>2 DEF TodoIsCurrent, Recommending
<1> QED BY <1>1, <1>4, <1>5 DEF OneShellInv, OneShell, Marked

(* A statement of embed.py or of prep_rec.py: the order is where it was.   *)
LEMMA OrderUndisturbed ==
  ASSUME OneShellInv, NEW s \in Shells, pc[s] \in Embedding \cup Recommending,
         UNCHANGED <<script, ran, reviews, chunks>>,
         pc'[s] \in Embedding <=> pc[s] \in Embedding,
         pc'[s] \in Recommending <=> pc[s] \in Recommending,
         pc'[s] = "averaged" =>
           \A u \in DOMAIN hand'[s].customers : \A p \in hand'[s].customers[u] : ~IsHeldOut(p)
  PROVE  OrderKept(s)'
<1>1. OrderKept(s)
  BY DEF OneShellInv
<1>2. \A p : IsHeldOut(p)' = IsHeldOut(p)
  BY DEF IsHeldOut
<1> QED BY <1>1, <1>2 DEF OrderKept, Chunking, Embedding, Recommending, Resting

LEMMA ReadChunksKeepsOneShell ==
  ASSUME OneShell, IInv, OneShellInv, NEW s \in Shells, ReadChunks(s)
  PROVE  OneShellInv'
<1>1. CASE Abort(s)
  BY <1>1, AbortKeepsOneShell
<1>2. CASE ~Abort(s)
  <2>1. /\ pc[s] = "next" /\ Head(script[s]) \in {"embed", "embed_full"} /\ Go(s, "chunks_read")
        /\ pc'[s] = "chunks_read" /\ UNCHANGED <<script, ran, reviews, chunks>> /\ UNCHANGED index
    BY <1>2 DEF ReadChunks, Job, Go, source, index, IInv, TypeOK, ShellsOK
  <2>2. OrderKept(s)'
    <3>1. OrderKept(s)
      BY DEF OneShellInv
    <3> QED BY <2>1, <3>1, JobInOrder, SuffixesDiffer DEF OrderKept, IsHeldOut, Chunking,
                                                          Embedding, Recommending
  <2>3. TodoIsCurrent(s)' /\ pc'[s] # "averaged"
    BY <2>1 DEF TodoIsCurrent, Recommending
  <2> QED BY <2>1, <2>2, <2>3, OnlyShellMoves
<1> QED BY <1>1, <1>2

LEMMA SyncKeepsOneShell ==
  ASSUME OneShell, IInv, OneShellInv, NEW s \in Shells, Compare(s) \/ Recreate(s) \/ Upsert(s)
  PROVE  OneShellInv'
<1>1. CASE Abort(s)
  BY <1>1, AbortKeepsOneShell
<1>2. CASE ~Abort(s)
  <2>1. PICK to \in {"compared", "recreated", "updated", "filled"} :
          /\ Go(s, to) /\ pc[s] \in Embedding
          /\ to = "compared" => Compare(s)
          /\ to = "updated" => pc[s] = "compared" /\ UNCHANGED hand
    BY <1>2 DEF Compare, Recreate, Upsert, Step, Embedding
  <2>2. /\ pc'[s] = to
        /\ UNCHANGED <<script, ran, reviews, chunks, chunk_vectors, using>> /\ UNCHANGED index
    BY <2>1 DEF Go, source, index, IInv, TypeOK, ShellsOK
  <2>3. OrderKept(s)'
    BY <2>1, <2>2, OrderUndisturbed DEF Embedding, Recommending
  <2>4. TodoIsCurrent(s)'
    <3>1. CASE to = "compared"
      <4>1. /\ chunk_vectors # NoTable /\ pc[s] = "chunks_read"
            /\ hand' = [hand EXCEPT ![s].todo =
                 Changed(hand[s].pieces, chunk_vectors.rows, using[s])]
        BY <2>1, <3>1 DEF Compare, Known
      <4>2. hand[s] = [todo |-> hand[s].todo, pieces |-> chunks]
        BY <4>1 DEF IInv, HandInStep, Embedding
      <4>3. hand'[s] = [hand[s] EXCEPT !.todo = Changed(chunks, chunk_vectors.rows, using[s])]
        BY <4>1, <4>2 DEF IInv, TypeOK, ShellsOK
      <4>4. hand'[s].todo = Changed(chunks, chunk_vectors.rows, using[s])
        BY <4>2, <4>3
      <4> QED BY <2>2, <3>1, <4>4 DEF TodoIsCurrent, Changed, Recommending
    <3>2. CASE to # "compared"
      <4>1. TodoIsCurrent(s)
        BY DEF OneShellInv
      <4> QED BY <2>1, <2>2, <3>2, <4>1 DEF TodoIsCurrent, Changed, Recommending
    <3> QED BY <3>1, <3>2
  <2> QED BY <2>2, <2>3, <2>4, OnlyShellMoves
<1> QED BY <1>1, <1>2

LEMMA CommitEmbedKeepsOneShell ==
  ASSUME OneShell, IInv, OneShellInv, NEW s \in Shells, CommitEmbed(s)
  PROVE  OneShellInv'
<1>1. /\ ShellsOK /\ pc[s] \in Embedding /\ Finish(s) /\ pc[s] \notin Resting
      /\ UNCHANGED <<reviews, chunks, product_vectors>>
  BY DEF CommitEmbed, source, IInv, TypeOK, Resting, Embedding
<1>2. pc'[s] \in {"idle", "next"}
  BY <1>1, FinishTypes
<1>3. ASSUME ran'[s] = Documented
      PROVE  /\ pc'[s] = "next" /\ script'[s] = AfterEmbed
             /\ \A id \in Ids(chunks') : ~IsHeldOut(id[1])'
  <2>1. pc'[s] = "next" /\ ran[s] = Documented /\ script'[s] = Tail(script[s])
    BY <1>1, <1>3, FinishGoesOn
  <2>2. script[s] = AfterChunk /\ \A id \in Ids(chunks) : ~IsHeldOut(id[1])
    BY <1>1, <2>1 DEF OneShellInv, OrderKept
  <2> QED BY <1>1, <2>1, <2>2, Suffixes DEF IsHeldOut
<1>4. OrderKept(s)'
  BY <1>3 DEF OrderKept, Chunking, Embedding, Recommending
<1>5. TodoIsCurrent(s)' /\ pc'[s] # "averaged"
  BY <1>2 DEF TodoIsCurrent, Recommending
<1> QED BY <1>1, <1>4, <1>5 DEF OneShellInv, OneShell, Marked

LEMMA CompareProductsKeepsOneShell ==
  ASSUME OneShell, IInv, OneShellInv, NEW s \in Shells, CompareProducts(s)
  PROVE  OneShellInv'
<1> DEFINE texts == [p \in {q \in Products : product[q] # NoRow} |-> product[p]]
           fresh == MustRecreateProducts(using[s])
           known == IF fresh THEN <<>> ELSE product_vectors.rows
           todo == Changed(texts, known, using[s])
           new == [todo |-> todo, pieces |-> texts, fresh |-> fresh, customers |-> <<>>]
<1>1. /\ pc[s] = "next" /\ Head(script[s]) = "vectors" /\ Go(s, "compared_products")
      /\ hand' = [hand EXCEPT ![s] = new]
  BY DEF CompareProducts, Job
<1>2. /\ pc'[s] = "compared_products" /\ UNCHANGED index
      /\ UNCHANGED <<script, ran, reviews, chunks, product_vectors, using>>
      /\ DOMAIN hand = Shells
  BY <1>1 DEF Go, source, index, IInv, TypeOK, ShellsOK
<1>3. OrderKept(s)'
  <2>1. OrderKept(s)
    BY DEF OneShellInv
  <2> QED BY <1>1, <1>2, <2>1, JobInOrder, SuffixesDiffer DEF OrderKept, IsHeldOut, Chunking,
                                                              Embedding, Recommending
<1>4. ~fresh => Marked(product_vectors)
  BY DEF MustRecreateProducts, OneShellInv
<1>5. hand'[s].todo = todo /\ hand'[s].pieces = texts /\ hand'[s].fresh = fresh
  <2> HIDE DEF todo, texts, fresh
  <2> QED BY <1>1, <1>2
<1>6. TodoIsCurrent(s)'
  <2> HIDE DEF texts, fresh
  <2> QED BY <1>2, <1>4, <1>5 DEF TodoIsCurrent, Marked, Changed, Recommending
<1> QED BY <1>2, <1>3, <1>6, OnlyShellMoves

LEMMA BuildProductsKeepsOneShell ==
  ASSUME OneShell, IInv, OneShellInv, NEW s \in Shells, BuildProducts(s)
  PROVE  OneShellInv'
<1>1. CASE Abort(s)
  BY <1>1, AbortKeepsOneShell
<1>2. CASE ~Abort(s)
  <2>1. pc[s] = "compared_products" /\ Go(s, "products_built") /\ UNCHANGED hand
    BY <1>2 DEF BuildProducts
  <2>2. /\ pc'[s] = "products_built" /\ UNCHANGED index
        /\ UNCHANGED <<script, ran, reviews, chunks, product_vectors, using>>
    BY <2>1 DEF Go, source, index, IInv, TypeOK, ShellsOK
  <2>3. OrderKept(s)'
    BY <2>1, <2>2, OrderUndisturbed DEF Embedding, Recommending
  <2>4. TodoIsCurrent(s)
    BY DEF OneShellInv
  <2>5. TodoIsCurrent(s)'
    BY <2>1, <2>2, <2>4 DEF TodoIsCurrent, Marked, Changed, Recommending
  <2> QED BY <2>2, <2>3, <2>5, OnlyShellMoves
<1> QED BY <1>1, <1>2

LEMMA AverageKeepsOneShell ==
  ASSUME OneShell, IInv, OneShellInv, NEW s \in Shells, Average(s)
  PROVE  OneShellInv'
<1>1. CASE Abort(s)
  BY <1>1, AbortKeepsOneShell
<1>2. CASE ~Abort(s)
  <2> DEFINE shown == {p \in PurchaseIds :
                         /\ reviews[p] # NoRow /\ ~reviews[p].is_holdout
                         /\ \E id \in DOMAIN chunk_vectors.rows : id[1] = p}
             means == [u \in {Buyer[p] : p \in shown} |-> {p \in shown : Buyer[p] = u}]
  <2>1. /\ pc[s] = "products_built" /\ chunk_vectors # NoTable /\ Go(s, "averaged")
        /\ hand' = [hand EXCEPT ![s].customers = means]
    BY <1>2 DEF Average
  <2>2. /\ pc'[s] = "averaged" /\ UNCHANGED index
        /\ UNCHANGED <<script, ran, reviews, chunks, product_vectors, using>>
        /\ DOMAIN hand = Shells
    BY <2>1 DEF Go, source, index, IInv, TypeOK, ShellsOK
  <2>3. \A u \in DOMAIN means : \A p \in means[u] : ~IsHeldOut(p)
    BY DEF IsHeldOut
  <2> HIDE DEF means
  <2>4. hand'[s] = [hand[s] EXCEPT !.customers = means]
    BY <2>1, <2>2
  <2>5. /\ hand'[s].todo = hand[s].todo /\ hand'[s].pieces = hand[s].pieces
        /\ hand'[s].fresh = hand[s].fresh /\ hand'[s].customers = means
    <3>1. hand[s] = [todo |-> hand[s].todo, pieces |-> hand[s].pieces,
                     fresh |-> hand[s].fresh, customers |-> hand[s].customers]
      BY <2>1 DEF IInv, ProductsInStep, Recommending
    <3> QED BY <2>4, <3>1
  <2>6. OrderKept(s)'
    BY <2>1, <2>2, <2>3, <2>5, OrderUndisturbed DEF Embedding, Recommending
  <2>7. TodoIsCurrent(s)
    BY DEF OneShellInv
  <2>8. TodoIsCurrent(s)'
    BY <2>1, <2>2, <2>5, <2>7 DEF TodoIsCurrent, Marked, Changed, Recommending
  <2> QED BY <2>1, <2>2, <2>6, <2>8, OnlyShellMoves
<1> QED BY <1>1, <1>2

(* What an incremental run leaves has the right mark for every text.       *)
LEMMA CaughtUp ==
  ASSUME NEW s \in Shells, NEW old,
         hand[s].todo = Changed(hand[s].pieces, old, using[s]),
         \A k \in DOMAIN old : old[k].source_hash = old[k].vector
  PROVE  /\ UpToDate(NewRows(s, old), using[s], hand[s].pieces)
         /\ \A k \in DOMAIN NewRows(s, old) :
              NewRows(s, old)[k].source_hash = NewRows(s, old)[k].vector
<1> DEFINE pieces == hand[s].pieces
           todo == hand[s].todo
<1>1. todo \subseteq Ids(pieces) /\ \A id \in Ids(pieces) \ todo :
        id \in DOMAIN old /\ old[id].source_hash = <<using[s], pieces[id]>>
  BY DEF Changed, Mark
<1>2. DOMAIN NewRows(s, old) = Ids(pieces)
  BY <1>1 DEF NewRows
<1>3. ASSUME NEW id \in Ids(pieces)
      PROVE  /\ NewRows(s, old)[id].vector = <<using[s], pieces[id]>>
             /\ NewRows(s, old)[id].source_hash = <<using[s], pieces[id]>>
  <2>1. CASE id \in todo
    <3>1. NewRows(s, old)[id] = Embedded(using[s], pieces[id])
      BY <1>2, <2>1 DEF NewRows
    <3> QED BY <3>1 DEF Embedded, Mark
  <2>2. CASE id \notin todo
    <3>1. NewRows(s, old)[id] = old[id]
      BY <1>1, <2>2 DEF NewRows
    <3> QED BY <1>1, <2>2, <3>1
  <2> QED BY <2>1, <2>2
<1> QED BY <1>2, <1>3 DEF UpToDate

(* What the COMMIT of prep_rec.py vectors leaves of the products.          *)
LEMMA ProductsCaughtUp ==
  ASSUME IInv, OneShellInv, NEW s \in Shells, CommitVectors(s)
  PROVE  Marked(product_vectors') /\ UpToDate(product_vectors'.rows, using[s], hand[s].pieces)
<1>1. /\ pc[s] = "averaged"
      /\ product_vectors' = IF hand[s].fresh
                            THEN [dim |-> Dim[using[s]], rows |-> NewRows(s, <<>>)]
                            ELSE [product_vectors EXCEPT !.rows = NewRows(s, @)]
  BY DEF CommitVectors
<1>2. /\ hand[s].todo = Changed(hand[s].pieces,
                         IF hand[s].fresh THEN <<>> ELSE product_vectors.rows, using[s])
      /\ ~hand[s].fresh => Marked(product_vectors)
      /\ ~hand[s].fresh => DOMAIN product_vectors = {"dim", "rows"}
  BY <1>1 DEF OneShellInv, TodoIsCurrent, IInv, ProductsInStep, TakesProducts, Recommending
<1>3. CASE hand[s].fresh
  <2> DEFINE none == <<>>
             rows == NewRows(s, none)
  <2>1. hand[s].todo = Changed(hand[s].pieces, none, using[s]) /\ DOMAIN none = {}
    BY <1>2, <1>3
  <2>2. product_vectors' = [dim |-> Dim[using[s]], rows |-> rows]
    BY <1>1, <1>3
  <2> HIDE DEF none
  <2>3. /\ UpToDate(rows, using[s], hand[s].pieces)
        /\ \A k \in DOMAIN rows : rows[k].source_hash = rows[k].vector
    BY <2>1, CaughtUp
  <2> HIDE DEF rows
  <2> QED BY <2>2, <2>3 DEF Marked
<1>4. CASE ~hand[s].fresh
  <2> DEFINE rows == NewRows(s, product_vectors.rows)
  <2>1. product_vectors' = [product_vectors EXCEPT !.rows = rows]
    BY <1>1, <1>4
  <2>2. /\ UpToDate(rows, using[s], hand[s].pieces)
        /\ \A k \in DOMAIN rows : rows[k].source_hash = rows[k].vector
    BY <1>2, <1>4, CaughtUp DEF Marked
  <2> HIDE DEF rows
  <2>3. product_vectors'.rows = rows
    BY <1>2, <1>4, <2>1
  <2> QED BY <2>2, <2>3 DEF Marked
<1> QED BY <1>3, <1>4

LEMMA CommitVectorsKeepsOneShell ==
  ASSUME OneShell, IInv, OneShellInv, NEW s \in Shells, CommitVectors(s)
  PROVE  OneShellInv'
<1>1. ShellsOK /\ pc[s] = "averaged" /\ Finish(s) /\ pc[s] \notin Resting
  BY DEF CommitVectors, IInv, TypeOK, Resting
<1>2. pc'[s] \in {"idle", "next"}
  BY <1>1, FinishTypes
<1>3. ran'[s] # Documented
  <2> SUFFICES ASSUME ran'[s] = Documented PROVE FALSE
    OBVIOUS
  <2>1. ran[s] = Documented /\ Len(script[s]) > 1
    BY <1>1, FinishGoesOn
  <2>2. script[s] = AfterEmbed
    BY <1>1, <2>1 DEF OneShellInv, OrderKept, Recommending
  <2> QED BY <2>1, <2>2, Suffixes
<1>4. OrderKept(s)'
  BY <1>3 DEF OrderKept
<1>5. TodoIsCurrent(s)' /\ pc'[s] # "averaged"
  BY <1>2 DEF TodoIsCurrent, Recommending
<1>6. Marked(product_vectors)'
  BY ProductsCaughtUp DEF Marked
<1> QED BY <1>4, <1>5, <1>6 DEF OneShellInv, OneShell

(* Nobody outside sets a review aside, or touches the tables of the jobs.  *)
LEMMA OutsideKeepsOneShell ==
  ASSUME OneShellInv, UNCHANGED <<index, shell>>, \A p : IsHeldOut(p)' => IsHeldOut(p)
  PROVE  OneShellInv'
<1> USE DEF index, shell
<1>1. (product_vectors # NoTable => Marked(product_vectors))'
  BY DEF OneShellInv, Marked
<1>2. ASSUME NEW s \in Shells PROVE TodoIsCurrent(s)'
  BY DEF OneShellInv, TodoIsCurrent, Changed, Marked
<1>3. ASSUME NEW s \in Shells PROVE OrderKept(s)'
  <2>1. OrderKept(s)
    BY DEF OneShellInv
  <2> HIDE DEF index, shell
  <2>2. UNCHANGED <<pc, script, ran, hand, chunks>>
    BY DEF index, shell
  <2> QED BY <2>1, <2>2 DEF OrderKept
<1> QED BY <1>1, <1>2, <1>3 DEF OneShellInv

LEMMA WriteReviewKeepsOneShell ==
  ASSUME IInv, OneShellInv, NEW p \in PurchaseIds, NEW body \in Written, WriteReview(p, body)
  PROVE  OneShellInv'
<1>1. /\ reviews' = [reviews EXCEPT ![p] = [body |-> body, is_holdout |-> FALSE]]
      /\ UNCHANGED <<index, shell>> /\ DOMAIN reviews = PurchaseIds
  BY DEF WriteReview, IInv, TypeOK, Reviews
<1>2. \A q : IsHeldOut(q)' => IsHeldOut(q)
  BY <1>1 DEF IsHeldOut
<1> QED BY <1>1, <1>2, OutsideKeepsOneShell

LEMMA NextKeepsOneShell ==
  OneShell /\ IInv /\ OneShellInv /\ [Next]_vars => OneShellInv'
<1> SUFFICES ASSUME OneShell, IInv, OneShellInv, [Next]_vars PROVE OneShellInv'
  OBVIOUS
<1>1. ASSUME NEW s \in Shells, Waiting(s) PROVE OneShellInv'
  BY <1>1, LoadKeepsOneShell, MarkHoldoutKeepsOneShell, SaveChunksKeepsOneShell,
     ReadChunksKeepsOneShell, SyncKeepsOneShell, CompareProductsKeepsOneShell,
     BuildProductsKeepsOneShell, AverageKeepsOneShell DEF Waiting
<1>2. ASSUME NEW s \in Shells, Proceed(s) PROVE OneShellInv'
  BY <1>2, CommitHoldoutKeepsOneShell, FetchRowsKeepsOneShell, CommitChunkKeepsOneShell,
     CommitEmbedKeepsOneShell, CommitVectorsKeepsOneShell DEF Proceed
<1>3. ASSUME NEW s \in Shells, Fail(s) \/ DeadlockVictim(s) PROVE OneShellInv'
  BY <1>3, AbortKeepsOneShell DEF Fail, DeadlockVictim
<1>4. ASSUME UNCHANGED <<reviews, index, shell>> PROVE OneShellInv'
  BY <1>4, OutsideKeepsOneShell DEF IsHeldOut
<1>5. ASSUME NEW p \in Products, NEW details \in Details, UpdateProduct(p, details)
      PROVE  OneShellInv'
  BY <1>4, <1>5 DEF UpdateProduct
<1>6. ASSUME (\E m \in ServerModels : StartServer(m)) \/ StopServer \/ UNCHANGED vars
      PROVE  OneShellInv'
  BY <1>4, <1>6 DEF StartServer, StopServer, source, vars
<1> QED BY <1>1, <1>2, <1>3, <1>5, <1>6, BeginScriptKeepsOneShell, WriteReviewKeepsOneShell
        DEF Next

LEMMA InitOneShell == Init => OneShellInv
BY DEF Init, OneShellInv, TodoIsCurrent, OrderKept, Recommending, Chunking, Embedding, Resting,
       AfterChunk, AfterEmbed

(* Only its own COMMIT takes a job from its last statement to the next job.*)
LEMMA CommittedBy ==
  ASSUME OneShell, IInv, [Next]_vars, NEW s \in Shells, Committed(s)
  PROVE  /\ pc[s] \in {"updated", "filled"} => CommitEmbed(s)
         /\ pc[s] = "averaged" => CommitVectors(s)
<1> SUFFICES ASSUME pc[s] \in {"updated", "filled", "averaged"}
             PROVE  CommitEmbed(s) \/ CommitVectors(s)
  BY DEF CommitEmbed, CommitVectors
<1>1. pc' # pc
  BY DEF Committed
<1>2. ~UNCHANGED shell
  BY <1>1 DEF shell
<1>3. PICK t \in Shells :
        BeginScript(t) \/ Waiting(t) \/ Proceed(t) \/ Fail(t) \/ DeadlockVictim(t)
  BY <1>2 DEF Next, WriteReview, UpdateProduct, StartServer, StopServer, vars, shell
<1>4. t = s
  BY DEF OneShell
<1>5. ~Abort(s)
  BY DEF Abort, Rest, Committed, IInv, TypeOK, ShellsOK
<1>6. ~BeginScript(s)
  BY DEF BeginScript, Resting
<1>7. ~Waiting(s)
  BY <1>5 DEF Waiting, Load, MarkHoldout, DropVectors, ReplaceChunks, ReadChunks, Compare,
              Recreate, Upsert, CompareProducts, BuildProducts, Average, Job, Step
<1> QED BY <1>3, <1>4, <1>5, <1>6, <1>7 DEF Proceed, CommitHoldout, FetchRows, CommitChunk, Job,
                                            Fail, DeadlockVictim

(* What embed.py leaves of the chunks.                                     *)
LEMMA ChunksCaughtUp ==
  ASSUME IInv, OneShellInv, NEW s \in Shells, CommitEmbed(s)
  PROVE  UpToDate(chunk_vectors'.rows, using[s], chunks')
<1>1. PICK m \in Models :
        /\ chunk_vectors' = VectorsOf(m, chunks)
        /\ hand[s].todo # {} => m = using[s]
        /\ hand[s].todo = {} => pc[s] = "updated" /\ chunk_vectors' = chunk_vectors
  BY CommitEmbedMakes
<1>2. chunks \in ChunkTables /\ chunks' = chunks /\ Ids(chunks) # {}
  BY CommitEmbedMakes DEF ChunkTables
<1>3. m = using[s]
  <2> SUFFICES ASSUME hand[s].todo = {} PROVE m = using[s]
    BY <1>1
  <2>1. hand[s].todo = Changed(chunks, VectorsOf(m, chunks).rows, using[s])
    BY <1>1 DEF OneShellInv, TodoIsCurrent
  <2> QED BY <1>2, <2>1, AllOrNothing
<1> QED BY <1>1, <1>2, <1>3 DEF UpToDate, VectorsOf, Embedded, Ids

(* The reviews that are set aside, after the COMMIT of the last job.       *)
LEMMA HeldOutStayOut ==
  ASSUME IInv, OneShellInv, NEW s \in Shells, CommitVectors(s), ran[s] = Documented
  PROVE  NothingHeldOutIsIndexed'
<1>1. /\ pc[s] = "averaged" /\ customer_vectors' = hand[s].customers
      /\ UNCHANGED <<reviews, chunk_vectors>>
  BY DEF CommitVectors, source
<1>2. DOMAIN chunk_vectors.rows = Ids(chunks)
  BY <1>1 DEF OneShellInv, IInv, IndexMade, VectorsOf
<1>3. OrderKept(s) /\ script[s] = AfterEmbed
  BY <1>1 DEF OneShellInv, OrderKept, Recommending
<1>4. /\ \A id \in Ids(chunks) : ~IsHeldOut(id[1])
      /\ \A u \in DOMAIN hand[s].customers : \A p \in hand[s].customers[u] : ~IsHeldOut(p)
  BY <1>1, <1>3 DEF OrderKept
<1>5. ASSUME NEW p \in PurchaseIds, reviews'[p] # NoRow, reviews'[p].is_holdout
      PROVE  /\ \A id \in DOMAIN chunk_vectors'.rows : id[1] # p
             /\ \A u \in DOMAIN customer_vectors' : p \notin customer_vectors'[u]
  <2>1. IsHeldOut(p)
    BY <1>1, <1>5 DEF IsHeldOut
  <2> QED BY <1>1, <1>2, <1>4, <2>1
<1> QED BY <1>5 DEF NothingHeldOutIsIndexed

(* With one shell, after embed.py and after prep_rec.py every chunk and    *)
(* every product has the vector of its present text and of the model of    *)
(* the job, and nothing else has one.                                      *)
THEOREM OneShellJobsCatchUp == OneShell /\ Spec => JobsCatchUp
<1>1. OneShell /\ IInv /\ OneShellInv /\ [Next]_vars =>
        [\A s \in Shells :
           /\ pc[s] \in {"updated", "filled"} /\ Committed(s)
                => UpToDate(chunk_vectors'.rows, using[s], chunks')
           /\ pc[s] = "averaged" /\ Committed(s)
                => UpToDate(product_vectors'.rows, using[s], hand[s].pieces)]_vars
  BY CommittedBy, ChunksCaughtUp, ProductsCaughtUp
<1>2. OneShell => OneShell'
  BY DEF OneShell
<1> QED BY <1>1, <1>2, InitOneShell, NextKeepsOneShell, SpecIInv, PTL DEF Spec, JobsCatchUp

(* With one shell, the documented order of the jobs keeps every review     *)
(* that is set aside out of the vectors, whatever was there before.        *)
THEOREM OneShellHidesHoldout == OneShell /\ Spec => DocumentedOrderHidesHoldout
<1>1. OneShell /\ IInv /\ OneShellInv /\ [Next]_vars =>
        [\A s \in Shells :
           pc[s] = "averaged" /\ Committed(s) /\ ran[s] = Documented
             => NothingHeldOutIsIndexed']_vars
  BY CommittedBy, HeldOutStayOut
<1>2. OneShell => OneShell'
  BY DEF OneShell
<1> QED BY <1>1, <1>2, InitOneShell, NextKeepsOneShell, SpecIInv, PTL
        DEF Spec, DocumentedOrderHidesHoldout

-----------------------------------------------------------------------------
(* verify.py.                                                              *)

(* Nothing of the check writes to a table.                                 *)
LEMMA VerifyingIsNext == [NextVerify]_allvars => [Next]_vars
<1> SUFFICES ASSUME [NextVerify]_allvars PROVE [Next]_vars
  OBVIOUS
<1>1. Meanwhile => Next
  BY DEF Meanwhile, Next
<1>2. Elsewhere => Next
  BY <1>1 DEF Elsewhere
<1>3. ASSUME NEW m \in Models, CountTables(m) PROVE UNCHANGED vars
  BY <1>3 DEF CountTables
<1>4. ReadVectors \/ Report => UNCHANGED vars
  BY DEF ReadVectors, Report, End
<1>5. UNCHANGED allvars => UNCHANGED vars
  BY DEF allvars
<1> QED BY <1>2, <1>3, <1>4, <1>5 DEF NextVerify

(* SpecVerify is a behaviour of the jobs.                                  *)
THEOREM VerifyRunsJobs == SpecVerify => Spec
BY VerifyingIsNext, PTL DEF SpecVerify, Spec, InitVerify

(* What check_vector_data has read still holds when the report is made.    *)
ReadInStep ==
  verifying = "read" =>
    /\ chunk_vectors # NoTable
    /\ found = {} => embedding_meta.model = checked

LEMMA NextKeepsReadInStep ==
  ReadInStep /\ [NextVerify]_allvars => ReadInStep'
<1> SUFFICES ASSUME ReadInStep, [NextVerify]_allvars PROVE ReadInStep'
  OBVIOUS
<1>1. ASSUME NEW m \in Models, CountTables(m) PROVE ReadInStep'
  BY <1>1 DEF CountTables, ReadInStep
<1>2. ASSUME ReadVectors PROVE ReadInStep'
  BY <1>2 DEF ReadVectors, End, ReadInStep, vars, index
<1>3. ASSUME Report PROVE ReadInStep'
  BY <1>3 DEF Report, End, ReadInStep
<1>4. ASSUME Elsewhere PROVE ReadInStep'
  <2>1. verifying' = "read" => verifying = "read" /\ Meanwhile
    BY <1>4 DEF Elsewhere, Verifying
  <2>2. Meanwhile => UNCHANGED index
    BY DEF Meanwhile, WriteReview, UpdateProduct, StartServer, StopServer
  <2>3. UNCHANGED <<checked, found>>
    BY <1>4 DEF Elsewhere
  <2> QED BY <2>1, <2>2, <2>3 DEF ReadInStep, index
<1>5. ASSUME UNCHANGED allvars PROVE ReadInStep'
  BY <1>5 DEF allvars, vars, index, verification, ReadInStep
<1> QED BY <1>1, <1>2, <1>3, <1>4, <1>5 DEF NextVerify

LEMMA PassesQuietly ==
  ASSUME IInv, ReadInStep, [NextVerify]_allvars, Passes
  PROVE  Problems(checked) = {}
<1>1. verifying = "read" /\ verifying' = "passed"
  BY DEF Passes
<1>2. found = {}
  BY <1>1 DEF NextVerify, CountTables, ReadVectors, Report, End, Elsewhere, Verifying, allvars,
              verification
<1>3. Problems(embedding_meta.model) = {}
  BY <1>1, IndexMadeMatches DEF ReadInStep, NoFalseAlarm
<1> QED BY <1>1, <1>2, <1>3 DEF ReadInStep

(* When verify.py has said that all is well, a server that is started with *)
(* its model has nothing to warn about, whatever the jobs did before.      *)
THEOREM SpecPassedMeansQuiet == SpecVerify => PassedMeansQuiet
<1>1. InitVerify => ReadInStep
  BY DEF InitVerify, ReadInStep
<1>2. IInv /\ ReadInStep /\ [NextVerify]_allvars => [Passes => Problems(checked) = {}]_allvars
  BY PassesQuietly
<1> QED BY <1>1, <1>2, NextKeepsReadInStep, VerifyRunsJobs, SpecIInv, PTL
        DEF SpecVerify, PassedMeansQuiet

=============================================================================
