# Specifications of "오늘뭐멍냥" (dev-data-embed)

The program is a shop for pet food with a search over customer reviews: a FastAPI
backend (`src/app`), a PostgreSQL database with pgvector, an LLM behind a LangGraph
graph, and an offline pipeline (`src/pipeline`) that turns reviews into the search
index. This directory holds TLA+ models of the parts where order, concurrency and
failure matter, the TLC configurations that check them on small instances, and proofs
that TLAPS checks for every instance.

- [1. The system](#1-the-system)
- [2. The modules](#2-the-modules)
- [3. What is checked](#3-what-is-checked)
- [4. What is proved](#4-what-is-proved)
- [5. Disagreements found between code and documents](#5-disagreements-found-between-code-and-documents)
- [6. What is not modelled](#6-what-is-not-modelled)
- [7. Plan](#7-plan)
- [8. Running the tools](#8-running-the-tools)

## 1. The system

### How requests run

All routes are plain `def` functions: FastAPI runs each in a worker thread (40 of
them), and `app.core.db.get_db` gives each request one SQLAlchemy session, closed
after the response. PostgreSQL runs at READ COMMITTED: a statement sees what is
committed when it starts, an UPDATE locks its rows until the transaction ends, and an
INSERT of a unique key waits for another transaction that has inserted the same key.
Nothing in the program takes a lock of its own around the database, so what keeps
concurrent requests apart is exactly those row locks and key waits, the conditions in
the UPDATEs, and where the commits are. That is what the models of the requests are
about. `/ask` is different: the route returns a `StreamingResponse`, and the graph
behind it starts nodes of its own in parallel threads.

The pipeline jobs (`python -m pipeline.chunk` and so on) are separate processes, each
one transaction (`engine.begin()`), started by hand, in an order the operator has to
know, on the database that the server is using.

### Components

| component | state | operations | talks to | what is hard | what makes it correct |
|---|---|---|---|---|---|
| Purchases, reviews, credit (`services/purchases.py`, `repositories/purchases.py`, `repositories/users.py`) | `user.credit_krw`, `purchase`, `review` | buy, write a review, list | products (price), pets (which pet) | several requests of one member; credit and purchase in two statements; commit or read-back fails | credit never negative, every won accounted for, one review per purchase by its owner |
| Accounts (`services/auth.py`, `services/customers.py`, `repositories/users.py`, `repositories/pet.py`) | `user`, `pet`, `pet_allergy`, `pet_survey` | sign up, demo sign-up, create, update, own update, withdraw, log in | every other request through the token | two unique keys and row locks taken in different orders; several tables in one transaction | no half accounts, logins stay unique, an update is all or nothing |
| Ask graph and quota (`graph/*.py`, `routes/ask.py`, `services/questions.py`) | the graph's state per stream, `customer_question` | plan, retrieve, run_tools, generate, check; refuse | search, LLM, database | two nodes in parallel and a join; failures in any node; clients that leave; quota judged at the start, recorded at the end | events in a usable order, an end for every stream, one record per question, a bounded overshoot of the quota |
| Index pipeline and freshness check (`pipeline/*.py`, `adapters/vector_store.py`, `services/retrieve.py`, `api/lifespan.py`) | `review.is_holdout`, `chunks`, `chunk_vectors`, `embedding_meta`, `product_vectors`, `customer_vectors` | load, holdout, chunk, embed, vectors, verify, the check at start-up | the embedding model; the server reads the tables meanwhile | five jobs in one order, run by hand, also at once; DROP and CREATE; incremental embedding; model changes | the vectors fit the chunks and the model, held-out reviews are not indexed, the check warns when they do not fit |
| Search and recommendation (`services/retrieve.py`, `searching.py`, `recommending.py`, `profile.py`, `strategy.py`) | none of its own | search, candidates, recommend with retries, similar reviews | index, products, LLM | several cuts of ranked lists; tables reloaded between two reads | nothing better is left out, nothing with an allergen of the pet is offered, every request ends |
| Allergy verdicts and master caches (`domain/safty.py`, `common.py`, `products.py`, `domain_init.py`, view `v_product_safety`) | master tables cached at start-up | judge, resolve, spread out categories | database at start-up | the same verdict computed in three places, caches that age | the three agree; a stale cache is an error, not a wrong offer |
| Product administration (`services/products.py`, `repositories/products.py`) | `product` and its link tables | list, detail, create, update, deactivate | search and buy read the rows | deactivation under running requests | a deactivated product is not recommended |
| Rate limiter (`api/ratelimit.py`) | a window of hit times per client | call | logins and questions | clock read before the lock | at most n calls in a window, an honest Retry-After |
| Connection pool (`core/db.py`, `services/searching.py`) | 10 + 20 connections | check out, return | every request | a request holds one connection and needs a second | nothing leaks, no request starves |
| Data generation and loading (`pipeline/make_data/gen_seed.py`, `pipeline/load_csv.py`) | rows being drawn, CSV files | draw, move, load | the database | times of different tables, ids given by the files | the rows fit each other and the schema |
| Verification (`pipeline/verify.py`, `prep/verifying.py`) | a list of problems | read and report | the tables of the index | a part is missing, stale or of another model | what it passes is usable |
| Schema, migrations | DDL | batch | - | - | declarative |
| Evaluation (`src/eval`) | files | batch | LLM | - | offline measurement |
| External clients, prompts, masking, configuration, logging, tokens | - | - | - | token outlives the account | - |

`PROJECT.json` lists the same components with their files and status, and under
`hazards` every place where one of these difficulties bites, with the properties that
would catch it going wrong.

## 2. The modules

| module | models | composes |
|---|---|---|
| `Ledger` | what the shop promises: a purchase takes its price from the credit and enters the history in one step; each entry can be reviewed once | |
| `Purchasing` | buying and reviewing, statement by statement | implements `Ledger` |
| `MCPurchasing` + 1 cfg | instances | |
| `PurchasingProofs` | the theorems about `Purchasing` | |
| `Registry` | what the member registry promises: registration, change and withdrawal in one step each | |
| `Accounts` | sign-up, changes, withdrawal and login, statement by statement | implements `Registry` |
| `MCAccounts` + 1 cfg | instances | |
| `AccountsProofs` | the theorems about `Accounts` | |
| `Transcript` | the order of events a client of the stream may rely on | |
| `AskStream` | the graph's nodes, the stream, the records and the quota | implements `Transcript` |
| `MCAskStream` + 1 cfg | instances | |
| `AskStreamProofs` | the theorems about `AskStream` | |
| `IndexPipeline` | the pipeline's jobs, the tables they leave, the freshness check | |
| `MCIndexPipeline` + 2 cfg | instances | |
| `Verify` | verify.py, between the jobs | extends `IndexPipeline` |
| `MCVerify` + 1 cfg | the instance of `MCIndexPipeline` with verify.py | |
| `IndexPipelineProofs` | the theorems about `IndexPipeline` and `Verify` | |
| `Catalogue` | what members are offered: caches, verdicts, search, recommendation, demo sign-up, deactivation | |
| `MCCatalogue` + 3 cfg | instances | |
| `CatalogueProofs` | the theorems about `Catalogue` | uses `Recursion` |
| `Traffic` | the rate limiter and the connection pool in front of the requests | |
| `MCTraffic` + 1 cfg | instances | |
| `TrafficProofs` | the theorems about `Traffic` | |
| `SeedData` | the synthetic shop of gen_seed.py, its load, the sign-ups after it | |
| `MCSeedData` + 2 cfg | instances | |
| `SeedDataProofs` | the theorems about `SeedData` | uses `Recursion` |
| `Recursion` | induction and recursion over the naturals, for the two above | |

In all of them a step is one statement (or commit) of the code as the database sees it,
or one node's step in the graph. Where a request or a job stands is in `pc` (`stage`,
`planning`, `retrieving` for the graph); what it has read is in `req`, `row` or `hand`.
A `Fail` action ends a request or a job at any statement, `Crash` ends all of them,
and both discard what was not committed (`Catalogue` and `Traffic`, whose subject is not
a transaction, have coarser steps and say which).

### Purchasing

`BeginBuy` is `buy` up to the price (primary pet: 409 without one; product: 404),
`SpendCredit` is the conditional UPDATE of `spend_credit` (it waits for the row lock,
then judges the committed balance; zero rows is a 409), `InsertPurchase` the flushed
INSERT with an id from a sequence that is not rolled back, `CommitPurchase` the commit
after which balance and row are visible together, `AnswerBuy` the read-back.
`BeginReview`, `InsertReview`, `CommitReview` are `write_review`: ownership, then the
INSERT with its CHECK and its primary key. `SetPrice` and `CreateProduct` are the
administrator's requests as far as a purchase sees them. The `credit_krw` of a purchase
row is the balance its response reports. Quantity, rating and price come from small
sets; a review's text is only "blank or not", which is all the CHECK tells apart.

### Accounts

A registration is `BeginRegister`, `CreateUser` (a CHECK before the unique indexes),
`CreatePet`, `CommitRegister` (which flushes allergies and survey), `AnswerRegister`.
A change is `BeginUpdate`, `UpdateUser`, `IndexEmail` (the unique index of the new
address), `UpdatePet`, `DeleteAllergies`, `CommitUpdate`, `AnswerUpdate`; the member's
own PATCH is the same without the e-mail. Withdrawal and login are two and two steps.
`WaitsFor(t)` says whose transaction the next statement of `t` waits for, from the row
locks and keys the others hold; `DeadlockVictim` is PostgreSQL's deadlock detector.
`refused` in a request says which row of it a CHECK of the schema would refuse: the
columns behind it are not modelled. Members never lose rows (withdrawal sets a flag).

### AskStream

`planning` and `retrieving` are the two nodes LangGraph starts in parallel from START;
`Joined` is the edge from both into `run_tools`; `stage` is everything after it.
Every event that a node writes is one step (`SendFacts`, `SendSources`, `SendDelta`,
`Check`, `SendDone`, ...), so that streams and disconnects interleave between them.
`Log` is `log_customer_question`, which gives up silently when it cannot write.
`Disconnect` closes the stream: the nodes that are running run on (they are threads),
later ones are not started. `rows` counts today's records of a member, as
`questions_left_today` does. `logged` is a history variable: how many records this
question has left. What the search finds ("some", "none", an exception) and what the
LLM does (answer, failure, tool or not, verdict or none) are choices.

### IndexPipeline

A shell runs a script, a sequence of jobs, with one `EMBED_MODEL`. Each job is a
transaction whose statements wait for the table locks other transactions hold
(`WaitsFor`); what it writes appears at its commit. `holdout` is `MarkHoldout`,
`CommitHoldout`; `chunk` is `FetchRows`, `DropVectors`, `ReplaceChunks`, `CommitChunk`;
`embed` is `ReadChunks`, then `Compare` (incremental) or `Recreate`, `Upsert`,
`CommitEmbed`; `vectors` is `CompareProducts`, `BuildProducts`, `Average`,
`CommitVectors`. `Rest` ends a script, at its end or where a job failed, as a shell does
with `&&` or with an operator who reads the error. `StartServer` is the start-up check:
`Problems(m)` is `check_freshness` with the server's model. `chunk` takes its lock on
`chunk_vectors` with the DROP that finds the table, whichever of its two statements that is
(`RewritesVectors`), and with the same statement, for the foreign key, its lock on `chunks`: in
"vectors_locked" it has the first and waits for the second. A text is a model value; a
constant function `Split` gives its pieces for each model, `Tokens` their lengths, and
the vector that a model makes of a text is the pair of both.

Simplifications: the text of a chunk depends on the review alone (the code also puts
pet and product data into the document); `chunk_index` counts from 1; `load_csv` is one
step, since its first statements lock every table exclusively until it commits; a later
purchase has a higher id, so that ordering by date and by id agree; `load` can replace
the reviews by any of the CSV contents in `Loads`.

### Verify

The sections of verify.py in their order: `CountTables` is `check_table_data`,
`ReadVectors` is `check_vector_data`, `check_vector_storage` and `check_token_sizes`,
`Report` is the comparison, the samples and the verdict. `found` is the list of
problems. A section ends the run with an exception where the code does (a missing
table, vectors that cannot be multiplied); otherwise the run goes on and reports. It is run
from the shell of the jobs, so that no job runs at the same time, while `Meanwhile`
(reviews, product changes, servers) goes on between its sections. Its comparison of
recommendations, hit rates and samples is left out as far as it is only printed. Who has
bought and reviewed nothing is no part of `IndexPipeline`: `silent` is any set of members
that the purchases without a review allow.

### Catalogue

The master tables are `allergen` (a forest; `parent` 0 is a root) and `carries`
(`ingredient_allergen`); a server's copy is `cache`, taken by `init_from_db` at its start
and never again. `update_customer` and `register` turn names into ids in that copy
(`resolve_allergen_ids`, with everything below); `pet_profile` turns a pet's ids back into
names; `PassesAllergy` compares names in the tables. `wanted` is a history variable: the
names a member has picked, as long as the ids mean them.

`Begin`, `primary_pet`, `pet_profile`, `candidates`, `candidates_for_queries` are GET
/me/recommend, one question after the other, and, from `similar_reviews_for` on, the
similar reviews of an administrator's page, which search for one product more than they show
(`Searched`) and leave one out (`Shown`). `Ask`, `search_asked`,
`find_products_by_purchase_ids`, `recommend` are POST /recommend with its attempts.
`register`, `sample`, `buy`, `write_review` are `poc_signup`, each a transaction of its
own. `search` is a predicate on the hits, true of every list that PostgreSQL's order and
the two cuts can give for the chosen similarities. `request.ideal` is a history variable:
the rates of every product that suits, not cut.

load_csv.py drops its tables one after another in one transaction (`drop_all`, the tables
that refer first): review, then purchase, whose foreign keys also ask for `pet` and
`product`. Each lock it gets it keeps while it waits for the next one. `begin_load` is the
request for the first: from then on (`loading`) nobody gets to review or purchase any more
(`~loading` in the actions that read or write them). `load_csv` is the rest, to the commit; it
waits for a session that has read (`Reading`), for DROP TABLE needs locks which the open
transaction holds. `load_fails` is its rollback. It does not wait between the two steps of
/recommend, which searches on a connection of its own and looks the purchases up later on
another. `deadlock` is PostgreSQL's detector where both sides wait in one transaction each.
`WaitCircle` is what it does not see: GET /me/recommend has read `pet` in its session
(`profile.py:68`), and its search waits on a second connection (`searching.py:43`) for
purchase, which load_csv holds while it waits for `pet`. The session is idle in its
transaction, so there is no circle of waiting transactions. With similar reviews it is the
same: their session has read review and purchase too, load_csv waits for it, and the search
queues behind load_csv.

Simplifications: one request at a time, with everything else going on around it;
what the CSV files hold (`Loads`) has the keys and references of the schema, and pets
that have everything under their allergens, as gen_seed.py writes them (`TreeOK`, `RowsOK`,
`SpreadOut`); similarities are any numbers from `Sims`; a chunk row is the best chunk of its purchase;
times are left out, so that similar reviews may start from any review of a member as the
last; chunk and embed are one step (`IndexPipeline` has their details); a sign-up may
always be refused, whatever the id; the rating of the demo reviews is one that the search
keeps.

### Traffic

A request is the list of what it takes: a call of the limiter, the session's connection,
the search's connection. `ReadClock` and `Call` are `RateLimit.__call__`, the clock first
and the locked part later; `Pops` takes from the left of the deque what is older than the
window, and stops at the first that is not. `log` keeps every call that was let through,
with its stamp and with the time it was let through; `popped` is how many of them the deque
has dropped. `FirstStatement` and `connect` check connections out if there is `Room`;
`TimesOut` is pool_timeout; `End` gives everything back in the `finally` of `get_db` and of
`candidates`. `held` is what each request believes it has, `out` what the pool has given
out. The limiter is the one of one path and one address: each has a window of its own, per
server process.

### SeedData

`GenUser`, `GenPet`, `NextMember`, `GenProduct`, `ReadSource`, `MoveRow`, `GenPurchase`,
`WriteFiles` are gen_seed.py, a row a step; every random draw is a choice. `Crash` is where
there is nothing to choose from. `Load` is load_csv.py: the order of the rows of a table
that refers to itself (`topo_sort`), then the keys, references and CHECKs of the schema
for all rows. `SignUp` is `register` as far as the sequences behind the ids
concern it. A draw of a time is one of its two ends: every comparison of the code is
between such times and is monotonous in them, so that inner points add nothing (`Drawn`
can add them).

Left out: e-mail and phone, updated_at, weight, names, descriptions, ingredients and
nutrition of products, the texts of reviews, is_holdout in the CSV, and the upper bound of
the CHECK on the age in months. Rows of review.csv are dated today or earlier.

## 3. What is checked

Passing runs:

| run | instance | what it shows |
|---|---|---|
| `purchasing` | 3 members (two active pets, one, none active), 2 threads, 1 product, 2 prices, 3 purchase ids; `FairSpec` | `TypeOK`; `CreditNeverNegative`; `BalanceChain`: the balances reported to a member form a chain from the initial to the stored credit; `OneReviewPerPurchase`; `ImplementsLedger`; `RequestsAreAnswered` |
| `accounts` | 2 members, 2 threads, one registration in four variants, of which two can be on their way at once and for one address, 7 changes (two of them give the members each other's address, one changes somebody else's pet) and their own-PATCH forms, withdrawal, login; `FairSpec` | `TypeOK`; `UniqueLogins`; `ImplementsRegistry`; `RequestsAreAnswered`, through `DeadlockVictim` |
| `ask_stream` | 2 streams, 1 member and the administrator, quota 1, at most 1 delta; `FairSpec` | `TypeOK`; `QuotaOvershoot`; `OneRecordPerQuestion`; `ImplementsTranscript`; `StreamsEnd` |
| `index_jobs` | 2 shells, every job by itself, 2 models of different dimension, 2 reviews of 2 members, 1 product; `FairSpec` | `TypeOK`; `VectorsMatchChunks`; `NoFalseAlarm`; `ScriptsEnd` |
| `index_order` | 1 shell running the documented order, `load` and `embed` in any sequence and with any failures, verify.py after any of them; 2 models of one dimension, 2 CSV contents, 4 purchases, products changing, reviews written, servers starting | `DocumentedOrderHidesHoldout`; `JobsCatchUp`; `PassedMeansQuiet`; `DocumentedOrderVerifies` |
| `catalogue` | 2 members, 4 allergens in a tree of three levels, 3 products, 3 CSV contents (one renumbers everything), 4 purchases, 2 questions at a time cut to 2 products, 3 similarities; `Spec` is fair | `TypeOK`; `SuggestedAreFree`; `NothingBetterLeftOut`; `ThreePlacesAgree`; `CachedIdsResolve`; `RequestsEnd`, but for `WaitCircle` |
| `traffic` | 2 threads, 3 routes, 2 calls a second of two ticks, 2 connections, at most 4 calls let through in 4 ticks; `Spec` is fair | `TypeOK`; `LimitHolds`; `PoolHolds`; `RetryIsHonoured`; `RequestsEnd` |
| `seed` | 2 members, 1 pet, 2 products, 4 contents of review.csv, a calendar of four days with two ends of a month, 3 allergens in a chain in all six orders of rows | `TypeOK`; `PetsFitOwners`; `PurchasesFitRows`; `PurchasesSuitAnimals`; `AgesAdvance`; `SeedLoads` |

### The properties that carry weight

- `BalanceChain` and `ImplementsLedger` relate the stored credit to the whole history of
  purchases. Dropping the row lock, the condition of the UPDATE, or the single commit
  breaks them, and only with two requests (or a failure) between two statements.
- `ImplementsRegistry` is all-or-nothing for three tables, and it says that two
  concurrent allergy lists never mix: `replace_pet_allergies` deletes what it sees and
  inserts its own, which is safe only because `update_pet` has locked the pet's row
  before.
- `ImplementsTranscript` holds because `run_tools` is joined with *both* nodes, so that
  no `delta` precedes `sources` and nothing is written after `done`.
- `QuotaOvershoot` states the bound the code really has: the quota counts records that
  are written at the end of a question, so that members can exceed it, but only by the
  questions that overlap.
- `VectorsMatchChunks` is the join that search relies on: it holds although `chunk` drops
  and `embed` fills without any lock of their own, because `embed` reads the chunks in
  the transaction that writes the vectors.
- `JobsCatchUp` says that skipping what has the right mark never keeps a vector of
  another text or model; it would fail if the mark did not contain the model.
- `PassedMeansQuiet` and `DocumentedOrderVerifies` relate two checks that look at
  different things: verify.py never reads the fingerprint, and the check at start-up never
  counts a vector. What the first passes the second has nothing to say about; and
  what the documented order leaves, the first passes, under conditions that the property
  names (nobody bought or reviewed for the first time since the holdout was marked).
- `SuggestedAreFree` follows an allergen through four translations: a name picked,
  spread out over the tree in memory, stored as ids, read back as names by a server that
  may be another one, and compared with names of the tables. It holds across restarts and
  reloads as long as the caches are the tables'; where they are not, `CachedIdsResolve`
  says that the only error is theirs.
- `NothingBetterLeftOut` is about cuts in a row: the best row of a product, the best
  `Limit` of a question, the best of all questions by clamped rates, and the one
  that similar reviews take out afterwards. It fails when the search is not one
  product longer than what is shown.
- `ThreePlacesAgree` is what `safty.py` asks its readers to keep true by hand.
- `LimitHolds` is about the clock that is read before the lock: stamps enter the deque
  out of order, and only its head is looked at. The bound that holds is on the time at
  which calls are let through, and `RetryIsHonoured` says that Retry-After, computed from
  the head alone, is still late enough.
- `RequestsEnd` of `Catalogue` says that a request ends or stays for ever in `WaitCircle`: of
  all the ways in which a request and load_csv can wait for each other this is the only one
  that does not resolve. It fails when one more request reads in its session before it
  searches, as a POST /recommend that looked the pet up first would. Without the
  exception TLC finds the circle: `~Free ~> Free` is false of this code.
- `RequestsEnd` of `Traffic` holds although every request can hold a session while it waits for a
  second connection that nobody can give back: only pool_timeout ends that.
- `PurchasesFitRows`, `PetsFitOwners` and `AgesAdvance` relate rows that different
  functions draw: from_source moves a row to another pet, product and day, after pets
  were drawn between their owner's sign-up, last login and withdrawal.
- `SeedLoads` says that nothing the generator can draw is refused by a key, a reference
  or a CHECK, wherever ids come from review.csv and the rest is counted on from there.

### Bounds, and why they are enough

`MaxPurchaseId`, `MaxUserId`, `MaxPetId` bound the ids handed out; `RoomForPurchase` and
`RoomForAccount` refuse a request that could not be given one; the code has no such bounds. Three purchases allow
two of one member and one of another, in any order, with one of them rolled back; the
proofs in section 4 do not use the bound. Two threads are enough for every pair of
steps of two requests and for a circle of waiting.
Four user ids and four pet ids leave two for registrations, besides the two members of the
initial state who exchange addresses: two sign-ups for one address overlap at every pair of
their statements. `MaxDeltas` bounds the pieces of an answer: none or one, and
the LLM can fail before and after it. With `DailyMax = 1` two streams reach one row
above the quota, and the third question is refused.
Three purchases of two members make one member with an older and a latest review. Two
texts, one of which only one model cuts in two, change the number of chunks, the token
sum, or neither.

In `index_order` a fourth purchase gives one member two older reviews and a latest one, so
that a review can be missing while the count is right. `catalogue` cuts to two products
of three, so that each cut leaves something out; three similarities make ties, better and
worse, and the clamp at `High` makes different similarities equal. Its `NewProducts`, `AdminProducts`,
`EditedPets` and `Patches` are one each: a product that comes, one that is deactivated,
one pet whose allergens are picked anew; a second of each adds states, not cases, for
the properties speak of one pet and its products. `traffic` has `MaxCalls` twice the
limit and `MaxClock` twice the window, so that the window turns over completely; at its
bound the clock stands still, which only keeps calls out. Two connections and two threads
that each need two make the pool's circle; the proofs use none of these bounds. `seed` has
two members with one pet between them, so that rows are moved to a pet of the same
customer and to one of another; two products of any kinds, so that there is one for the
animal, one of its category, or none; a month that ends on the 29th and one on the 31st,
and `MaxSignUps` one more than the seed's ids reach. `VIEW Looked` merges
states that differ in members' times once products are drawn: nothing reads them later
and the properties about them were checked before.

Deadlock is checked in every run: no configuration turns it off. A state with a
restart, an administrator or an idle thread always has a next step; that *requests* do
not block each other is what the liveness properties say.

### Fairness

`FairSpec` of the request modules asks for weak fairness of the steps that wait for
nobody (a worker thread is not paused for ever), strong fairness of those that can wait
for a lock (PostgreSQL hands a lock to the queue, so a waiter is not overtaken for ever),
and weak fairness of the deadlock detector (`deadlock_timeout`). Nothing is assumed of
new requests, failures, crashes, administrators or clients. `AskStream` asks for weak
fairness of each node, which the code justifies by time-outs: the LLM client has
`TIMEOUT = 60` (`src/app/adapters/llm.py:37`) and an LLM that fails or is slow leads to a
step of the node as well; `SendDelta` is not fair, and `FinishAnswer` is, because an
answer has a maximal length. `IndexPipeline` asks the same of its jobs as the request
modules do of requests; `ScriptsEnd` speaks of the shells alone, with no request that holds locks
beside them.

`Catalogue` asks for strong fairness of the steps of the request under way, since they can
wait for load_csv's locks and PostgreSQL hands a lock on in the order of its queue: one load
after another does not keep a request waiting. The LLM has a time-out. It asks for weak
fairness of load_csv itself, a script that is not paused for ever, and of the deadlock
detector, which runs in the transaction of a request that waits (`deadlock_timeout`).
Nothing is assumed of begin_load, of failures or of what would end `WaitCircle`:
`core/db.py:29-36` sets neither a statement_timeout nor a lock_timeout, and pool_timeout bounds
only the wait for a connection. `Traffic` asks for
it of each thread: a step of its own is possible at any time, since who cannot get a
connection times out (`pool_timeout`, 30 s, `src/app/core/db.py:25`); it does not
assume that a connection is handed over in order. `SeedData` and `Verify` state no
fairness and check no liveness: both are batches that are run to their end.

### Runs that find a violation

These check one statement of a document, comment or docstring each; section 5 says
what TLC finds: `reload_unnoticed`, `load_sequences`, `deactivated_recommended`,
`demo_allergy`.

### Mutants

Every property of a passing run has a mutant in `PROJECT.json`: an operator of the
module, commented "Mutant: ...", that replaces one definition the way a plausible bug
would (no condition in the UPDATE, a commit too early, an edge of the graph too few, a
mark without the model) and under which TLC finds the property violated.

## 4. What is proved

### PurchasingProofs

For every set of members, products, pets, threads, prices, quantities and ratings, from
`ConstantsOK` alone (pets and prices are naturals, quantities positive, initial credits
not negative, every pet has an owner):

| theorem | states |
|---|---|
| `SpecIInv` | `Spec => []IInv` |
| `SpecTypeOK` | `Spec => []TypeOK` |
| `SpecCreditNeverNegative` | `Spec => []CreditNeverNegative` |
| `SpecBalanceChain` | `Spec => []BalanceChain` |
| `SpecReviews` | `Spec => [](OneReviewPerPurchase /\ ReviewsByOwner)` |
| `SpecImplementsLedger` | `Spec => ImplementsLedger` |

`CreditNeverNegative` and `BalanceChain` are not inductive: a commit writes a balance
that was computed two steps earlier. `IInv` adds three parts. `CreditRowLocked`: a
request that has spent from a member's credit is the only one, and the balance it
carries is still the stored one less its amount and not negative. `IdsAreFresh`: ids in
the table and in flight are below the sequence and different, which the refinement needs
to find "the n-th purchase" that a review belongs to. `ReviewKeyLocked`: a review on its
way belongs to the author's purchase, and one that is inserted is the only one with its
key, which is not in the table yet. The proof has one lemma per action. The refinement
`SpecImplementsLedger` then maps each commit to `Buy` or `WriteReview` of `Ledger` and
every other step to a stutter.

### AskStreamProofs

For every finite set of streams, every set of members, every assignment of questioners
and every positive quota, from `AskConstantsOK` (the administrator is no member):

| theorem | states |
|---|---|
| `SpecIInv` | `Spec => []IInv` |
| `SpecTypeOK` | `Spec => []TypeOK` |
| `SpecOneRecordPerQuestion` | `Spec => []OneRecordPerQuestion` |
| `SpecQuotaOvershoot` | `Spec => []QuotaOvershoot` |
| `SpecImplementsTranscript` | `Spec => ImplementsTranscript` |

`LogsOnce` adds to `OneRecordPerQuestion` the places in the graph up to which a question
has left no record (`NotLoggedYet`): without them the next `Log` could be the second one.
`PlacesAreKept` is what makes the overshoot of the quota inductive: today's records and
the questions still under way *together* stay below the quota plus the number of
streams, and a record only turns one into the other. `StreamsFit` says which event was
the last one at each place in the graph; with it, each event that a node writes is
`Send` of `Transcript`, and every other step of a node is a stutter. The proof has one
lemma per action for each of the three parts; steps that leave the records (or the
events) alone share one.

### TrafficProofs

For any threads, routes, limit, window, unit of the clock and (for the pool) any finite
or infinite set of threads and any capacity, from `TrafficConstantsOK` (times, seconds
and unit are positive, a route begins with the limiter if it has one):

| theorem | states |
|---|---|
| `SpecTypeOK` | `Spec => []TypeOK` |
| `SpecLimitHolds` | `Spec => []LimitHolds` |
| `SpecRetryIsHonoured` | `Spec => RetryIsHonoured` |
| `SpecPoolHolds` | `Spec => []PoolHolds` |

`LimiterInv` adds four parts to the bound. `ClocksPast`: no stamp is ahead of the clock.
`PoppedAreOld`: what has left the deque is older than the window *now*, because some call
read a clock that said so; this is what makes the order of the stamps irrelevant.
`DequeIsShort`: never more than `Times` are in it. `PromisesStand`: while a promised retry
is open nobody has been let through, so the deque is full and its head is the call that the
promise was reckoned from; `RoundsUp` shows that a whole number of seconds past that
head's window is later than it. `PoolInv` adds to `PoolHolds` that what is out is finite,
which the counting lemmas need: one more at a check-out, one less when something is
given back.

### AccountsProofs

For every finite set of threads and all addresses, requests, rows and bounds, from
`AccountsConstantsOK` (the initial rows are numbered from 1 and have different addresses
and authentication ids, the model values are no rows or columns):

| theorem | states |
|---|---|
| `SpecIInv` | `Spec => []IInv` |
| `SpecTypeOK` | `Spec => []TypeOK` |
| `SpecUniqueLogins` | `Spec => []UniqueLogins` |
| `SpecImplementsRegistry` | `Spec => ImplementsRegistry` |

A COMMIT writes what the unique index let through statements earlier, so that
`UniqueLogins` needs to know what happened in between. `KeysClaimed`: an address that has
passed the index is nobody's in the table and of no other transaction, until the COMMIT or
the rollback. `RowsLocked`: no two transactions hold a row. `RowsAsFound`: the row a
transaction holds is still there, as it found it, and the allergies it has seen are still the
ones stored (this is what makes a replaced list no mixture). `IdsAreFresh` and `IdsSuffice`:
ids handed out are of one row or one request, and within the bounds. The refinement maps
the three commits to the steps of `Registry` and every other step to a stutter.

### IndexPipelineProofs

For every set of shells, scripts, reviews, products, models and splits, from
`IndexConstantsOK` (a text has at least one piece) and `IndexTablesOK` (the value for "no
table" is no table):

| theorem | states |
|---|---|
| `SpecIInv` | `Spec => []IInv` |
| `SpecTypeOK` | `Spec => []TypeOK` |
| `SpecVectorsMatchChunks` | `Spec => []VectorsMatchChunks` |
| `SpecNoFalseAlarm` | `Spec => []NoFalseAlarm` |
| `OneShellJobsCatchUp` | `OneShell /\ Spec => JobsCatchUp` |
| `OneShellHidesHoldout` | `OneShell /\ Spec => DocumentedOrderHidesHoldout` |
| `VerifyRunsJobs` | `SpecVerify => Spec` |
| `SpecPassedMeansQuiet` | `SpecVerify => PassedMeansQuiet` |

The invariant is stronger than what it is for: `IndexMade` says that `chunk_vectors` and
`embedding_meta` are *exactly* what embed.py with one model makes of the present chunks from
nothing, though they come about by increments. It holds because chunk.py leaves no vectors
behind: an incremental embed.py finds either no vectors, or all of them with their marks
(`HandInStep`: what is still to be embedded is everything or nothing). `LocksAgree` says
which jobs cannot be inside their transactions at once; a first attempt to prove it
showed that the model had chunk.py's second DROP without a lock, since corrected.

`OneShell` (any two shells are the same) is the way the README of the repository runs the
jobs, and `JobsCatchUp` needs it: with two shells, two models of the *same* dimension and the
same chunks, one embed.py finds every mark to be right, the other embeds everything with
its model and commits, and the first reports success with vectors of the other's model
(TLC finds this in 21 steps). `VectorsMatchChunks` is not hurt: `embedding_meta` says whose they
are. The invariant of the one shell, `OneShellInv`, adds that every stored product vector is of
the text of its mark (`Marked`), that a job's list of products to embed is still what the
tables lack (`TodoIsCurrent`), and, for the documented order, that no review set aside is in
the chunks from `chunk` on (`OrderKept`: members write reviews meanwhile, and a
review that is written is never set aside).

`VerifyRunsJobs` carries all of this over to `Verify`. `SpecPassedMeansQuiet` needs that what
verify.py read in one section is still in the tables at its verdict: it runs in the shell of
the jobs, and nothing outside changes them.

### SeedDataProofs

For every number of members, pets, products and purchases, every review.csv and every
calendar and tree, from `SeedConstantsOK` (ids in review.csv are unique, dates lie where
the constants of gen_seed.py put them), `CalendarOK` (later days have later months, or the
same month and no earlier day) and `AllergensOK` (every allergen file lists every
allergen once, and the parents make a forest):

| theorem | states |
|---|---|
| `SpecIInv` | `Spec => []IInv` |
| `SpecTypeOK` | `Spec => []TypeOK` |
| `SpecPetsFitOwners` | `Spec => []PetsFitOwners` |
| `SpecPurchasesFitRows` | `Spec => []PurchasesFitRows` |
| `SpecPurchasesSuitAnimals` | `Spec => []PurchasesSuitAnimals` |
| `SpecAgesAdvance` | `Spec => []AgesAdvance` |
| `SpecSeedLoads` | `Spec => []SeedLoads` |

`TablesInOrder` says which tables are complete in which phase, `UidsNumbered` that the shared
uids are numbered without a gap, `IdsKept` that the first purchases have the ids of
review.csv and that there is a highest id to count on from, `AgesRight` that the age stored
with a purchase is the pet's on that day, from which `AgesAdvance` follows by
`AgesGrow`, the monotony of `age_months` in the day, whatever the ends of the months.

`SeedLoads` needs that `topo_sort` works: `AllergensAreInOrder` shows that it puts every
parent before its children for each order of the rows. The argument is by the depth in the
tree: after *n* rounds all allergens less than *n* deep are out (`RowsInOrder`), none
twice, and a row is taken only when its parent is out (`OneMoreRound`). `topo_sort` is
written as rounds of a recursive function, as the loop of load_csv.py runs.

### CatalogueProofs

For every tree, all contents of the CSV files, picks, questions, similarities, limits and
retries, from `CatalogueConstantsOK` (the CSV files have the keys and references of the
schema, names of allergens are unique, and a pet with an allergen has what lies under
it, as gen_seed.py writes it):

| theorem | states |
|---|---|
| `SpecIInv` | `Spec => []IInv` |
| `SpecTypeOK` | `Spec => []TypeOK` |
| `SpecSuggestedAreFree` | `Spec => []SuggestedAreFree` |
| `SpecThreePlacesAgree` | `Spec => []ThreePlacesAgree` |
| `SpecNothingBetterLeftOut` | `Spec => []NothingBetterLeftOut` |
| `SpecCachedIdsResolve` | `Spec => CachedIdsResolve` |

`TypeOK` has the foreign keys, and what a request still needs of the tables: the pet of a
profile and the products with rates are there, which is true only because load_csv
gets its last lock after a session that has read has ended (`LoadKeepsIInv`).

For `SuggestedAreFree` the invariant follows the allergen: `PicksKept` (the pet has everything
under its picks), `ProfileHasPicks` (the profile has all the names), `RatedPass` (no product
with one of these gets a rate). The property says "lies under" by going up from the allergen,
the code goes down from the pick (`_descendant_ids`); `ChainsMeetLayers` shows that the
two meet, by induction on the steps, and that as many layers as there are allergens are
enough, by counting: a layer that adds nothing is the last.

For `NothingBetterLeftOut` the invariant is `RatesHold`: a product has the rate of its best row
among all questions, or at least `Searched` others have no less. `SearchOutranks` shows it of
one search (who is cut has `top_k` products above it, each with its best row),
`CandidatesKeepsIInv` that merging rates keeps it, for rates only rise. At the end
(`EnoughAbove`) one product may be left out, and `Limit` are still above: a product of the
answer with less than its best rate would have `Limit` others in the answer with it, one
too many; one that is left out and better would have none worse above it.

### Recursion

The library's induction and recursion theorems have operators as parameters, which the
provers cannot instantiate. `Recursion` states them for sets and functions instead
(`Induction`: a set with 0 and every successor has all naturals; `Recursive`: a function
given by a first value and a step is the one that its definition names) and derives them from
the well-foundedness of <. The trees of `Catalogue` and the rounds of `SeedData` are
reasoned about through these.

### What is only model-checked

- Liveness (`RequestsAreAnswered`, `StreamsEnd`, `ScriptsEnd`, both `RequestsEnd`), which needs
  ENABLED and is out of the prover's reach.
- `DocumentedOrderVerifies`: that verify.py passes what the documented order leaves. It
  speaks of the whole list of problems, of product and customer vectors and of who has
  answers; the invariant would have to carry all of this through each of the jobs.
- Which violations the four other runs find.

Every other property of a run is stated by a theorem. The proofs hold for all values of the
constants, but of the modules: what a module leaves out (section 6) they do not speak of.

## 5. Disagreements found between code and documents

Paths are below `src/`. Each of these has a run in which TLC finds the statement
violated:

| run | document | code |
|---|---|---|
| `reload_unnoticed` | `app/services/retrieve.py:106`: forgetting to index after load_csv is reported | the check compares `chunks`, which load_csv does not touch |
| `load_sequences` | `app/services/auth.py:78`: the only unique keys a sign-up meets are the e-mail and the auth_uid | load_csv brings its own ids and leaves the sequences at 1: the first sign-up is refused because of its user_id, and answered "e-mail already registered" |
| `deactivated_recommended` | `app/services/products.py:107`: a deactivated product leaves lists and recommendations | no filter of the search reads is_active |
| `demo_allergy` | `app/services/auth.py:106`: the demo member buys products without the pet's allergen | those with "chicken" in their name are left out, the ingredients are not looked at |

### Seen, without a run

About requests:

- `app/schemas.py:146` says that ReviewRequest accepts only what the CHECKs accept; a
  text of blanks passes, `ck_review_body` refuses it and the answer is 500. A gender other
  than 'M' and 'F' in a sign-up (`schemas.py:99`) goes the same way.
- `app/api/routes/auth.py:24` says 409 if the e-mail exists. `auth_uid` keeps the first
  address: after a change of address the old one is nobody's and is still answered 409.
- `app/models/question.py:1` says one question, one row. The administrator's leave none,
  and a record that cannot be written is given up.
- The comment at `app/domain/pet.py:26` promises None for an allergen that is not cached;
  the code raises, and the request ends with a 500. After load_csv under a running server
  an id that *is* cached may be another allergen's: picks are then stored wrong without
  any error (`Unknown` in `Catalogue`).
- `create_product` does not map the errors of the database as `update_product` does.
- `recommend` accepts the same product twice; with fewer candidates than it has to pick,
  only such repetitions succeed.
- `buy` looks neither at is_active nor at the animal of the product.
- judge and the view are used by the tests and by load_csv's own check alone; no offer of
  a request goes through either (the search filter decides), and a verified product
  without ingredients would differ between them. The seed has none; one created by
  an administrator has no animal either, so that the view does not list it.
- `resolve_allergy` takes the first name that fits and forgets the others.
- `similar_reviews_for` asks for the member's first pet, also if it is inactive.
- A reload between the search of /recommend and the look-up of its purchases can offer a
  product that the search never saw, under a purchase id that was reused.

About the pipeline:

- `app/repositories/vector.py:8` says that held-out reviews are not indexed. In the order
  of the README's commands (`README.md:131-134`) they are indexed before they are marked;
  the docstring of prep_rec has another order, under which `DocumentedOrderHidesHoldout`
  holds. None of those commands creates `embedding_meta`, without which `embed` fails.
- `pipeline/embed.py:14` says that only changed chunks are embedded again; chunk.py drops
  the vectors with their marks, so that embed.py embeds everything.
- `check_freshness` does not notice chunk.py without embed.py (`retrieve.py:122` says it is
  for that) when the reviews are the same: only the vectors are gone. verify.py does.
- verify.py promises not to stop at the first failure. With a table missing it does
  (`pipeline/prep/verifying.py:155`, `:341`). It counts a member who bought and reviewed nothing as a
  missing answer, it does not see that a held-out review was indexed, and it knows the
  model of the vectors from embedding_meta alone (`verifying.py:120`). It
  keeps shared locks on what it has read, which a chunk.py from another shell waits for.
- gen_seed.py can move a row of review.csv to an inactive pet or to a pet of a member who
  has withdrawn; members who joined recently can be called dormant; a row dated after
  `TODAY` would lie in the future.
- GET /me/recommend (or similar-reviews) and load_csv.py can wait for each other for ever (`WaitCircle`), and every
  request that reads purchase or pet then waits behind load_csv. Nothing ends this but
  stopping the server or the script: no statement_timeout or lock_timeout is set, and
  pool_timeout has no part in it, for both connections are checked out.

## 6. What is not modelled

- Text: prompts, masking, formatting, the embedding text, answer quality, the wording of
  reports, the citations of `strategy.py`.
- Vectors and distances: similarities are any values.
- Token expiry, password hashing, the JWT and bcrypt libraries. A token outlives the
  withdrawal of its member; no document promises otherwise.
- Lists and details that only read (`find_page`, `my_purchases`, `customer_detail` as an
  answer).
- The hit rates and samples that verify.py prints and the splitting of texts
  (`prep/chunking.py`) beyond a constant function.
- Creating the schema and migrations: declarative DDL. The keys, references, CHECKs and
  the view are part of the modules whose requests meet them.
- Evaluation scripts, logging, configuration, the clients of external services.

`PROJECT.json` names, for each component, what is left out of it.

## 7. Plan

In this order; all but the last are done.

1. `Purchasing` with `Ledger`, runs, proofs: money is what must not be wrong.
2. `Accounts` with `Registry`, runs.
3. `AskStream` with `Transcript`, runs, proofs.
4. `IndexPipeline`, then `Verify` on top of it, runs.
5. `Traffic`: the limiter and the pool together, because a request goes through both; run,
   proofs.
6. `Catalogue`: the tree, the three verdicts, the caches, the search, the requests that
   use it, product administration and the demo sign-up in one module, because what each
   promises depends on the tables and caches that the others change; runs.
7. `SeedData`: generation, load and the sign-ups after it; runs.
8. Proofs: `AccountsProofs` (`UniqueLogins` from an invariant about row locks and keys, the
   refinement of `Registry`), `IndexPipelineProofs` (`VectorsMatchChunks` from one about
   table locks, the one-shell properties, `Verify`), `SeedDataProofs`, `CatalogueProofs`.
9. `DocumentedOrderVerifies`, with an invariant over the jobs of the documented order on top
   of `OrderKept`.

## 8. Running the tools

    tlc -workers 2 -config MCPurchasing.cfg MCPurchasing
    tlapm PurchasingProofs.tla

Each `MC*.cfg` belongs to the module with the longest matching name. The longest runs
take three to three and a half minutes on two cores.
