----------------------------- MODULE AskStream ------------------------------
(***************************************************************************)
(* The ask graph behind /ask and /ask/me:                                  *)
(*                                                                         *)
(*   START -+- plan ----+-> run_tools -(no matches)-> END                  *)
(*          +- retrieve +        +-> generate -(LLM failed)-> END          *)
(*                                       +-> check -> END                  *)
(*                                                                         *)
(* several streams at a time, the record each question of a member leaves  *)
(* in customer_question, and the daily quota that is judged by counting    *)
(* those records.                                                          *)
(***************************************************************************)
EXTENDS Naturals, Sequences, FiniteSets

CONSTANTS
  Streams,       \* the streams whose nodes can run at a time
  Users, Admin,  \* who asks
  DailyMax,      \* ASK_DAILY_MAX
  MaxDeltas      \* bound: pieces of an answer

ASSUME AskConstantsOK ==
  /\ Admin \notin Users
  /\ DailyMax \in Nat \ {0}
  /\ MaxDeltas \in Nat
  /\ IsFiniteSet(Streams)

VARIABLES
  asker,       \* whose question the stream answers
  planning,    \* the plan node
  retrieving,  \* the retrieve node; it ends with "some" or with "none" found
  stage,       \* how far the rest of the graph is
  tool,        \* plan chose the nutrition tool
  sent,        \* the events written to the stream
  ending,      \* "open" while a stream runs, then how it ended
  logged,      \* the records that this question has left
  rows         \* today's customer_question rows of each member

nodes == <<planning, retrieving, stage, tool>>
vars == <<asker, planning, retrieving, stage, tool, sent, ending, logged, rows>>

Events == {"customer_facts", "sources", "tool_result", "delta",
           "verification", "error", "done"}
RetrieveStates == {"running", "empty", "empty_logged", "found", "facts_sent", "some", "none"}
Stages == {"idle", "gather", "generate", "answered", "failed",
           "apologise", "check", "verified", "end"}

Running(s) == stage[s] # "idle"

Deltas(s) == Cardinality({k \in 1..Len(sent[s]) : sent[s][k] = "delta"})

-----------------------------------------------------------------------------
Init ==
  /\ asker = [s \in Streams |-> Admin]
  /\ planning = [s \in Streams |-> "done"]
  /\ retrieving = [s \in Streams |-> "none"]
  /\ stage = [s \in Streams |-> "idle"]
  /\ tool = [s \in Streams |-> FALSE]
  /\ sent = [s \in Streams |-> <<>>]
  /\ ending = [s \in Streams |-> "served"]
  /\ logged = [s \in Streams |-> 0]
  /\ rows = [u \in Users |-> 0]

(* Nobody reads what a node writes after the client has gone.              *)
Write(s, event) ==
  sent' = IF ending[s] = "open" THEN [sent EXCEPT ![s] = Append(@, event)] ELSE sent

Stage(s, from, to) ==
  /\ stage[s] = from
  /\ stage' = [stage EXCEPT ![s] = to]

(* Mutant: questions_left_today without its max(..., 0), which ask_me      *)
(* compares with 0.                                                        *)
MayBeNegative(u) == DailyMax - rows[u]

(* questions_left_today: the rows that are committed now.                  *)
QuestionsLeft(u) == IF rows[u] < DailyMax THEN DailyMax - rows[u] ELSE 0

(* ask, and ask_me for a member with questions left: both nodes start.     *)
Open(s, who) ==
  /\ Stage(s, "idle", "gather")
  /\ who \in Users => QuestionsLeft(who) # 0
  /\ asker' = [asker EXCEPT ![s] = who]
  /\ planning' = [planning EXCEPT ![s] = "running"]
  /\ retrieving' = [retrieving EXCEPT ![s] = "running"]
  /\ tool' = [tool EXCEPT ![s] = FALSE]
  /\ sent' = [sent EXCEPT ![s] = <<>>]
  /\ ending' = [ending EXCEPT ![s] = "open"]
  /\ logged' = [logged EXCEPT ![s] = 0]
  /\ UNCHANGED rows

(* ask_me answers 429 when the quota is used up.                           *)
Refuse(s, u) ==
  /\ stage[s] = "idle"
  /\ QuestionsLeft(u) = 0
  /\ asker' = [asker EXCEPT ![s] = u]
  /\ sent' = [sent EXCEPT ![s] = <<>>]
  /\ ending' = [ending EXCEPT ![s] = "refused"]
  /\ logged' = [logged EXCEPT ![s] = 0]
  /\ UNCHANGED <<nodes, rows>>

(* plan: the tool it picks; it picks none when the LLM fails.              *)
Plan(s) ==
  /\ stage[s] = "gather" /\ planning[s] = "running"
  /\ planning' = [planning EXCEPT ![s] = "done"]
  /\ tool' \in {tool, [tool EXCEPT ![s] = TRUE]}
  /\ UNCHANGED <<asker, retrieving, stage, sent, ending, logged, rows>>

RetrieveStep(s, from, to) ==
  /\ stage[s] = "gather" /\ retrieving[s] = from
  /\ retrieving' = [retrieving EXCEPT ![s] = to]
  /\ UNCHANGED <<asker, planning, stage, tool, ending>>

(* retrieve, up to the candidates.                                         *)
Search(s) ==
  /\ RetrieveStep(s, "running", "found") \/ RetrieveStep(s, "running", "empty")
  /\ UNCHANGED <<sent, logged, rows>>

(* Mutant: log_question=False is not passed on, the administrator's        *)
(* questions are recorded as well.                                         *)
LogsEverybody(s) ==
  /\ rows' = [u \in Users \cup {asker[s]} |->
                (IF u \in Users THEN rows[u] ELSE 0) + (IF u = asker[s] THEN 1 ELSE 0)]
  /\ logged' = [logged EXCEPT ![s] = @ + 1]

(* log_customer_question: the administrator's are not recorded, and a      *)
(* record that cannot be written is given up.                              *)
Log(s) ==
  IF asker[s] \in Users
  THEN \/ /\ rows' = [rows EXCEPT ![asker[s]] = @ + 1]
          /\ logged' = [logged EXCEPT ![s] = @ + 1]
       \/ UNCHANGED <<rows, logged>>
  ELSE UNCHANGED <<rows, logged>>

LogEmpty(s) ==
  /\ RetrieveStep(s, "empty", "empty_logged")
  /\ Log(s)
  /\ UNCHANGED sent

TellEmpty(s) ==
  /\ RetrieveStep(s, "empty_logged", "none")
  /\ Write(s, "error")
  /\ UNCHANGED <<logged, rows>>

(* The evidence, before the answer.                                        *)
SendFacts(s) ==
  /\ RetrieveStep(s, "found", "facts_sent")
  /\ Write(s, "customer_facts")
  /\ UNCHANGED <<logged, rows>>

SendSources(s) ==
  /\ RetrieveStep(s, "facts_sent", "some")
  /\ Write(s, "sources")
  /\ UNCHANGED <<logged, rows>>

(* Mutant: two edges instead of one from both: run_tools does not wait for *)
(* retrieve.                                                               *)
OneIsEnough(s) == planning[s] = "done" /\ retrieving[s] # "none"

(* Mutant: run_tools waits for matches, not for the end of retrieve.       *)
NeedsMatches(s) == planning[s] = "done" /\ retrieving[s] = "some"

(* The edge from both nodes into run_tools.                                *)
Joined(s) == planning[s] = "done" /\ retrieving[s] \in {"some", "none"}

(* run_tools and route_after_tools.                                        *)
RunTools(s) ==
  /\ Joined(s) /\ ending[s] = "open"
  /\ \/ /\ retrieving[s] = "none"
        /\ Stage(s, "gather", "end")
        /\ UNCHANGED sent
     \/ /\ retrieving[s] # "none" /\ tool[s]
        /\ Stage(s, "gather", "generate")
        /\ Write(s, "tool_result")
     \/ /\ retrieving[s] # "none" /\ ~tool[s]
        /\ Stage(s, "gather", "generate")
        /\ UNCHANGED sent
  /\ UNCHANGED <<asker, planning, retrieving, tool, ending, logged, rows>>

(* An exception in retrieve or run_tools leaves the graph: ask_stream      *)
(* writes the error and ends.                                              *)
GraphFails(s) ==
  /\ \/ retrieving[s] = "running"
     \/ Joined(s) /\ retrieving[s] = "some" /\ tool[s]
  /\ Stage(s, "gather", "end")
  /\ Write(s, "error")
  /\ UNCHANGED <<asker, planning, retrieving, tool, ending, logged, rows>>

NextStage(s, from, to) ==
  /\ Stage(s, from, to)
  /\ UNCHANGED <<asker, planning, retrieving, tool, ending>>

(* generate: a piece of the answer, the end of it, or a failure of the LLM.*)
SendDelta(s) ==
  /\ NextStage(s, "generate", "generate")
  /\ Deltas(s) < MaxDeltas
  /\ Write(s, "delta")
  /\ UNCHANGED <<logged, rows>>

FinishAnswer(s) ==
  /\ NextStage(s, "generate", "answered") \/ NextStage(s, "generate", "failed")
  /\ UNCHANGED <<sent, logged, rows>>

(* Mutant: the failed answer is logged like every other one as well.       *)
LogsTwice(s) ==
  /\ \/ NextStage(s, "answered", "check")
     \/ logged[s] = 0 /\ NextStage(s, "failed", "failed")
     \/ logged[s] > 0 /\ NextStage(s, "failed", "apologise")
  /\ Log(s)
  /\ UNCHANGED sent

LogAnswer(s) ==
  /\ NextStage(s, "answered", "check") \/ NextStage(s, "failed", "apologise")
  /\ Log(s)
  /\ UNCHANGED sent

Apologise(s) ==
  /\ NextStage(s, "apologise", "end")
  /\ Write(s, "error")
  /\ UNCHANGED <<logged, rows>>

(* check: the verdict, or an error where there is none, and then done.     *)
Check(s) ==
  /\ NextStage(s, "check", "verified")
  /\ Write(s, "verification") \/ Write(s, "error")
  /\ UNCHANGED <<logged, rows>>

SendDone(s) ==
  /\ NextStage(s, "verified", "end")
  /\ Write(s, "done")
  /\ UNCHANGED <<logged, rows>>

Close(s) ==
  /\ Stage(s, "end", "idle")
  /\ ending[s] = "open"
  /\ ending' = [ending EXCEPT ![s] = "served"]
  /\ UNCHANGED <<asker, planning, retrieving, tool, sent, logged, rows>>

(* The client goes away: no node is started any more, but the ones that    *)
(* run go on to their end, the record of the question included.            *)
Disconnect(s) ==
  /\ Running(s) /\ ending[s] = "open"
  /\ ending' = [ending EXCEPT ![s] = "lost"]
  /\ UNCHANGED <<asker, nodes, sent, logged, rows>>

BetweenNodes(s) ==
  \/ stage[s] = "gather" /\ Joined(s)
  \/ stage[s] \in {"generate", "check", "verified", "end"}

GiveUp(s) ==
  /\ ending[s] = "lost" /\ BetweenNodes(s)
  /\ stage' = [stage EXCEPT ![s] = "idle"]
  /\ UNCHANGED <<asker, planning, retrieving, tool, sent, ending, logged, rows>>

Crash ==
  /\ stage' = [s \in Streams |-> "idle"]
  /\ ending' = [s \in Streams |-> IF ending[s] = "open" THEN "lost" ELSE ending[s]]
  /\ UNCHANGED <<asker, planning, retrieving, tool, sent, logged, rows>>

(* Midnight in Korea: the rows of yesterday do not count.                  *)
NewDay ==
  /\ rows' = [u \in Users |-> 0]
  /\ UNCHANGED <<asker, nodes, sent, ending, logged>>

Begin(s) ==
  \/ \E who \in Users \cup {Admin} : Open(s, who)
  \/ \E u \in Users : Refuse(s, u)

Retrieve(s) ==
  Search(s) \/ LogEmpty(s) \/ TellEmpty(s) \/ SendFacts(s) \/ SendSources(s)

Generate(s) == FinishAnswer(s) \/ LogAnswer(s) \/ Apologise(s)

Proceed(s) ==
  \/ Plan(s) \/ Retrieve(s) \/ RunTools(s)
  \/ Generate(s) \/ Check(s) \/ SendDone(s) \/ Close(s) \/ GiveUp(s)

Next ==
  \/ \E s \in Streams :
       Begin(s) \/ Proceed(s) \/ SendDelta(s) \/ GraphFails(s) \/ Disconnect(s)
  \/ Crash
  \/ NewDay

Spec == Init /\ [][Next]_vars

(* Searches and LLM calls return or time out, and an answer has an end.    *)
Fairness ==
  \A s \in Streams :
    /\ WF_vars(Plan(s))
    /\ WF_vars(Retrieve(s))
    /\ WF_vars(RunTools(s))
    /\ WF_vars(Generate(s))
    /\ WF_vars(Check(s) \/ SendDone(s) \/ Close(s) \/ GiveUp(s))

FairSpec == Spec /\ Fairness

-----------------------------------------------------------------------------
(* The nodes, streams and records have the shape the graph gives them.     *)
TypeOK ==
  /\ asker \in [Streams -> Users \cup {Admin}]
  /\ planning \in [Streams -> {"running", "done"}]
  /\ retrieving \in [Streams -> RetrieveStates]
  /\ stage \in [Streams -> Stages]
  /\ tool \in [Streams -> BOOLEAN]
  /\ sent \in [Streams -> Seq(Events)]
  /\ ending \in [Streams -> {"open", "refused", "served", "lost"}]
  /\ logged \in [Streams -> Nat]
  /\ rows \in [Users -> Nat]

(* The questions of u that have passed the quota and left no record yet.   *)
Admitted(u) == {s \in Streams : Running(s) /\ asker[s] = u /\ logged[s] = 0}

(* questions_left_today counts at the start what is recorded at the end:   *)
(* questions that overlap can exceed the daily limit, but only by those    *)
(* that overlapped the last one that was admitted.                         *)
QuotaOvershoot == \A u \in Users : rows[u] < DailyMax + Cardinality(Streams)

(* Every way through the graph records a member's question once at most,   *)
(* and an administrator's never.                                           *)
OneRecordPerQuestion ==
  \A s \in Streams : logged[s] <= IF asker[s] \in Users THEN 1 ELSE 0

(* plan and retrieve run at the same time and either can fail: every       *)
(* stream comes to an end.                                                 *)
StreamsEnd == \A s \in Streams : Running(s) ~> ~Running(s)

T == INSTANCE Transcript

(* The graph with its parallel nodes, its join and its failures writes     *)
(* nothing but transcripts that Transcript allows.                         *)
ImplementsTranscript == T!Spec

-----------------------------------------------------------------------------
(* What the proofs need beyond the properties themselves.                  *)

(* Up to these points the question has left no record.                     *)
NotLoggedYet(s) ==
  \/ stage[s] = "gather" /\ retrieving[s] \notin {"empty_logged", "none"}
  \/ stage[s] \in {"generate", "answered", "failed"}

LogsOnce ==
  /\ OneRecordPerQuestion
  /\ \A s \in Streams : NotLoggedYet(s) => logged[s] = 0

(* A question that was admitted keeps its place below the bound.           *)
PlacesAreKept ==
  \A u \in Users : rows[u] + Cardinality(Admitted(u)) < DailyMax + Cardinality(Streams)

(* The last event of a stream that is read fits where its nodes are.       *)
EventsFit(s) ==
  LET last == T!LastOf(sent[s])
  IN  /\ Running(s)
      /\ stage[s] = "gather" =>
           last = CASE retrieving[s] = "facts_sent" -> "customer_facts"
                    [] retrieving[s] = "some" -> "sources"
                    [] retrieving[s] = "none" -> "error"
                    [] OTHER -> "start"
      /\ stage[s] \in {"generate", "answered", "failed", "apologise", "check"} =>
           last \in {"sources", "tool_result", "delta"}
      /\ stage[s] = "verified" => last \in {"verification", "error"}
      /\ stage[s] = "end" => last \in {"error", "done"}

StreamsFit == \A s \in Streams : ending[s] = "open" => EventsFit(s)

IInv ==
  /\ TypeOK
  /\ LogsOnce
  /\ PlacesAreKept
  /\ StreamsFit
=============================================================================
