-------------------------- MODULE AskStreamProofs --------------------------
(***************************************************************************)
(* AskStream, for every number of streams and members and every quota: at  *)
(* most one record per question, the bound on the overshoot of the quota,  *)
(* and the refinement of Transcript.                                       *)
(***************************************************************************)
EXTENDS AskStream, FiniteSetTheorems, TLAPS

(* An event that is written becomes the last one.                          *)
LEMMA LastOfAppend ==
  ASSUME NEW events \in Seq(Events), NEW event \in Events
  PROVE  /\ Append(events, event) \in Seq(Events)
         /\ T!LastOf(Append(events, event)) = event
<1>1. /\ Append(events, event) \in Seq(Events)
      /\ Len(Append(events, event)) = Len(events) + 1
      /\ Append(events, event)[Len(events) + 1] = event
      /\ Len(events) \in Nat
  OBVIOUS
<1>2. Append(events, event) # <<>>
  BY <1>1
<1> QED BY <1>1, <1>2 DEF T!LastOf

(* What a step may write.                                                  *)
LEMMA WriteKeepsType ==
  ASSUME TypeOK, NEW s \in Streams, NEW event \in Events, Write(s, event)
  PROVE  /\ sent' \in [Streams -> Seq(Events)]
         /\ \A r \in Streams \ {s} : sent'[r] = sent[r]
         /\ ending[s] = "open" => /\ sent'[s] = Append(sent[s], event)
                                  /\ T!LastOf(sent'[s]) = event
         /\ ending[s] # "open" => sent' = sent
<1>1. sent \in [Streams -> Seq(Events)]
  BY DEF TypeOK
<1>2. CASE ending[s] = "open"
  <2>1. sent' = [sent EXCEPT ![s] = Append(@, event)]
    BY <1>2 DEF Write
  <2> QED BY <1>1, <1>2, <2>1, LastOfAppend
<1>3. CASE ending[s] # "open"
  BY <1>1, <1>3 DEF Write
<1> QED BY <1>2, <1>3

LEMMA InitIInv == Init => IInv
<1> SUFFICES ASSUME Init PROVE IInv
  OBVIOUS
<1> USE AskConstantsOK DEF Init
<1>1. TypeOK
  BY DEF TypeOK, Stages, RetrieveStates
<1>2. LogsOnce
  BY DEF LogsOnce, OneRecordPerQuestion, NotLoggedYet
<1>3. PlacesAreKept
  <2> SUFFICES ASSUME NEW u \in Users
               PROVE  rows[u] + Cardinality(Admitted(u)) < DailyMax + Cardinality(Streams)
    BY DEF PlacesAreKept
  <2>1. Admitted(u) = {}
    BY DEF Admitted, Running
  <2>2. Cardinality(Streams) \in Nat
    BY FS_CardinalityType
  <2> QED BY <2>1, <2>2, FS_EmptySet
<1>4. StreamsFit
  BY DEF StreamsFit
<1> QED BY <1>1, <1>2, <1>3, <1>4 DEF IInv

(* TypeOK is inductive by itself.                                          *)
LEMMA BeginTypeOK ==
  ASSUME TypeOK, NEW s \in Streams, Begin(s) PROVE TypeOK'
<1> USE DEF TypeOK, Stages, RetrieveStates, Stage
<1>1. CASE \E who \in Users \cup {Admin} : Open(s, who)
  BY <1>1 DEF Open
<1>2. CASE \E u \in Users : Refuse(s, u)
  BY <1>2 DEF Refuse, nodes
<1> QED BY <1>1, <1>2 DEF Begin

LEMMA LogTypeOK ==
  ASSUME TypeOK, NEW s \in Streams, Log(s)
  PROVE  logged' \in [Streams -> Nat] /\ rows' \in [Users -> Nat]
<1>1. CASE asker[s] \in Users
  BY <1>1 DEF TypeOK, Log
<1>2. CASE asker[s] \notin Users
  BY <1>2 DEF TypeOK, Log
<1> QED BY <1>1, <1>2

LEMMA GatherTypeOK ==
  ASSUME TypeOK, NEW s \in Streams,
         Plan(s) \/ Retrieve(s) \/ RunTools(s) \/ GraphFails(s)
  PROVE  TypeOK'
<1> USE DEF TypeOK, Stages, RetrieveStates, Stage
<1>1. CASE Plan(s)
  BY <1>1 DEF Plan
<1>2. CASE Search(s)
  BY <1>2 DEF Search, RetrieveStep
<1>3. CASE LogEmpty(s)
  BY <1>3, LogTypeOK DEF LogEmpty, RetrieveStep
<1>4. CASE TellEmpty(s) \/ SendFacts(s) \/ SendSources(s)
  <2>1. sent' \in [Streams -> Seq(Events)]
    BY <1>4, WriteKeepsType DEF TellEmpty, SendFacts, SendSources, Events
  <2> QED BY <1>4, <2>1 DEF TellEmpty, SendFacts, SendSources, RetrieveStep
<1>5. CASE RunTools(s)
  <2>1. sent' \in [Streams -> Seq(Events)]
    BY <1>5, WriteKeepsType DEF RunTools, Events
  <2> QED BY <1>5, <2>1 DEF RunTools
<1>6. CASE GraphFails(s)
  <2>1. sent' \in [Streams -> Seq(Events)]
    BY <1>6, WriteKeepsType DEF GraphFails, Events
  <2> QED BY <1>6, <2>1 DEF GraphFails
<1> QED BY <1>1, <1>2, <1>3, <1>4, <1>5, <1>6 DEF Retrieve

LEMMA AnswerTypeOK ==
  ASSUME TypeOK, NEW s \in Streams,
         Generate(s) \/ SendDelta(s) \/ Check(s) \/ SendDone(s)
  PROVE  TypeOK'
<1> USE DEF TypeOK, Stages, NextStage, Stage
<1>1. CASE FinishAnswer(s)
  BY <1>1 DEF FinishAnswer
<1>2. CASE LogAnswer(s)
  BY <1>2, LogTypeOK DEF LogAnswer
<1>3. CASE Apologise(s) \/ SendDelta(s) \/ Check(s) \/ SendDone(s)
  <2>1. sent' \in [Streams -> Seq(Events)]
    BY <1>3, WriteKeepsType DEF Apologise, SendDelta, Check, SendDone, Events
  <2> QED BY <1>3, <2>1 DEF Apologise, SendDelta, Check, SendDone
<1> QED BY <1>1, <1>2, <1>3 DEF Generate

LEMMA EndTypeOK ==
  ASSUME TypeOK, NEW s \in Streams, Close(s) \/ GiveUp(s) \/ Disconnect(s)
  PROVE  TypeOK'
BY DEF TypeOK, Stages, Stage, Close, GiveUp, Disconnect, nodes

LEMMA NextTypeOK == TypeOK /\ [Next]_vars => TypeOK'
<1> SUFFICES ASSUME TypeOK, [Next]_vars PROVE TypeOK'
  OBVIOUS
<1>1. CASE \E s \in Streams :
             Begin(s) \/ Proceed(s) \/ SendDelta(s) \/ GraphFails(s) \/ Disconnect(s)
  BY <1>1, BeginTypeOK, GatherTypeOK, AnswerTypeOK, EndTypeOK DEF Proceed
<1>2. CASE Crash
  BY <1>2 DEF Crash, TypeOK, Stages
<1>3. CASE NewDay
  BY <1>3 DEF NewDay, TypeOK, nodes
<1>4. CASE UNCHANGED vars
  BY <1>4 DEF vars, TypeOK
<1> QED BY <1>1, <1>2, <1>3, <1>4 DEF Next

-----------------------------------------------------------------------------
(* A step that is quiet for the records: nobody is admitted, nothing is    *)
(* recorded, and no question gets back to where it has no record.          *)
Quiet ==
  /\ UNCHANGED <<asker, logged, rows>>
  /\ \A s \in Streams : /\ NotLoggedYet(s)' => NotLoggedYet(s)
                        /\ Running(s)' => Running(s)

LEMMA QuietSteps ==
  ASSUME TypeOK, NEW s \in Streams,
         \/ Plan(s) \/ Search(s) \/ TellEmpty(s) \/ SendFacts(s) \/ SendSources(s)
         \/ RunTools(s) \/ GraphFails(s) \/ SendDelta(s) \/ FinishAnswer(s)
         \/ Apologise(s) \/ Check(s) \/ SendDone(s)
         \/ Close(s) \/ GiveUp(s) \/ Disconnect(s)
  PROVE  Quiet
<1> USE DEF TypeOK, Quiet, NotLoggedYet, Running, Stage, NextStage, RetrieveStep
<1>1. CASE Plan(s) \/ Search(s) \/ TellEmpty(s) \/ SendFacts(s) \/ SendSources(s)
  BY <1>1 DEF Plan, Search, TellEmpty, SendFacts, SendSources
<1>2. CASE RunTools(s) \/ GraphFails(s)
  BY <1>2 DEF RunTools, GraphFails, Joined
<1>3. CASE SendDelta(s) \/ FinishAnswer(s) \/ Apologise(s) \/ Check(s) \/ SendDone(s)
  BY <1>3 DEF SendDelta, FinishAnswer, Apologise, Check, SendDone
<1>4. CASE Close(s) \/ GiveUp(s) \/ Disconnect(s)
  BY <1>4 DEF Close, GiveUp, Disconnect, nodes
<1> QED BY <1>1, <1>2, <1>3, <1>4

LEMMA QuietKeepsRecords ==
  ASSUME TypeOK, TypeOK', LogsOnce, PlacesAreKept, Quiet
  PROVE  LogsOnce' /\ PlacesAreKept'
<1>1. LogsOnce'
  BY DEF LogsOnce, OneRecordPerQuestion, Quiet
<1>2. PlacesAreKept'
  <2> SUFFICES ASSUME NEW u \in Users
               PROVE  rows'[u] + Cardinality(Admitted(u)')
                        < DailyMax + Cardinality(Streams)
    BY DEF PlacesAreKept
  <2>1. Admitted(u)' \subseteq Admitted(u) /\ IsFiniteSet(Admitted(u))
    BY AskConstantsOK, FS_Subset DEF Admitted, Quiet
  <2>2. Cardinality(Admitted(u)') <= Cardinality(Admitted(u))
    BY <2>1, FS_Subset
  <2>3. /\ Cardinality(Admitted(u)') \in Nat /\ Cardinality(Admitted(u)) \in Nat
        /\ Cardinality(Streams) \in Nat
    BY <2>1, AskConstantsOK, FS_Subset, FS_CardinalityType
  <2>4. rows'[u] = rows[u] /\ rows[u] \in Nat
    BY DEF Quiet, TypeOK
  <2>5. rows[u] + Cardinality(Admitted(u)) < DailyMax + Cardinality(Streams)
    BY DEF PlacesAreKept
  <2> QED BY <2>2, <2>3, <2>4, <2>5, AskConstantsOK
<1> QED BY <1>1, <1>2

(* log_customer_question: the record takes the place of its question.      *)
LEMMA LogKeepsRecords ==
  ASSUME TypeOK, TypeOK', LogsOnce, PlacesAreKept, NEW s \in Streams,
         LogEmpty(s) \/ LogAnswer(s)
  PROVE  LogsOnce' /\ PlacesAreKept'
<1>1. /\ Log(s) /\ UNCHANGED asker
      /\ NotLoggedYet(s) /\ ~NotLoggedYet(s)' /\ Running(s)
      /\ \A r \in Streams \ {s} : stage'[r] = stage[r] /\ retrieving'[r] = retrieving[r]
  BY DEF LogEmpty, LogAnswer, RetrieveStep, NextStage, Stage, NotLoggedYet, Running, TypeOK
<1>2. logged[s] = 0
  BY <1>1 DEF LogsOnce
<1>3. CASE UNCHANGED <<rows, logged>>
  <2>1. Quiet
    BY <1>1, <1>3 DEF Quiet, NotLoggedYet, Running
  <2> QED BY <2>1, QuietKeepsRecords
<1>4. CASE /\ asker[s] \in Users
           /\ rows' = [rows EXCEPT ![asker[s]] = @ + 1]
           /\ logged' = [logged EXCEPT ![s] = @ + 1]
  <2>1. logged'[s] = 1 /\ \A r \in Streams \ {s} : logged'[r] = logged[r]
    BY <1>2, <1>4 DEF TypeOK
  <2>2. LogsOnce'
    BY <1>1, <1>4, <2>1 DEF LogsOnce, OneRecordPerQuestion, NotLoggedYet
  <2>3. PlacesAreKept'
    <3> SUFFICES ASSUME NEW u \in Users
                 PROVE  rows'[u] + Cardinality(Admitted(u)')
                          < DailyMax + Cardinality(Streams)
      BY DEF PlacesAreKept
    <3>1. rows[u] + Cardinality(Admitted(u)) < DailyMax + Cardinality(Streams)
      BY DEF PlacesAreKept
    <3>2. IsFiniteSet(Admitted(u))
      BY AskConstantsOK, FS_Subset DEF Admitted
    <3>3. /\ Cardinality(Admitted(u)) \in Nat /\ Cardinality(Streams) \in Nat
          /\ rows[u] \in Nat
      BY <3>2, AskConstantsOK, FS_CardinalityType DEF TypeOK
    <3>4. Admitted(u)' = Admitted(u) \ {s}
      BY <1>1, <2>1 DEF Admitted, Running
    <3>5. CASE u = asker[s]
      <4>1. s \in Admitted(u)
        BY <1>1, <1>2, <3>5 DEF Admitted
      <4>2. Cardinality(Admitted(u)') = Cardinality(Admitted(u)) - 1
        BY <3>2, <3>4, <4>1, FS_RemoveElement
      <4>3. rows'[u] = rows[u] + 1
        BY <1>4, <3>5 DEF TypeOK
      <4> QED BY <3>1, <3>3, <4>2, <4>3, AskConstantsOK
    <3>6. CASE u # asker[s]
      <4>1. Admitted(u)' = Admitted(u)
        BY <3>4, <3>6 DEF Admitted
      <4>2. rows'[u] = rows[u]
        BY <1>4, <3>6 DEF TypeOK
      <4> QED BY <3>1, <4>1, <4>2
    <3> QED BY <3>5, <3>6
  <2> QED BY <2>2, <2>3
<1> QED BY <1>1, <1>3, <1>4 DEF Log

(* ask_me admits a question while there is a row left.                     *)
LEMMA BeginKeepsRecords ==
  ASSUME TypeOK, TypeOK', LogsOnce, PlacesAreKept, NEW s \in Streams, Begin(s)
  PROVE  LogsOnce' /\ PlacesAreKept'
<1>1. /\ stage[s] = "idle" /\ rows' = rows /\ logged'[s] = 0
      /\ \A r \in Streams \ {s} :
           /\ asker'[r] = asker[r] /\ logged'[r] = logged[r]
           /\ stage'[r] = stage[r] /\ retrieving'[r] = retrieving[r]
      /\ \/ stage'[s] = "idle"
         \/ asker'[s] \in Users => rows[asker'[s]] < DailyMax
  <2>1. CASE \E who \in Users \cup {Admin} : Open(s, who)
    BY <2>1 DEF Open, Stage, QuestionsLeft, TypeOK
  <2>2. CASE \E u \in Users : Refuse(s, u)
    BY <2>2 DEF Refuse, nodes, TypeOK
  <2> QED BY <2>1, <2>2 DEF Begin
<1>2. LogsOnce'
  BY <1>1 DEF LogsOnce, OneRecordPerQuestion, NotLoggedYet
<1>3. PlacesAreKept'
  <2> SUFFICES ASSUME NEW u \in Users
               PROVE  rows'[u] + Cardinality(Admitted(u)') < DailyMax + Cardinality(Streams)
    BY DEF PlacesAreKept
  <2>1. /\ Admitted(u)' \subseteq Streams /\ Admitted(u) \subseteq Streams
        /\ IsFiniteSet(Streams) /\ IsFiniteSet(Admitted(u))
    BY AskConstantsOK, FS_Subset DEF Admitted
  <2>2. /\ Cardinality(Admitted(u)') <= Cardinality(Streams)
        /\ Cardinality(Admitted(u)') \in Nat
        /\ Cardinality(Admitted(u)) \in Nat /\ Cardinality(Streams) \in Nat
    BY <2>1, FS_Subset, FS_CardinalityType
  <2>3. rows'[u] = rows[u] /\ rows[u] \in Nat
    BY <1>1 DEF TypeOK
  <2>4. CASE stage'[s] # "idle" /\ asker'[s] = u
    BY <1>1, <2>2, <2>3, <2>4, AskConstantsOK
  <2>5. CASE stage'[s] = "idle" \/ asker'[s] # u
    <3>1. Admitted(u)' = Admitted(u)
      BY <1>1, <2>5 DEF Admitted, Running
    <3> QED BY <2>3, <3>1 DEF PlacesAreKept
  <2> QED BY <2>4, <2>5
<1> QED BY <1>2, <1>3

(* Midnight.                                                               *)
LEMMA NewDayKeepsRecords ==
  ASSUME TypeOK, LogsOnce, NewDay
  PROVE  LogsOnce' /\ PlacesAreKept'
<1>1. LogsOnce'
  BY DEF LogsOnce, OneRecordPerQuestion, NotLoggedYet, NewDay, nodes
<1>2. PlacesAreKept'
  <2> SUFFICES ASSUME NEW u \in Users
               PROVE  rows'[u] + Cardinality(Admitted(u)') < DailyMax + Cardinality(Streams)
    BY DEF PlacesAreKept
  <2>1. Admitted(u)' \subseteq Streams /\ IsFiniteSet(Streams)
    BY AskConstantsOK DEF Admitted
  <2>2. Cardinality(Admitted(u)') <= Cardinality(Streams)
    BY <2>1, FS_Subset
  <2>3. Cardinality(Admitted(u)') \in Nat /\ Cardinality(Streams) \in Nat
    BY <2>1, FS_Subset, FS_CardinalityType
  <2>4. rows'[u] = 0
    BY DEF NewDay
  <2> QED BY <2>2, <2>3, <2>4, AskConstantsOK
<1> QED BY <1>1, <1>2

LEMMA NextKeepsRecords ==
  TypeOK /\ TypeOK' /\ LogsOnce /\ PlacesAreKept /\ [Next]_vars
    => LogsOnce' /\ PlacesAreKept'
<1> SUFFICES ASSUME TypeOK, TypeOK', LogsOnce, PlacesAreKept, [Next]_vars
             PROVE  LogsOnce' /\ PlacesAreKept'
  OBVIOUS
<1>1. CASE \E s \in Streams : Begin(s)
  BY <1>1, BeginKeepsRecords
<1>2. CASE \E s \in Streams : LogEmpty(s) \/ LogAnswer(s)
  BY <1>2, LogKeepsRecords
<1>3. CASE \E s \in Streams :
             \/ Plan(s) \/ Search(s) \/ TellEmpty(s) \/ SendFacts(s) \/ SendSources(s)
             \/ RunTools(s) \/ GraphFails(s) \/ SendDelta(s) \/ FinishAnswer(s)
             \/ Apologise(s) \/ Check(s) \/ SendDone(s)
             \/ Close(s) \/ GiveUp(s) \/ Disconnect(s)
  <2>1. Quiet
    BY <1>3, QuietSteps
  <2> QED BY <2>1, QuietKeepsRecords
<1>4. CASE Crash \/ UNCHANGED vars
  <2>1. Quiet
    BY <1>4 DEF Crash, vars, Quiet, NotLoggedYet, Running
  <2> QED BY <2>1, QuietKeepsRecords
<1>5. CASE NewDay
  BY <1>5, NewDayKeepsRecords
<1> QED BY <1>1, <1>2, <1>3, <1>4, <1>5 DEF Next, Proceed, Retrieve, Generate

-----------------------------------------------------------------------------
(* What one stream does leaves the others where they fit.                  *)
LEMMA OthersFit ==
  ASSUME StreamsFit, NEW s \in Streams,
         \A r \in Streams \ {s} :
           /\ ending'[r] = ending[r] /\ sent'[r] = sent[r]
           /\ stage'[r] = stage[r] /\ retrieving'[r] = retrieving[r],
         ending'[s] = "open" => EventsFit(s)'
  PROVE  StreamsFit'
<1> SUFFICES ASSUME NEW r \in Streams, ending'[r] = "open" PROVE EventsFit(r)'
  BY DEF StreamsFit
<1>1. CASE r # s
  BY <1>1 DEF StreamsFit, EventsFit, Running
<1> QED BY <1>1

(* A stream that is opened or refused has no events yet.                   *)
LEMMA BeginFits ==
  ASSUME TypeOK, StreamsFit, NEW s \in Streams, Begin(s)
  PROVE  StreamsFit' /\ (T!Open(s) \/ T!Refuse(s))
<1> USE DEF TypeOK
<1>0. stage[s] = "idle" /\ ending[s] # "open"
  BY DEF Begin, Open, Refuse, Stage, StreamsFit, EventsFit, Running
<1>1. CASE \E who \in Users \cup {Admin} : Open(s, who)
  <2>1. EventsFit(s)'
    BY <1>1 DEF Open, Stage, EventsFit, Running, T!LastOf
  <2>2. StreamsFit'
    BY <1>1, <2>1, OthersFit DEF Open, Stage
  <2>3. T!Open(s)
    BY <1>0, <1>1 DEF Open, T!Open
  <2> QED BY <2>2, <2>3
<1>2. CASE \E u \in Users : Refuse(s, u)
  <2>1. StreamsFit'
    BY <1>2, OthersFit DEF Refuse, nodes
  <2>2. T!Refuse(s)
    BY <1>0, <1>2 DEF Refuse, T!Refuse
  <2> QED BY <2>1, <2>2
<1> QED BY <1>1, <1>2 DEF Begin

(* The steps that write nothing.                                           *)
LEMMA SilentFits ==
  ASSUME TypeOK, StreamsFit, NEW s \in Streams,
         \/ Plan(s) \/ Search(s) \/ LogEmpty(s) \/ FinishAnswer(s) \/ LogAnswer(s)
         \/ GiveUp(s)
  PROVE  StreamsFit' /\ UNCHANGED T!vars
<1> USE DEF TypeOK, Stage, NextStage, RetrieveStep
<1>1. UNCHANGED <<sent, ending>>
  BY DEF Plan, Search, LogEmpty, FinishAnswer, LogAnswer, GiveUp
<1>2. ending[s] = "open" => EventsFit(s)'
  <2> SUFFICES ASSUME ending[s] = "open" PROVE EventsFit(s)'
    OBVIOUS
  <2>1. EventsFit(s)
    BY DEF StreamsFit
  <2> QED BY <1>1, <2>1
          DEF Plan, Search, LogEmpty, FinishAnswer, LogAnswer, GiveUp, EventsFit, Running
<1>3. \A r \in Streams \ {s} :
         stage'[r] = stage[r] /\ retrieving'[r] = retrieving[r]
  BY DEF Plan, Search, LogEmpty, FinishAnswer, LogAnswer, GiveUp
<1>4. StreamsFit'
  BY <1>1, <1>2, <1>3, OthersFit
<1> QED BY <1>1, <1>4 DEF T!vars

(* A step that writes an event after one that it may follow.               *)
LEMMA WritingFits ==
  ASSUME TypeOK, StreamsFit, NEW s \in Streams, NEW event \in Events, Write(s, event),
         UNCHANGED ending,
         \A r \in Streams \ {s} : stage'[r] = stage[r] /\ retrieving'[r] = retrieving[r],
         ending[s] = "open" => /\ <<T!LastOf(sent[s]), event>> \in T!Follows
                               /\ T!LastOf(sent'[s]) = event => EventsFit(s)'
  PROVE  StreamsFit' /\ (T!Send(s, event) \/ UNCHANGED T!vars)
<1>1. \A r \in Streams \ {s} : sent'[r] = sent[r]
  BY WriteKeepsType
<1>2. ending[s] = "open" => EventsFit(s)'
  BY WriteKeepsType
<1>3. StreamsFit'
  BY <1>1, <1>2, OthersFit
<1>4. CASE ending[s] = "open"
  BY <1>3, <1>4 DEF Write, T!Send
<1>5. CASE ending[s] # "open"
  BY <1>3, <1>5 DEF Write, T!vars
<1> QED BY <1>4, <1>5

(* What the nodes write while they gather.                                 *)
LEMMA GatherFits ==
  ASSUME TypeOK, StreamsFit, NEW s \in Streams,
         TellEmpty(s) \/ SendFacts(s) \/ SendSources(s) \/ RunTools(s) \/ GraphFails(s)
  PROVE  StreamsFit' /\ [T!Next]_(T!vars)
<1> USE DEF TypeOK, Stage, RetrieveStep
<1>0. ASSUME NEW event \in Events, T!Send(s, event) PROVE T!Next
  BY <1>0 DEF T!Next, T!Send
<1>1. CASE TellEmpty(s)
  <2>1. ending[s] = "open" => T!LastOf(sent[s]) = "start"
    BY <1>1 DEF TellEmpty, StreamsFit, EventsFit
  <2>2. ending[s] = "open" /\ T!LastOf(sent'[s]) = "error" => EventsFit(s)'
    BY <1>1 DEF TellEmpty, EventsFit, Running
  <2> QED BY <1>0, <1>1, <2>1, <2>2, WritingFits DEF TellEmpty, Events, T!Follows
<1>2. CASE SendFacts(s)
  <2>1. ending[s] = "open" => T!LastOf(sent[s]) = "start"
    BY <1>2 DEF SendFacts, StreamsFit, EventsFit
  <2>2. ending[s] = "open" /\ T!LastOf(sent'[s]) = "customer_facts" => EventsFit(s)'
    BY <1>2 DEF SendFacts, EventsFit, Running
  <2> QED BY <1>0, <1>2, <2>1, <2>2, WritingFits DEF SendFacts, Events, T!Follows
<1>3. CASE SendSources(s)
  <2>1. ending[s] = "open" => T!LastOf(sent[s]) = "customer_facts"
    BY <1>3 DEF SendSources, StreamsFit, EventsFit
  <2>2. ending[s] = "open" /\ T!LastOf(sent'[s]) = "sources" => EventsFit(s)'
    BY <1>3 DEF SendSources, EventsFit, Running
  <2> QED BY <1>0, <1>3, <2>1, <2>2, WritingFits DEF SendSources, Events, T!Follows
<1>4. CASE RunTools(s)
  <2>1. /\ stage[s] = "gather" /\ EventsFit(s) /\ retrieving[s] \in {"some", "none"}
        /\ UNCHANGED <<retrieving, ending>>
        /\ \A r \in Streams \ {s} : stage'[r] = stage[r]
    BY <1>4 DEF RunTools, Joined, StreamsFit
  <2>2. CASE retrieving[s] = "none" \/ ~tool[s]
    <3>1. UNCHANGED sent
      BY <1>4, <2>2 DEF RunTools
    <3>2. EventsFit(s)'
      BY <1>4, <2>1, <2>2, <3>1 DEF RunTools, EventsFit, Running
    <3> QED BY <2>1, <3>1, <3>2, OthersFit DEF T!vars
  <2>3. CASE retrieving[s] = "some" /\ tool[s]
    <3>1. T!LastOf(sent[s]) = "sources"
      BY <2>1, <2>3 DEF EventsFit
    <3>2. Write(s, "tool_result") /\ stage'[s] = "generate"
      BY <1>4, <2>3 DEF RunTools
    <3>3. T!LastOf(sent'[s]) = "tool_result" => EventsFit(s)'
      BY <3>2 DEF EventsFit, Running
    <3> QED BY <1>0, <2>1, <3>1, <3>2, <3>3, WritingFits DEF Events, T!Follows
  <2> QED BY <2>1, <2>2, <2>3
<1>5. CASE GraphFails(s)
  <2>1. ending[s] = "open" => T!LastOf(sent[s]) \in {"start", "sources"}
    BY <1>5 DEF GraphFails, Joined, StreamsFit, EventsFit
  <2>2. T!LastOf(sent'[s]) = "error" => EventsFit(s)'
    BY <1>5 DEF GraphFails, EventsFit, Running
  <2> QED BY <1>0, <1>5, <2>1, <2>2, WritingFits DEF GraphFails, Events, T!Follows
<1> QED BY <1>1, <1>2, <1>3, <1>4, <1>5

(* What generate and check write.                                          *)
LEMMA AnswerFits ==
  ASSUME TypeOK, StreamsFit, NEW s \in Streams,
         SendDelta(s) \/ Apologise(s) \/ Check(s) \/ SendDone(s)
  PROVE  StreamsFit' /\ [T!Next]_(T!vars)
<1> USE DEF TypeOK, Stage, NextStage
<1>0. ASSUME NEW event \in Events, T!Send(s, event) PROVE T!Next
  BY <1>0 DEF T!Next, T!Send
<1>1. CASE SendDelta(s)
  <2>1. ending[s] = "open" => T!LastOf(sent[s]) \in {"sources", "tool_result", "delta"}
    BY <1>1 DEF SendDelta, StreamsFit, EventsFit
  <2>2. T!LastOf(sent'[s]) = "delta" => EventsFit(s)'
    BY <1>1 DEF SendDelta, EventsFit, Running
  <2> QED BY <1>0, <1>1, <2>1, <2>2, WritingFits DEF SendDelta, Events, T!Follows
<1>2. CASE Apologise(s)
  <2>1. ending[s] = "open" => T!LastOf(sent[s]) \in {"sources", "tool_result", "delta"}
    BY <1>2 DEF Apologise, StreamsFit, EventsFit
  <2>2. T!LastOf(sent'[s]) = "error" => EventsFit(s)'
    BY <1>2 DEF Apologise, EventsFit, Running
  <2> QED BY <1>0, <1>2, <2>1, <2>2, WritingFits DEF Apologise, Events, T!Follows
<1>3. CASE Check(s)
  <2>1. ending[s] = "open" => T!LastOf(sent[s]) \in {"sources", "tool_result", "delta"}
    BY <1>3 DEF Check, StreamsFit, EventsFit
  <2>2. T!LastOf(sent'[s]) \in {"verification", "error"} => EventsFit(s)'
    BY <1>3 DEF Check, EventsFit, Running
  <2> QED BY <1>0, <1>3, <2>1, <2>2, WritingFits DEF Check, Events, T!Follows
<1>4. CASE SendDone(s)
  <2>1. ending[s] = "open" => T!LastOf(sent[s]) \in {"verification", "error"}
    BY <1>4 DEF SendDone, StreamsFit, EventsFit
  <2>2. T!LastOf(sent'[s]) = "done" => EventsFit(s)'
    BY <1>4 DEF SendDone, EventsFit, Running
  <2> QED BY <1>0, <1>4, <2>1, <2>2, WritingFits DEF SendDone, Events, T!Follows
<1> QED BY <1>1, <1>2, <1>3, <1>4

(* The ends of a stream.                                                   *)
LEMMA EndFits ==
  ASSUME TypeOK, StreamsFit, NEW s \in Streams, Close(s) \/ Disconnect(s)
  PROVE  StreamsFit' /\ (T!Close(s) \/ T!Lose(s))
<1> USE DEF TypeOK
<1>1. CASE Close(s)
  <2>1. StreamsFit'
    BY <1>1, OthersFit DEF Close, Stage
  <2>2. T!LastOf(sent[s]) \in {"done", "error"}
    BY <1>1 DEF Close, Stage, StreamsFit, EventsFit
  <2> QED BY <1>1, <2>1, <2>2 DEF Close, T!Close
<1>2. CASE Disconnect(s)
  <2>1. StreamsFit'
    BY <1>2, OthersFit DEF Disconnect, nodes
  <2> QED BY <1>2, <2>1 DEF Disconnect, T!Lose
<1> QED BY <1>1, <1>2

(* The server goes down, or the day ends.                                  *)
LEMMA OutsideFits ==
  ASSUME TypeOK, StreamsFit, Crash \/ NewDay \/ UNCHANGED vars
  PROVE  StreamsFit' /\ (T!LoseAll \/ UNCHANGED T!vars)
<1>1. CASE Crash
  BY <1>1 DEF Crash, StreamsFit, T!LoseAll
<1>2. CASE NewDay \/ UNCHANGED vars
  BY <1>2 DEF NewDay, vars, nodes, StreamsFit, EventsFit, Running, T!vars
<1> QED BY <1>1, <1>2

LEMMA NextFits == TypeOK /\ StreamsFit /\ [Next]_vars => StreamsFit' /\ [T!Next]_(T!vars)
<1> SUFFICES ASSUME TypeOK, StreamsFit, [Next]_vars
             PROVE  StreamsFit' /\ [T!Next]_(T!vars)
  OBVIOUS
<1>1. CASE \E s \in Streams : Begin(s)
  BY <1>1, BeginFits DEF T!Next
<1>2. CASE \E s \in Streams :
             \/ Plan(s) \/ Search(s) \/ LogEmpty(s) \/ FinishAnswer(s) \/ LogAnswer(s)
             \/ GiveUp(s)
  BY <1>2, SilentFits
<1>3. CASE \E s \in Streams :
             TellEmpty(s) \/ SendFacts(s) \/ SendSources(s) \/ RunTools(s) \/ GraphFails(s)
  BY <1>3, GatherFits
<1>4. CASE \E s \in Streams : SendDelta(s) \/ Apologise(s) \/ Check(s) \/ SendDone(s)
  BY <1>4, AnswerFits
<1>5. CASE \E s \in Streams : Close(s) \/ Disconnect(s)
  BY <1>5, EndFits DEF T!Next
<1>6. CASE Crash \/ NewDay \/ UNCHANGED vars
  BY <1>6, OutsideFits DEF T!Next
<1> QED BY <1>1, <1>2, <1>3, <1>4, <1>5, <1>6 DEF Next, Proceed, Retrieve, Generate

-----------------------------------------------------------------------------
(* The nodes, the streams and the records have their shapes, a question    *)
(* is recorded once, admitted questions keep their places below the bound, *)
(* and what was written fits where the nodes are.                          *)
THEOREM SpecIInv == Spec => []IInv
<1>1. IInv /\ [Next]_vars => IInv'
  BY NextTypeOK, NextKeepsRecords, NextFits DEF IInv
<1> QED BY <1>1, InitIInv, PTL DEF Spec

(* Type correctness, for any streams, members and quota.                   *)
THEOREM SpecTypeOK == Spec => []TypeOK
<1>1. IInv => TypeOK
  BY DEF IInv
<1> QED BY <1>1, SpecIInv, PTL

(* Every way through the graph records a member's question once at most,   *)
(* and an administrator's never.                                           *)
THEOREM SpecOneRecordPerQuestion == Spec => []OneRecordPerQuestion
<1>1. IInv => OneRecordPerQuestion
  BY DEF IInv, LogsOnce
<1> QED BY <1>1, SpecIInv, PTL

(* The daily limit that is counted at the start of a question and recorded *)
(* at its end is exceeded by fewer questions than run at a time.           *)
THEOREM SpecQuotaOvershoot == Spec => []QuotaOvershoot
<1>1. IInv => QuotaOvershoot
  <2> SUFFICES ASSUME IInv, NEW u \in Users
               PROVE  rows[u] < DailyMax + Cardinality(Streams)
    BY DEF QuotaOvershoot
  <2>1. rows[u] + Cardinality(Admitted(u)) < DailyMax + Cardinality(Streams)
    BY DEF IInv, PlacesAreKept
  <2>2. IsFiniteSet(Admitted(u)) /\ IsFiniteSet(Streams)
    BY AskConstantsOK, FS_Subset DEF Admitted
  <2>3. Cardinality(Admitted(u)) \in Nat /\ Cardinality(Streams) \in Nat /\ rows[u] \in Nat
    BY <2>2, FS_CardinalityType DEF IInv, TypeOK
  <2> QED BY <2>1, <2>3, AskConstantsOK
<1> QED BY <1>1, SpecIInv, PTL

(* The graph with its parallel nodes, its join and its failures writes     *)
(* nothing but transcripts that Transcript allows.                         *)
THEOREM SpecImplementsTranscript == Spec => ImplementsTranscript
<1>1. Init => T!Init
  BY DEF Init, T!Init
<1>2. IInv /\ [Next]_vars => [T!Next]_(T!vars)
  BY NextFits DEF IInv
<1> QED BY <1>1, <1>2, SpecIInv, PTL DEF Spec, ImplementsTranscript, T!Spec
=============================================================================
