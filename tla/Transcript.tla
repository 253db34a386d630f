----------------------------- MODULE Transcript -----------------------------
(***************************************************************************)
(* What the client of /ask and /ask/me may rely on: the NDJSON events of   *)
(* one question arrive in an order the screen can show as they come, the   *)
(* evidence before the answer, the answer before the verdict on it, and a  *)
(* stream that was not cut off ends with done or with an error.            *)
(* AskStream.tla is shown to implement this module.                        *)
(***************************************************************************)
EXTENDS Sequences, Naturals

CONSTANT Streams

VARIABLES
  sent,    \* the events of each stream
  ending   \* "open" while a stream runs, then how it ended

vars == <<sent, ending>>

Endings == {"refused", "served", "lost"}

(* The events that may come right after each other.                        *)
Follows ==
  {<<"start", "customer_facts">>, <<"start", "error">>,
   <<"customer_facts", "sources">>,
   <<"sources", "tool_result">>, <<"sources", "delta">>,
   <<"sources", "verification">>, <<"sources", "error">>,
   <<"tool_result", "delta">>, <<"tool_result", "verification">>, <<"tool_result", "error">>,
   <<"delta", "delta">>, <<"delta", "verification">>, <<"delta", "error">>,
   <<"verification", "done">>,
   <<"error", "done">>}

LastOf(events) == IF events = <<>> THEN "start" ELSE events[Len(events)]

Init ==
  /\ sent = [s \in Streams |-> <<>>]
  /\ ending = [s \in Streams |-> "served"]

Open(s) ==
  /\ ending[s] # "open"
  /\ sent' = [sent EXCEPT ![s] = <<>>]
  /\ ending' = [ending EXCEPT ![s] = "open"]

(* The daily quota is used up.                                             *)
Refuse(s) ==
  /\ ending[s] # "open"
  /\ sent' = [sent EXCEPT ![s] = <<>>]
  /\ ending' = [ending EXCEPT ![s] = "refused"]

Send(s, event) ==
  /\ ending[s] = "open"
  /\ <<LastOf(sent[s]), event>> \in Follows
  /\ sent' = [sent EXCEPT ![s] = Append(@, event)]
  /\ UNCHANGED ending

Close(s) ==
  /\ ending[s] = "open"
  /\ LastOf(sent[s]) \in {"done", "error"}
  /\ ending' = [ending EXCEPT ![s] = "served"]
  /\ UNCHANGED sent

(* The client goes away.                                                   *)
Lose(s) ==
  /\ ending[s] = "open"
  /\ ending' = [ending EXCEPT ![s] = "lost"]
  /\ UNCHANGED sent

(* The server goes down.                                                   *)
LoseAll ==
  /\ ending' = [s \in Streams |-> IF ending[s] = "open" THEN "lost" ELSE ending[s]]
  /\ UNCHANGED sent

Next ==
  \/ \E s \in Streams :
       \/ Open(s) \/ Refuse(s) \/ Close(s) \/ Lose(s)
       \/ \E pair \in Follows : Send(s, pair[2])
  \/ LoseAll

Spec == Init /\ [][Next]_vars
=============================================================================
