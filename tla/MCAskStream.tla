---------------------------- MODULE MCAskStream -----------------------------
(***************************************************************************)
(* AskStream with a member, the administrator and two streams; today's     *)
(* rows are bounded by the quota and the streams, so the state space is    *)
(* finite.                                                                 *)
(***************************************************************************)
EXTENDS AskStream
=============================================================================
