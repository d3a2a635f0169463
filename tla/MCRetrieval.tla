----------------------------- MODULE MCRetrieval -----------------------------
(* A small instance of Retrieval for TLC. *)
EXTENDS Retrieval, TLC

CONSTANTS b1, d1, d2, d3, app

MCDocsOf == b1 :> {d1, d2}

(* Documents with our delimiters, of all lengths around the cap. *)
MCText == (d1 :> <<"close", "word", "open">>) @@ (d2 :> <<"word", "open", "word", "close">>) @@ (d3 :> <<>>)

MCStock == [c \in Collections |-> IF c = "knowledge_graph" THEN {d2, d3} ELSE {}]

MCConfs ==
  {[rag |-> (app :> c), compress |-> z] : c \in {Off, Default, IngestInto}, z \in BOOLEAN}

Says(role) == [role |-> role, content |-> <<"own">>, more |-> FALSE]
(* An assistant's message with tool calls and null for its content. *)
Calls == [role |-> "assistant", content |-> <<>>, more |-> TRUE]
Chat(messages) == [chat |-> TRUE, messages |-> messages, extras |-> TRUE, packed |-> FALSE]

(* With and without a system message, without a user, and of parts. *)
MCBodies ==
  {Chat(<<Says("user")>>), Chat(<<Says("system"), Says("user"), Calls>>),
   Chat(<<>>), [Chat(<<>>) EXCEPT !.chat = FALSE]}
=============================================================================
