------------------------------- MODULE MCEngine -------------------------------
(* Small instances of the engine: the prompts and max_tokens of its requests. *)
EXTENDS EngineCore

\* a has a prompt longer than one chunk, b a short one, c one that leaves room
\* for a single token when max_model_len is 5.
Prompts == [r \in Ids |-> CASE r = "a" -> 3 [] r = "b" -> 1 [] r = "c" -> 4]
Answers == [r \in Ids |-> CASE r = "a" -> 2 [] r = "b" -> 3 [] r = "c" -> 2]

\* The same with shorter answers, for the runs that submit an id twice.
ShortAnswers == [r \in Ids |-> IF r = "b" THEN 2 ELSE 1]

\* c's prompt fills the context and is rejected.
OversizedPrompt == [Prompts EXCEPT !["c"] = 5]

\* Prompts of one token with answers that fill the context.
UnitPrompts == [r \in Ids |-> 1]
FullAnswers == [r \in Ids |-> 3]
=============================================================================
