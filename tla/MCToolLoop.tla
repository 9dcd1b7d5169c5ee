------------------------------ MODULE MCToolLoop ------------------------------
(***************************************************************************)
(* Instances of ToolLoop for TLC.                                          *)
(***************************************************************************)
EXTENDS ToolLoop

GoogleAdapter == INSTANCE Gemini WITH MaxInt32 <- 2147483647

Said == AssistantMsg("some", <<>>, NoReasoning)
Asking == UserMsg("now")
Task == UserMsg("task")

\* A task; a conversation with a new question, of one message or two; a tool
\* turn still answering the question; a conversation that ends with an answer;
\* one that an earlier run summarized.
MCRequests == {
    <<Task>>,
    <<Task, Said, Asking>>,
    <<Task, AssistantMsg("none", <<"a">>, Bound), ToolMsg(<<"a">>), Said, Asking, UserMsg("also")>>,
    <<Task, Said, Asking, AssistantMsg("some", <<"a">>, Bound), ToolMsg(<<"a">>)>>,
    <<Task, Said>>,
    <<Task, UserMsg(SummaryTag), Asking, Said, UserMsg("next")>>}

MCHooks ==
    {[policy |-> "none", keep |-> 0, early |-> FALSE], [policy |-> "app", keep |-> 0, early |-> FALSE]}
        \cup [policy : {"keepLast", "summarize"}, keep : {0, 1}, early : BOOLEAN]

\* Text, an empty text, reasoning alone, one call with reasoning, two calls.
MCResponses == {
    Said, AssistantMsg("empty", <<>>, NoReasoning), AssistantMsg("none", <<>>, Bound),
    AssistantMsg("none", <<"a">>, Bound), AssistantMsg("some", <<"a", "b">>, NoReasoning)}

\* A task and no hook, with the calls of the Gemini adapter: one, or two of the
\* same function.
TaskOnly == {<<Task>>}
NoHook == {[policy |-> "none", keep |-> 0, early |-> FALSE]}

Search == GoogleAdapter!ToolCall(GoogleAdapter!NoId, "search", GoogleAdapter!NoSignature)
Reply == GoogleAdapter!Text("answer", FALSE)

GeminiResponses ==
    {GoogleAdapter!Outline(GoogleAdapter!toChatResponse(parts)) :
        parts \in {<<Reply>>, <<Search>>, <<Search, Search>>}}
===============================================================================
