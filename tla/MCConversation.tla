---------------------------- MODULE MCConversation ----------------------------
(***************************************************************************)
(* Instances of Conversation for TLC.                                      *)
(***************************************************************************)
EXTENDS Conversation

AllProviders == {"anthropic", "openai", "openai-compat", "google", "ollama"}

Object == [valid |-> TRUE, set |-> NoFields]
Nothing == [p \in AllProviders |-> Object]
Counts(i, o, r, cr, cw, detailed) ==
    [input |-> i, output |-> o, reasoning |-> r, read |-> cr, write |-> cw,
     detailed |-> detailed]

Hello == Turn("user", <<Text("hello", FALSE)>>)

Plainly(start) ==
    [start |-> start, system |-> <<>>, tools |-> <<[name |-> "f", schema |-> "object"]>>,
     choice |-> [type |-> "auto", name |-> NoName], reasoning |-> NoControl, params |-> Nothing,
     counts |-> Counts(2, 1, 0, 0, 0, TRUE)]

\* A conversation of MaxMessages, so that it is sent and answered once.
Long == [i \in 1 .. MaxMessages |->
            IF i % 2 = MaxMessages % 2 THEN Hello
            ELSE Turn("assistant", <<Text("answer", FALSE)>>)]
Base == Plainly(IF MaxMessages % 2 = 1 THEN Long ELSE [Long EXCEPT ![1] = Hello])

\* Messages with and without markers, under a system prompt with or without one.
MarkedTexts == {<<Text("a", TRUE), Text("b", TRUE)>>, <<Text("a", FALSE), Text("b", TRUE)>>,
                <<Text("a", TRUE), Text("b", FALSE), Text("c", TRUE)>>, <<Text("a", FALSE)>>}
Prompts == {<<>>, <<Text("system", FALSE), Text("more", TRUE)>>, <<Text("system", FALSE)>>}
Marking ==
    {[Base EXCEPT !.start = [i \in 1 .. MaxMessages |->
                                IF i \in {1, 3} THEN Turn("user", m[(i + 1) \div 2])
                                ELSE IF i = MaxMessages THEN Turn("user", m[3])
                                ELSE Turn("assistant", <<Text("answer", FALSE)>>)],
                  !.system = s] : m \in [1 .. 3 -> MarkedTexts], s \in Prompts}

\* Tool definitions and choices.
ToolsOf(names) == [i \in DOMAIN names |-> [name |-> names[i], schema |-> "none"]]
ToolChoices == {[type |-> t, name |-> NoName] : t \in {"unset", "auto", "none", "required", "tool", "any"}}
    \cup {[type |-> "tool", name |-> n] : n \in {"f", "h"}}
Choosing ==
    {[Base EXCEPT !.tools = t, !.choice = c] :
        t \in {<<>>, ToolsOf(<<"f">>), ToolsOf(<<"f", "g">>)}, c \in ToolChoices}
Schemas ==
    {[Base EXCEPT !.tools = <<[name |-> "f", schema |-> s]>>] :
        s \in {"none", "untyped", "null", "array", "otherType", "typeList", "nested"}}

\* Reasoning controls, with fields of the application over them.
Controls == [effort : AllEfforts \cup {NoEffort, "other"}, budget : {0, 2, 5}]
Paths == {<<"thinking", "type">>, <<"thinking", "budget_tokens">>, <<"thinking">>,
          <<"thinking", "display">>, <<"output_config", "effort">>, <<"output_config">>,
          <<"reasoning", "effort">>, <<"reasoning", "summary">>, <<"reasoning">>,
          <<"reasoning_effort">>, <<"think">>, <<"generationConfig">>,
          <<"generationConfig", "thinkingConfig">>,
          <<"generationConfig", "thinkingConfig", "thinkingLevel">>,
          <<"generationConfig", "thinkingConfig", "thinkingBudget">>,
          <<"generationConfig", "thinkingConfig", "includeThoughts">>}
Value(path) ==
    CASE Last(path) \in {"budget_tokens", "thinkingBudget"} -> 7
      [] path = <<"thinking", "type">> -> "disabled"
      [] OTHER -> "new"
Overriding ==
    {[Base EXCEPT !.reasoning = c,
                  !.params = [p \in AllProviders |-> [valid |-> TRUE, set |-> Field(f, Value(f))]]] :
        c \in Controls, f \in Paths}
Controlled == {[Base EXCEPT !.reasoning = c] : c \in Controls}
Unreadable ==
    {[Base EXCEPT !.params = [p \in AllProviders |-> [valid |-> FALSE, set |-> NoFields]]]}

\* What servers report, plausible or not.
Counting ==
    {[Base EXCEPT !.counts = Counts(i, o, r, cr, cw, d)] :
        i \in {0, 2}, o \in {0, 2}, r \in {-1, 0, 1, 3}, cr \in {-1, 0, 1, 3}, cw \in {-1, 0, 2},
        d \in BOOLEAN}

MCSettings ==
    {Plainly(<<Hello>>)} \cup Marking \cup Choosing \cup Schemas \cup Overriding \cup Controlled
        \cup Unreadable \cup Counting

MCReplies == {<<"text">>, <<"void">>, <<"think">>, <<"think", "f">>, <<"f", "text", "g">>,
              <<"f", "f">>}
MCQuestions == {<<Text("more", FALSE)>>}

Brief == {Plainly(<<Hello>>)}
OneCall == {<<"f">>, <<"g">>}
OllamaThenGoogle == {"ollama", "google"}
===============================================================================
