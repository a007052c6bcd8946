---------------------------- MODULE MCWebClient ----------------------------
(* The clicks of each section for the model checker: as many as it takes to *)
(* have the calls and answers its properties are about overlap.  And the    *)
(* constants that are not plain sets: who has which skill, a link to the    *)
(* form, the steps of the workflows and crews a page is opened on.          *)
EXTENDS WebClient

ClicksOfSection ==
    [editor |-> 2, planner |-> 4, box |-> 6, directory |-> 3, community |-> 3, team |-> 4,
     wizard |-> 4, channels |-> 2, submissions |-> 5, forms |-> 5, payouts |-> 4,
     settings |-> 4, admin |-> 2, servers |-> 4,
     console |-> [form |-> 1, page |-> 1, polled |-> 1, streamed |-> 2]]

\* Two steps more: to remove the first of a workflow and to save and run what is left.
ClicksToRun == [ClicksOfSection EXCEPT !["editor"] = 4]

\* One agent with a skill, the other with two.
SkillsOfAgent == [a1 |-> {"x"}, a2 |-> {"y", "z"}]

\* A link that names an agent and a skill of another.
ForeignLink == [agent |-> "a1", skill |-> "y"]

Opened == [workflow |-> {<<>>, <<"a1", "nested">>}, crew |-> {<<"a1", "a2">>}]
=============================================================================
