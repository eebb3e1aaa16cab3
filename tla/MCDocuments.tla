---------------------------- MODULE MCDocuments ----------------------------
(* Payloads and remote texts for Documents.                                *)
EXTENDS Documents

text == [k |-> "text", v |-> 0]
fence == [k |-> "fence", v |-> 0]
open == [k |-> "open", v |-> 0]

\* Prose, a restated heading, a foreign heading, open and closed fences, headings quoted
\* in them and not, and steps with and without a task.
Payloads == {
    <<text>>, <<H2("Plan"), open>>, <<H2("Spec"), text>>, <<fence>>,
    <<fence, H2("Plan"), fence>>, <<fence, text, fence, H2("Plan")>>, <<fence, H2("Plan")>>,
    <<H3(1), open>>, <<open>>, <<H3(0), open>> }

ClosedTexts == {<<>>, <<text>>, <<fence, H2("Plan"), fence>>, <<open>>}
AnyTexts == ClosedTexts \union {<<H2("Plan"), text>>, <<fence>>}
=============================================================================
