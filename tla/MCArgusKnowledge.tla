--------------------------- MODULE MCArgusKnowledge ----------------------------
(***************************************************************************)
(* How Argus comes by what it knows, in two scenes that share no state: a  *)
(* tracked page with two versions and a feed with one post, over three     *)
(* names, so that both loops meet the same names at the same time; and two *)
(* investigations of the same topic, one after the other.                  *)
(***************************************************************************)
EXTENDS ArgusKnowledge, ArgusInvestigation, TLC

CONSTANTS site, feed, before, after, post, long, cve, actor, malware
CONSTANTS story, thread, code

OnPage == [c \in {before, after, post, long} |-> IF c \in {post, long} THEN "post" ELSE "page"]
Returned == (site :> {<<before>>, <<after>>}) @@ (feed :> {<<post>>, <<long>>})
Names == (before :> <<cve, actor>>) @@ (after :> <<actor>>) @@ (post :> <<cve, actor, malware>>) @@ (long :> << >>)
Answers == {<< >>}

(* Both engines have the story; Q is q in upper case, and r, when it is the  *)
(* first query, finds more than a round may read.                            *)
MCLowerCase == [q \in Queries |-> IF q = "Q" THEN "q" ELSE q]
MCFinds == [q \in Queries |->
  IF q = "r" THEN ("web" :> <<thread, code>>) @@ ("news" :> <<story>>)
             ELSE ("web" :> <<story>>) @@ ("news" :> <<story, thread>>)]
MCPlans == {<<"r">>, <<"Q", "r">>}
MCSuggestions == {<<"q">>, <<"Q", "r">>}

(* Two things go wrong only while there is one investigation.                *)
FewFaults == faults' = 2 /\ faults = 1 => Current = 1

MCInit == Init /\ InquiryInit

KnowledgeScene == Next /\ InquiryInit /\ UNCHANGED inquiryVars
InquiryScene == InquiryNext /\ FewFaults /\ Init /\ UNCHANGED vars

MCSpec == MCInit /\ [][KnowledgeScene \/ InquiryScene]_<<vars, inquiryVars>> /\ Fairness
================================================================================
