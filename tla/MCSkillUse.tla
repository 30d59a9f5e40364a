----------------------------- MODULE MCSkillUse -----------------------------
(***************************************************************************)
(* A small instance of SkillUse after the WebShop bank, where no task type *)
(* has a prefix and new skills stay dyn_NNN, as an earlier run left it:    *)
(* dynamic skills in two lists, two of them low in utility.  Prompts have  *)
(* room for fewer skills than the lists hold.  Gain and Loss are scaled up *)
(* so that two misses make an eviction (27 with the values of the code).   *)
(***************************************************************************)
EXTENDS SkillUse

S(pfx, n, utility) == [id |-> [pfx |-> pfx, n |-> n],
                       text |-> [by |-> "file", at |-> 0], utility |-> utility]

WebOrder  == <<"apparel", "footwear">>
WebPrefixes == {"gen", "app", "dyn"}
WebPrefix == [t \in {"apparel", "footwear"} |-> "dyn"]
WebLists  == [c \in {"general", "apparel", "footwear"} |->
                CASE c = "general" -> <<S("gen", 1, 100), S("dyn", 1, 55), S("dyn", 2, 55)>>
                  [] c = "apparel" -> <<S("app", 1, 100), S("dyn", 3, 100)>>
                  [] OTHER         -> <<>>]

WebSetups == {[mode |-> "embedding", topK |-> 2, taskTopK |-> 1],
              [mode |-> "template", topK |-> 2, taskTopK |-> 9]}

\* Neighbouring dynamic skills are alike, whatever list they are in, if
\* they were written at different times or loaded; dyn_001 is like app_001.
WebNear(pair) ==
  \E s, r \in pair :
    \/ /\ s.id.pfx = "dyn" /\ r.id.pfx = "dyn" /\ s.id.n - r.id.n = 1
       /\ s.text.at # r.text.at \/ s.text.by = "file"
    \/ s.id = [pfx |-> "app", n |-> 1] /\ r.id = [pfx |-> "dyn", n |-> 1]

\* Newer texts are closer to the task.
WebCloseness(t, s) ==
  10 * s.text.at + s.id.n
    + IF s.id.pfx = "dyn" THEN (IF t = "apparel" THEN 5 ELSE -5) ELSE 0
=============================================================================
