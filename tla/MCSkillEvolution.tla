--------------------------- MODULE MCSkillEvolution ---------------------------
(***************************************************************************)
(* Two small instances of SkillEvolution, after the two banks the          *)
(* repository ships.  ALFWorld: new skills of a type get the prefix its    *)
(* initial skills already have (clean), or a prefix no skill has yet       *)
(* (examine).  WebShop: no type has a prefix, so new skills stay dyn_NNN.  *)
(***************************************************************************)
EXTENDS SkillEvolution

Initial(c, p) ==
  [cat |-> c, id |-> [pfx |-> p, n |-> 1], meta |-> 0, text |-> 0]

AlfTypes    == {"clean", "examine"}
AlfPrefixes == {"gen", "cle", "exa"}
AlfRank     == [c \in AlfTypes \cup {"general"} |->
                 CASE c = "general" -> 0 [] c = "clean" -> 1 [] OTHER -> 2]
AlfPrefix   == [t \in AlfTypes |-> IF t = "clean" THEN "cle" ELSE "exa"]
AlfBank     == {Initial("general", "gen"), Initial("clean", "cle")}

\* The theorems about rollbacks speak of this instance, too.
ASSUME AlfIsMapped == Mapped(AlfPrefix, AlfBank)

WebTypes    == {"apparel", "footwear"}
WebPrefixes == {"gen", "app", "dyn"}
WebRank     == [c \in WebTypes \cup {"general"} |->
                 CASE c = "general" -> 0 [] c = "apparel" -> 1 [] OTHER -> 2]
WebPrefix   == [t \in WebTypes |-> "dyn"]
WebBank     == {Initial("general", "gen"), Initial("apparel", "app")}
=============================================================================
