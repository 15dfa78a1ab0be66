------------------------------ MODULE HtmlView ------------------------------
(***************************************************************************)
(* The page the web service makes of its history of digests: which digest  *)
(* it shows as the latest, which parts of an article it leaves out, and    *)
(* how a text gets into the markup.                                        *)
(*                                                                         *)
(* A text is a sequence of characters; the rest of a character reference   *)
(* after its "&" counts as one character.  Definitions named F_without...  *)
(* are broken variants of F.                                               *)
(***************************************************************************)
EXTENDS SequencesExt

CONSTANTS
  Characters,        \* what a text is made of
  NoPart             \* a part of the page that is left out

\* The rest of a reference and the character it stands for.
References ==
  [ref \in {"amp;", "lt;", "gt;", "quot;", "#39;"} |->
     CASE ref = "amp;"  -> "&"
       [] ref = "lt;"   -> "<"
       [] ref = "gt;"   -> ">"
       [] ref = "quot;" -> "quote"
       [] ref = "#39;"  -> "apostrophe"]

ASSUME CharacterAssumption ==
  /\ DOMAIN References \union {References[ref] : ref \in DOMAIN References}
       \subseteq Characters
  /\ NoPart \notin Seq(Seq(Characters))

Escaped(ch, special) ==
  IF ch \in special THEN <<"&", CHOOSE ref \in DOMAIN References : References[ref] = ch>>
                    ELSE <<ch>>

EscapeHtml_withoutAmpersand(value) ==
  FlattenSeq([i \in DOMAIN value |->
                Escaped(value[i], {"<", ">", "quote", "apostrophe"})])

EscapeHtml(value) ==
  FlattenSeq([i \in DOMAIN value |->
                Escaped(value[i], {References[ref] : ref \in DOMAIN References})])

RenderArticle(article) ==
  [link   |-> <<EscapeHtml(article.url), EscapeHtml(article.title)>>,
   byline |-> IF article.author = <<>> THEN NoPart
              ELSE IF article.published_at = <<>> THEN <<EscapeHtml(article.author)>>
              ELSE <<EscapeHtml(article.author), EscapeHtml(article.published_at)>>,
   hubs   |-> IF article.hubs = <<>> THEN NoPart
              ELSE [h \in DOMAIN article.hubs |-> EscapeHtml(article.hubs[h])]]
=============================================================================
