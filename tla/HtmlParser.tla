----------------------------- MODULE HtmlParser -----------------------------
(***************************************************************************)
(* What the parser makes of a page: HtmlParser::Parse as a function of     *)
(* what its XPath queries find in each <article> of the listing.           *)
(*                                                                         *)
(* A text is a sequence of characters, of which only those the code looks  *)
(* at are told apart; "http" stands for the four letters of a prefix.      *)
(* NoNode is a query without a result, or an attribute that is not there.  *)
(* A double is a fraction whose denominator is a power of two.             *)
(*                                                                         *)
(* Definitions named F_without... or F_with... are broken variants of F.   *)
(***************************************************************************)
EXTENDS Integers, SequencesExt

CONSTANTS
  BaseUrl,           \* a text
  Kilo, Mega,        \* 1000 and 1000000
  MantissaBits,      \* of a double: 53
  Beyond,            \* the value of a counter that needs more bits than that
  NoNode,
  Unreadable         \* a page that is empty, or of which libxml2 makes nothing

ASSUME HtmlParserAssumption ==
  /\ Kilo \in Nat \ {0} /\ Mega \in Nat \ {0}
  /\ MantissaBits \in Nat \ {0}
  /\ BaseUrl \in Seq(Range(BaseUrl))

Numerals  == <<"0", "1", "2", "3", "4", "5", "6", "7", "8", "9">>
Blanks    == {" ", "nbsp"}
Thousands == {"K", "k", "K (Cyrillic)"}
Millions  == {"M", "m", "M (Cyrillic)"}

-----------------------------------------------------------------------------
(* Texts                                                                   *)

Inked(text) == {i \in DOMAIN text : text[i] \notin Blanks}

Trim_withoutNbsp(text) ==
  LET ink == {i \in DOMAIN text : text[i] # " "}
  IN  IF ink = {} THEN <<>> ELSE SubSeq(text, Min(ink), Max(ink))

Trim(text) ==
  IF Inked(text) = {} THEN <<>>
                      ELSE SubSeq(text, Min(Inked(text)), Max(Inked(text)))

\* TextOf of a node, AttributeOf of an attribute.
Content(found) == IF found = NoNode THEN <<>> ELSE Trim(found)

Url(href) ==
  IF href = <<>> \/ href[1] = "http" THEN href ELSE BaseUrl \o href

-----------------------------------------------------------------------------
(* Counters                                                                *)

IsNumeral(c) == \E d \in 1..10 : Numerals[d] = c

Value(c) == CHOOSE v \in 0..9 : Numerals[v + 1] = c

\* Round to nearest, ties to even.
Nearest(n, d) ==
  LET rest == 2 * (n % d)
  IN  IF rest > d \/ (rest = d /\ (n \div d) % 2 = 1) THEN n \div d + 1
                                                      ELSE n \div d

\* The double next to a fraction below 2^MantissaBits.
Double(x) ==
  LET Normal(e) == x.num * 2^e >= 2^(MantissaBits - 1) * x.den
      e == CHOOSE e \in 0..(MantissaBits + x.den) :
             Normal(e) /\ (e = 0 \/ ~Normal(e - 1))
  IN  IF x.num = 0 THEN x
                   ELSE [num |-> Nearest(x.num * 2^e, x.den), den |-> 2^e]

\* What push_back adds of a character.
Kept(c) ==
  IF IsNumeral(c) \/ c \in {"-", "."} THEN <<c>>
  ELSE IF c = "," THEN <<".">> ELSE <<>>

Cleaned_withoutComma(raw) ==
  FlattenSeq([i \in DOMAIN raw |-> IF raw[i] = "," THEN <<>> ELSE Kept(raw[i])])

Cleaned(raw) == FlattenSeq([i \in DOMAIN raw |-> Kept(raw[i])])

\* The last letter counts.
Multiplier(raw) ==
  LET letters == {i \in DOMAIN raw : raw[i] \in Thousands \union Millions}
  IN  IF letters = {} THEN 1
      ELSE IF raw[Max(letters)] \in Thousands THEN Kilo ELSE Mega

\* The number that the first k characters of a text write, its dot left out.
Read(text) ==
  LET read[k \in 0..Len(text)] ==
        IF k = 0 THEN 0
        ELSE IF IsNumeral(text[k]) THEN 10 * read[k - 1] + Value(text[k])
        ELSE read[k - 1]
  IN  read

\* std::stod reads as much as makes a number.  What makes none (it throws) is
\* zero like the texts ParseCount handles itself.
Stod(text) ==
  LET Dots(k) == {i \in 1..k : text[i] = "."}
      read == Max({k \in 0..Len(text) : /\ Cardinality(Dots(k)) <= 1
                                        /\ \A i \in 1..k : text[i] # "-"})
  IN  [num |-> Read(text)[read],
       den |-> 10^(IF Dots(read) = {} THEN 0 ELSE read - Max(Dots(read)))]

\* static_cast<int64_t>(std::stod(cleaned) * multiplier)
ParseCount(raw) ==
  LET text     == Cleaned(raw)
      negative == text # <<>> /\ text[1] = "-"
      exact    == Stod(IF negative THEN Tail(text) ELSE text)
      Fits(x)  == x.num < 2^MantissaBits * x.den
      Times(x) == [x EXCEPT !.num = @ * Multiplier(raw)]
      product  == Double(Times(Double(exact)))
  IN  IF ~(Fits(exact) /\ Fits(Times(exact))) THEN Beyond
      ELSE IF negative THEN -(product.num \div product.den)
      ELSE product.num \div product.den

-----------------------------------------------------------------------------
(* Pages                                                                   *)

\* What a push_back adds that a condition guards.
Pushed(condition, value) == IF condition THEN <<value>> ELSE <<>>

Article(node) ==
  LET Count(found) == ParseCount(Content(found)) IN
  [article_id   |-> Content(node.id),
   title        |-> Content(node.title),
   url          |-> Url(Content(node.href)),
   author       |-> Content(node.author),
   published_at |-> Content(node.time),
   complexity   |-> Content(node.complexity),
   reading_time |-> Content(node.reading_time),
   views        |-> Count(IF Content(node.views_title) = <<>> THEN node.views
                                                    ELSE node.views_title),
   votes        |-> Count(node.votes),
   bookmarks    |-> Count(node.bookmarks),
   comments     |-> Count(node.comments),
   hubs |-> FlattenSeq([h \in DOMAIN node.hubs |->
              Pushed(Content(node.hubs[h]) # <<>>, Content(node.hubs[h]))])]

IsKept(article) == article.article_id # <<>> /\ article.title # <<>>

\* A page is the sequence of its article nodes, in document order.
Parse(page) ==
  LET nodes    == IF page = Unreadable THEN <<>> ELSE page
      articles == FlattenSeq([i \in DOMAIN nodes |->
                    LET article == Article(nodes[i])
                    IN  Pushed(IsKept(article), article)])
  IN  [articles |-> articles, skipped |-> Len(nodes) - Len(articles)]
=============================================================================
