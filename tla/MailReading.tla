---------------------------- MODULE MailReading -----------------------------
(***************************************************************************)
(* What the program makes of one message: its text within the limits, the  *)
(* ways to unsubscribe it offers, its category and the group it belongs    *)
(* to.  Pure functions; nothing here has state.  (backend/app/             *)
(* email_processing, classification, candidates/grouper.py.)               *)
(*                                                                         *)
(* A text is a sequence of words, and of a word only its kind matters:     *)
(* whether a pattern of the program matches there.                         *)
(***************************************************************************)
EXTENDS Integers, SequencesExt

CONSTANTS
  MaxMessage,      \* largest message that is opened (10 MiB)
  MaxDecoded,      \* text decoded of one message (2 MiB)
  Opening, Window, Footer,   \* the model reads this much of a long text
  None             \* no list id, no link, no answer of the model

Category == {"marketing", "non_marketing", "unclear"}

Kind      == {"unsubscribe", "offer", "security", "invoice", "quoted", "text"}
Protected == {"security", "invoice"}
Signal    == {"unsubscribe", "offer", "security"}

(* A message: size, listId, sender, sent (a time), the subject's words, the*)
(* header fields oneClick, https and mailto (the targets they name), and   *)
(* the MIME parts, each with its words: kind of word, whether the word is  *)
(* displayed, and the target it is linked to.  A target has a scheme, a    *)
(* place (host and path, or the address), a token (the query), named: it   *)
(* says unsubscribe or preferences, and sound: the URL policy or the mail  *)
(* parser accepts its form.                                                *)

-----------------------------------------------------------------------------
(* Normalization.                                                          *)

TextParts(m) == SelectSeq(m.parts, LAMBDA p : p.kind \in {"plain", "html"})

(* The words decoded: parts are read until the ceiling is reached.         *)
Decoded(m) ==
  LET parts   == TextParts(m)
      room(i) == MaxDecoded - FoldSeq(LAMBDA p, n : n + Len(p.words), 0, SubSeq(parts, 1, i - 1))
  IN  [i \in {j \in DOMAIN parts : room(j) > 0} |->
         [parts[i] EXCEPT !.words = SubSeq(@, 1, Min({room(i), Len(@)}))]]

Displayed(words) == SelectSeq(words, LAMBDA w : w.shown)

PartText(p) ==
  LET words == IF p.kind = "html" THEN Displayed(p.words) ELSE p.words
  IN  [i \in DOMAIN words |-> words[i].is]

PartLinks(p) ==
  LET linked == SelectSeq(Displayed(p.words), LAMBDA w : w.href # None /\ w.is = "unsubscribe")
  IN  [i \in DOMAIN linked |-> linked[i].href]

Joined(parts, Of(_)) == FlattenSeq([i \in DOMAIN parts |-> Of(parts[i])])

(* Everything from the first line that quotes another message is dropped.  *)
RemoveQuotedHistory(text) ==
  SubSeq(text, 1, Min({Len(text)} \cup {i - 1 : i \in {j \in DOMAIN text : text[j] = "quoted"}}))

(* Plain text if there is a plain part, even an empty one.                 *)
OwnText(m) ==
  LET parts == Decoded(m)
      plain == SelectSeq(parts, LAMBDA p : p.kind = "plain")
  IN  RemoveQuotedHistory(Joined(IF plain # <<>> THEN plain ELSE parts, PartText))

Oversized(m) == m.size > MaxMessage

Links(m) ==
  IF Oversized(m) THEN <<>>
  ELSE Joined(SelectSeq(Decoded(m), LAMBDA p : p.kind = "html"), PartLinks)

(* Opening, a window around the first signal, and the end of the text.     *)
ModelBudget(text) ==
  LET signals == {i \in DOMAIN text : text[i] \in Signal}
      centre  == IF signals = {} THEN Len(text) \div 2 ELSE Min(signals) - 1
      start   == Max({0, centre - Window \div 2})
  IN  IF Len(text) <= Opening + Window + Footer THEN text
      ELSE SubSeq(text, 1, Opening)
           \o SubSeq(text, start + 1, Min({start + Window, Len(text)}))
           \o SubSeq(text, Len(text) - Footer + 1, Len(text))

(* Subject and the part of the text that rules and model read.             *)
Haystack(m) == m.subject \o ModelBudget(OwnText(m))

-----------------------------------------------------------------------------
(* Unsubscribe methods, in the order in which they are found.              *)
Offer(method, targets) == [i \in DOMAIN targets |-> [method |-> method, target |-> targets[i]]]

Discover(m) ==
  LET web == SelectSeq((IF m.oneClick THEN <<>> ELSE m.https) \o Links(m),
                       LAMBDA t : t.scheme = "https" /\ t.named)
  IN  (IF m.oneClick THEN Offer("rfc8058", m.https) ELSE <<>>)
      \o Offer("mailto", m.mailto) \o Offer("browser", web)

-----------------------------------------------------------------------------
(* Classification.  An answer of the model has a category, says whether it *)
(* is sure (confidence at least 0.65), and quotes a word.                  *)

(* At most two attempts; the second only after an exception.               *)
AskModel(first, second) == IF first # None THEN first ELSE second

ProtectedByRule(m) == \E i \in DOMAIN Haystack(m) : Haystack(m)[i] \in Protected
Verified(m, answer) == answer.sure /\ \E i \in DOMAIN Haystack(m) : Haystack(m)[i] = answer.quote

(* Variant: the quote is not looked up in the message.                     *)
ClassifyUnverified(m, answer) ==
  IF Oversized(m) THEN "unclear"
  ELSE IF ProtectedByRule(m) THEN "non_marketing"
  ELSE IF answer = None \/ ~answer.sure THEN "unclear" ELSE answer.category

Classify(m, answer) ==
  IF Oversized(m) THEN "unclear"
  ELSE IF ProtectedByRule(m) THEN "non_marketing"
  ELSE IF answer = None \/ ~Verified(m, answer) THEN "unclear" ELSE answer.category

-----------------------------------------------------------------------------
(* Grouping: by list id, by the endpoint of the first method if that is a  *)
(* web address, else by sender.                                            *)
GroupKey(m, offers) ==
  IF m.listId # None THEN <<"list", m.listId>>
  ELSE IF Head(offers).target.scheme \in {"http", "https"}
       THEN <<"endpoint", Head(offers).target.place>>
       ELSE <<"sender", m.sender>>

Priority == [rfc8058 |-> 0, mailto |-> 1, browser |-> 2]
=============================================================================
