------------------------------ MODULE MCReview ------------------------------
(***************************************************************************)
(* A mailbox and answers of the model, for TLC.                            *)
(***************************************************************************)
EXTENDS Review, TLC

CONSTANTS m1, m2, m3, m4

Address(place, sound) ==
  [scheme |-> "mailto", place |-> place, token |-> "none", named |-> FALSE, sound |-> sound]
Page(place, token) ==
  [scheme |-> "https", place |-> place, token |-> token, named |-> TRUE, sound |-> TRUE]

W(kind) == [is |-> kind, shown |-> TRUE, href |-> None]
Plain(words) == <<[kind |-> "plain", words |-> words]>>

Letter == [size |-> 1, listId |-> "news", sender |-> "s", subject |-> <<"text">>,
           oneClick |-> FALSE, https |-> <<>>, mailto |-> <<>>, parts |-> <<>>, sent |-> 0]

(* Three issues of a newsletter: the last names an address to write to and *)
(* links to a page, the others have a one-click address each, but one is   *)
(* too large to be opened and one looks like an invoice.  And a letter     *)
(* whose sender names an address that cannot be used.                      *)
Mailbox ==
  (m1 :> [Letter EXCEPT !.sent = 3, !.mailto = <<Address("leave", TRUE)>>,
            !.parts = Plain(<<W("offer"), W("quoted"), W("invoice")>>) \o
            <<[kind |-> "html",
               words |-> <<[is |-> "unsubscribe", shown |-> TRUE, href |-> Page("prefs", "c")]>>]>>]) @@
  (m2 :> [Letter EXCEPT !.sent = 2, !.oneClick = TRUE, !.https = <<Page("post", "a")>>,
                        !.size = 3, !.parts = Plain(<<W("offer")>>)]) @@
  (m3 :> [Letter EXCEPT !.sent = 1, !.oneClick = TRUE, !.https = <<Page("post", "b")>>,
            !.parts = Plain(<<W("offer"), W("text"), W("text"), W("text"), W("text"), W("invoice")>>)]) @@
  (m4 :> [Letter EXCEPT !.sent = 4, !.listId = None, !.mailto = <<Address("nowhere", FALSE)>>])

Says(c, sure, quote) == [category |-> c, sure |-> sure, quote |-> quote]
Answers == {Says("marketing", TRUE, "offer"), Says("marketing", FALSE, "offer")}

Symmetry == Permutations(Tab) \cup Permutations(Plan)
=============================================================================
