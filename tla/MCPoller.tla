------------------------------ MODULE MCPoller ------------------------------
(***************************************************************************)
(* Finite instances of Poller for TLC: one ticket with its description and *)
(* a second comment, or two tickets with follow-ups on none, one or both.  *)
(***************************************************************************)
EXTENDS Poller, TLC

CONSTANTS t1, t2, a1, a2, b1, b2

Descriptions == {a1, b1}
OneTicketComments == {a1, a2}
TwoTicketComments == {a1, a2, b1}
DescriptionOf == a1 :> t1 @@ b1 :> t2
Described == a1 :> "user" @@ b1 :> "user"
OneTicketOf == a1 :> t1 @@ a2 :> t1
TwoTicketOf == OneTicketOf @@ b1 :> t2
Customers == a1 :> "user" @@ a2 :> "user"
WithDirective == a1 :> "user" @@ a2 :> "directive" @@ b1 :> "user"
TwoFollowUpComments == {a1, a2, b1, b2}
TwoFollowUpsOf == TwoTicketOf @@ b2 :> t2
TwoFollowUps == Customers @@ b1 :> "user" @@ b2 :> "user"

\* The two comments of a ticket's customer are interchangeable.
CommentSymmetry == Permutations(OneTicketComments)
=============================================================================
