------------------------------ MODULE MCFramePath -----------------------------
EXTENDS FramePath, TLC

Word(w) == <<w>>
N1 == <<Word("N1")>>
N2 == <<Word("N2")>>
F == <<Word("F")>>

MCNode == {N1, N2}
MCAuthors == (N1 :> {NilName, <<Word("ann")>>}) @@ (N2 :> {NoName})
MCTime == {<<7, 5>>}
MCBody == [short |-> 1, long |-> 3]
OldId == <<F, 1, "short">>
MCReplyText == {NilText, [form |-> "upper", id |-> OldId], [form |-> "junk", id |-> <<>>]}
Sent(from, seq, chan, reply) ==
  [id |-> <<from, seq, "short">>, from |-> from, ts |-> seq, chan |-> chan,
   reply |-> reply, body |-> "short", seq |-> seq, author |-> NoName]
MCForeign ==
  {Sent(F, 1, "general", <<"short">>),
   Sent(F \o <<Colon, Itoa(1)>>, 1, "General", OldId),
   Sent(F \o <<Comma>> \o N1 \o <<Colon>> \o F, 1, "general", NoId)}
=============================================================================
