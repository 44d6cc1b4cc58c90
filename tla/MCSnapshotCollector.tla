------------------------ MODULE MCSnapshotCollector ------------------------
(* Pull requests below, at and above each limit of pages of two rows.       *)
EXTENDS SnapshotCollector

Sizes(comments, reviews, nested, contexts) ==
    [comments |-> comments, reviews |-> reviews, inline |-> nested, checks |-> contexts]

MCOpenings == {
    Sizes(3, 1, <<1>>, 3),
    Sizes(4, 0, <<>>, 4),     \* a full history of Forgejo
    Sizes(1, 2, <<3, 1, 0>>, 0), \* as many inline comments as there may be
    Sizes(5, 0, <<2, 3>>, 0), \* one inline comment too many
    Sizes(4, 0, <<1, 1>>, 4), \* above the budget on Forgejo
    Sizes(6, 6, <<>>, 6),     \* a full history of GitHub, for all of the budget
    Sizes(6, 6, <<3>>, 6),    \* above the budget on GitHub
    Sizes(7, 0, <<>>, 1)}     \* one row too many
=============================================================================
