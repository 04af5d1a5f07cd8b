------------------------------ MODULE MCMobileApp ------------------------------
(* Two shares, one of a text and a file, one of a file and two items that  *)
(* are not imported; what may happen in each of the histories.             *)
EXTENDS MobileApp, TLC

Item3(kind, content, usable) == [kind |-> kind, content |-> content, usable |-> usable]

MCItems ==
    ("b1" :> <<Item3("text", "t1", TRUE), Item3("file", "f1", TRUE)>>) @@
    ("b2" :> <<Item3("file", "f1", FALSE), Item3("other", "t1", TRUE)>>)

Start(rows, starred, share, user, resume, outside, pull, fault) ==
    [rows |-> rows, starred |-> starred, share |-> share, user |-> user,
     resume |-> resume, outside |-> outside, pull |-> pull, fault |-> fault]

MCStarts == { Start(<<"t1">>, {}, 1, 0, 0, 0, 0, 1),
              Start(<<"t1", "f1">>, {}, 2, 0, 0, 0, 0, 0),
              Start(<<"t1", "f1">>, {}, 1, 0, 1, 0, 0, 0),
              Start(<<>>, {}, 0, 0, 1, 2, 0, 0),
              Start(<<"c1">>, {}, 0, 0, 1, 1, 1, 0),
              Start(<<"f1", "c1">>, {}, 0, 0, 0, 1, 1, 0),
              Start(<<"t1", "c1">>, {}, 0, 1, 0, 1, 1, 0),
              Start(<<"f1", "t1", "c1">>, {}, 0, 0, 0, 1, 1, 0),
              Start(<<"f1", "t1", "c1">>, {}, 0, 1, 0, 1, 0, 0),
              Start(<<"f1", "c1", "t1">>, {"f1"}, 0, 2, 0, 0, 0, 0),
              Start(<<"f1", "c1", "t1">>, {}, 0, 1, 0, 0, 0, 1) }
=============================================================================
