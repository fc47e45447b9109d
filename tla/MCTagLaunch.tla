------------------------------ MODULE MCTagLaunch ------------------------------
(* Instances of TagLaunch for TLC. *)
EXTENDS TagLaunchProps

CONSTANTS a, b, x, y, m1, m2, m3

\* Two tags of one account for one ticker.
OneUser     == <<a, a>>
OneTicker   == <<x, x>>

\* A tag that meets every rule, and one for each class of those that do not.
Line(name, tickers) == [name |-> name, tickers |-> tickers, last |-> TRUE]
Media(own, parent) == [own |-> own, replied_to |-> parent, quoted |-> "none"]
Good ==
    [words |-> <<Line("good", <<"good">>)>>,
     post |-> [refs |-> {"replied_to"}, edited |-> FALSE, old |-> FALSE, media |-> Media("none", "photo")],
     user |-> [fails |-> {"few_followers"}, verified |-> TRUE, unread |-> FALSE],
     reserved |-> FALSE, close |-> FALSE, low |-> FALSE, verdict |-> "safe"]
SomeFacts ==
    {Good,
     [Good EXCEPT !.words = <<Line("good", <<>>)>>, !.post.media = Media("video", "none")],
     [Good EXCEPT !.post.media = Media("broken", "photo")],
     [Good EXCEPT !.post.old = TRUE],
     [Good EXCEPT !.user.fails = {"too_new", "few_posts"}],
     [Good EXCEPT !.close = TRUE],
     [Good EXCEPT !.low = TRUE]}

\* A pool of one key.
OneKey == <<m1>>
================================================================================
