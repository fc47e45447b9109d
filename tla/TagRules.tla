------------------------------- MODULE TagRules -------------------------------
(***************************************************************************)
(* The rules a tag must meet to become a coin (indexer/tag_launch.py), in  *)
(* the order the bot applies them (indexer/tag_bot.py, _one): what is read *)
(* of the post, of its author, of its words and of its picture.            *)
(*                                                                         *)
(* Facts is what may be read when a tag is acted on: a record of           *)
(*   words     the lines that begin `@bot launch', each with its name, its *)
(*             ticker words and whether the ticker ends it;                *)
(*   post      the kinds of post it refers to, whether it was edited and   *)
(*             is old, the media of each source;                           *)
(*   user      which of the account's rules fail, or `unread';             *)
(*   reserved, close     the ticker, or the name, is one nobody may have;  *)
(*   low       the launch wallet is below its floor;                       *)
(*   verdict   what the moderator says of the picture.                     *)
(***************************************************************************)
EXTENDS Integers, Sequences, FiniteSets, FiniteSetsExt

CONSTANT Facts

\* The first rule of a sequence <<condition, code>> that is met.
First(rules) ==
    LET met == {k \in DOMAIN rules : rules[k][1]}
    IN  IF met = {} THEN "none" ELSE rules[Min(met)][2]

--------------------------------------------------------------------------------
(* The words. *)

Strict(line) == line.name = "good" /\ line.tickers = <<"good">> /\ line.last

\* parse: exactly one line is a tag.
Parsed(words) == Cardinality({k \in DOMAIN words : Strict(words[k])}) = 1

\* missing_parts: nothing of a good tag, nor of talk.
MissingParts(words) ==
    IF Parsed(words) \/ Len(words) # 1 THEN {}
    ELSE LET line == words[1]
         IN  IF line.tickers = <<>> /\ line.name = "bad" THEN {}
             ELSE {part \in {"name", "ticker"} :
                    IF part = "name" THEN line.name # "good"
                                     ELSE line.tickers # <<"good">> \/ ~line.last}

ASSUME FactsAssumption == \A f \in Facts : Parsed(f.words) \/ MissingParts(f.words) # {}

--------------------------------------------------------------------------------
(* The post and its pictures: its own, then those of the post it replies to,    *)
(* then of the post it quotes.                                                  *)

ImageSources == {"replied_to", "quoted"}
InOrder == <<"own", "replied_to", "quoted">>

PhotosOf(post) == {k \in DOMAIN InOrder : post.media[InOrder[k]] \in {"photo", "broken"}}

TweetRefusal(post, replayed) == First(<<
    <<post.refs \ ImageSources # {}, "not_original">>,
    <<post.edited, "edited">>,
    <<post.old /\ ~replayed, "stale">>,
    <<PhotosOf(post) = {}, "no_image">> >>)

\* image_of: the first photo decides, whatever comes after it.
BadImage(post) == post.media[InOrder[Min(PhotosOf(post))]] = "broken"

--------------------------------------------------------------------------------
(* The account. *)

Bypassable == {"no_avatar", "too_new", "few_followers", "few_posts"}
AccountRules == <<"ignored", "parody", "protected", "withheld", "no_avatar", "too_new",
                  "few_followers", "few_posts">>

\* account_refusal: a verified account needs no followers.
Fails(user, code) == code \in user.fails /\ ~(code = "few_followers" /\ user.verified)
AccountRefusal(user) ==
    First([k \in DOMAIN AccountRules |-> <<Fails(user, AccountRules[k]), AccountRules[k]>>])

--------------------------------------------------------------------------------

\* content_refusal, and wallet_refusal.
ContentRefusal(f, taken) == First(<<
    <<f.reserved \/ taken, "ticker_taken">>,
    <<f.close, "impersonation">> >>)

WalletRefusal(f) == IF f.low THEN "wallet_low" ELSE "none"

\* _one: silent problems first; a missing picture is told with a malformed tag.
\* `limit' is what the record says of the account, `taken' of the ticker.
Refusal(f, limit, taken, replayed, bypass) ==
    LET problem == TweetRefusal(f.post, replayed)
        account == AccountRefusal(f.user)
        content == ContentRefusal(f, taken)
    IN  First(<<
            <<problem \notin {"none", "no_image"}, problem>>,
            <<f.user.unread, "no_user">>,
            <<account # "none" /\ ~(bypass /\ account \in Bypassable), account>>,
            <<limit # "none", limit>>,
            <<MissingParts(f.words) # {}, "malformed">>,
            <<problem = "no_image", problem>>,
            <<content # "none", content>>,
            <<WalletRefusal(f) # "none", WalletRefusal(f)>>,
            <<PhotosOf(f.post) # {} /\ BadImage(f.post), "bad_image">>,
            <<f.verdict = "unsafe", "image_refused">> >>)

\* What may come of the rules, whatever is read.
Limits == {"none", "banned", "timeout", "daily_limit", "monthly_limit", "ceiling"}
Refusals ==
    [limit \in Limits |-> [taken \in BOOLEAN |-> [replayed \in BOOLEAN |-> [bypass \in BOOLEAN |->
        {Refusal(f, limit, taken, replayed, bypass) : f \in Facts}]]]]

\* The state of the record for a refusal: nobody's fault, waivable, a typo, answered
\* by a reply, or silent.
Paused == {"wallet_low", "ceiling", "create_simulation"}
Replied == Bypassable \cup
    {"malformed", "no_image", "bad_image", "image_refused", "ticker_taken", "impersonation",
     "daily_limit", "monthly_limit"}

StateOf(code) ==
    First(<< <<code \in Paused, "paused">>, <<code \in Bypassable, "account">>,
             <<code = "malformed", "malformed">>, <<code \in Replied, "answered">>,
             <<TRUE, "silent">> >>)
================================================================================
