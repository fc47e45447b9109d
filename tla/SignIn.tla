-------------------------------- MODULE SignIn --------------------------------
(***************************************************************************)
(* The moderator's ChatGPT sign-in (indexer/codex_auth.py, TokenStore) and *)
(* the one call that judges a picture with it (indexer/moderation.py,      *)
(* codex_moderator).                                                       *)
(*                                                                         *)
(* A refresh token is single use: OpenAI answers it once with the next one *)
(* of its family, and revokes the family when a spent one is sent again.   *)
(* The n-th token of a family is <<family, n>>.                            *)
(*                                                                         *)
(* Abstraction.  An access token that is no readable JWT, or that does not *)
(* say when it expires, is left out.                                       *)
(***************************************************************************)
EXTENDS Integers

CONSTANTS
    Programs,       \* the programs that use the file: the bot, and perhaps a dry run
    NoGrant,        \* no sign-in
    MaxLogins,      \* bound: sign-ins by the owner
    MaxIssued,      \* bound: refresh tokens of one sign-in
    MaxLost         \* bound: answers lost, and programs stopped with an answer in hand

ASSUME SignInAssumption == {MaxLogins, MaxIssued, MaxLost} \subseteq Nat /\ MaxLogins > 0

Families == 1..MaxLogins

VARIABLES
    file,       \* the sign-in on disk, and whether its access token is still good
    issued,     \* family -> the last refresh token OpenAI issued; 0 for none
    revoked,    \* the families OpenAI has revoked
    memory,     \* program -> the place in `moderate', and the tokens it holds
    replayed,   \* (history) a spent token has been sent again
    lost        \* (bound) answers lost so far

signVars == <<file, issued, revoked, memory, replayed, lost>>

Grant(family, turn, good) == [family |-> family, turn |-> turn, good |-> good]
Away == [at |-> "away", token |-> NoGrant]
At(p, place, token) == memory' = [memory EXCEPT ![p] = [at |-> place, token |-> token]]

\* moderator_for: a live bot starts with a sign-in on file.
SignInit ==
    /\ file = Grant(1, 1, TRUE)
    /\ issued = [f \in Families |-> IF f = 1 THEN 1 ELSE 0] /\ revoked = {}
    /\ memory = [p \in Programs |-> Away]
    /\ replayed = FALSE /\ lost = 0

\* --codex-login, while the bot runs or not: a new family.
Login(f) ==
    /\ issued[f] = 0 /\ (f > 1 => issued[f - 1] > 0)
    /\ issued' = [issued EXCEPT ![f] = 1]
    /\ file' = Grant(f, 1, TRUE)
    /\ UNCHANGED <<revoked, memory, replayed, lost>>

\* Two minutes before it expires an access token is good no more.
Lapse ==
    /\ file.good
    /\ file' = [file EXCEPT !.good = FALSE]
    /\ UNCHANGED <<issued, revoked, memory, replayed, lost>>

\* access
Access(p) ==
    /\ memory[p].at = "away"
    /\ At(p, IF file.good THEN "signed" ELSE "refresh", file)
    /\ UNCHANGED <<file, issued, revoked, replayed, lost>>

(* refresh: what OpenAI answers. *)

Sends(p) == memory[p].at = "refresh"
Live(t) == t.family \notin revoked /\ t.turn = issued[t.family]
Following(t) == Grant(t.family, t.turn + 1, TRUE)

\* A new refresh token, or none beside the access token.
Rotates(p) ==
    /\ Sends(p)
    /\ LET t == memory[p].token
       IN  /\ Live(t)
           /\ \/ /\ t.turn < MaxIssued
                 /\ issued' = [issued EXCEPT ![t.family] = @ + 1]
                 /\ At(p, "fresh", Following(t))
              \/ /\ At(p, "fresh", [t EXCEPT !.good = TRUE])
                 /\ UNCHANGED issued
    /\ UNCHANGED <<file, revoked, replayed, lost>>

\* It answers, and the answer never arrives.
Unheard(p) ==
    /\ Sends(p) /\ lost < MaxLost
    /\ LET t == memory[p].token
       IN  /\ Live(t) /\ t.turn < MaxIssued
           /\ issued' = [issued EXCEPT ![t.family] = @ + 1]
    /\ At(p, "failed", NoGrant) /\ lost' = lost + 1
    /\ UNCHANGED <<file, revoked, replayed>>

Denied(p) ==
    /\ Sends(p)
    /\ LET t == memory[p].token
       IN  /\ ~Live(t)
           /\ revoked' = revoked \cup {t.family}
           /\ replayed' = (replayed \/ t.family \notin revoked)
    /\ At(p, "failed", NoGrant)
    /\ UNCHANGED <<file, issued, lost>>

\* HTTP 429, 5xx, or no connection.
Busy(p) ==
    /\ Sends(p) /\ At(p, "failed", NoGrant)
    /\ UNCHANGED <<file, issued, revoked, replayed, lost>>

\* save: the old refresh token is spent.
SaveAccess(t) == file' = [t EXCEPT !.turn = file.turn]
Save(t) == file' = t

Keep(p) ==
    /\ memory[p].at = "fresh"
    /\ Save(memory[p].token)
    /\ At(p, "signed", memory[p].token)
    /\ UNCHANGED <<issued, revoked, replayed, lost>>

\* Killed with the answer in hand.
Killed(p) ==
    /\ memory[p].at = "fresh" /\ lost < MaxLost
    /\ At(p, "failed", NoGrant) /\ lost' = lost + 1
    /\ UNCHANGED <<file, issued, revoked, replayed>>

\* The model's answer: exactly SAFE, anything else, or none (stream_text).
Judged(p, verdict) ==
    /\ memory[p].at = "signed"
    /\ At(p, verdict, NoGrant)
    /\ UNCHANGED <<file, issued, revoked, replayed, lost>>

Moderates(p) ==
    \/ Access(p) \/ Rotates(p) \/ Unheard(p) \/ Denied(p) \/ Busy(p) \/ Keep(p) \/ Killed(p)
    \/ \E verdict \in {"safe", "unsafe", "failed"} : Judged(p, verdict)

Over(p) == memory[p].at \in {"safe", "unsafe", "failed"}
Leaves(p) == Over(p) /\ memory' = [memory EXCEPT ![p] = Away]
                     /\ UNCHANGED <<file, issued, revoked, replayed, lost>>

--------------------------------------------------------------------------------

\* The sign-in on file can be refreshed again, or is about to be replaced by one that
\* can: only an answer that was lost, or a kill before it was saved, ends it (refresh:
\* `the old refresh token is spent now').
GrantOutlivesRefresh ==
    lost = 0 => Live(file) \/ \E p \in Programs : memory[p].at = "fresh" /\ Live(memory[p].token)

\* No two programs spend each other's token (codex_auth: `refresh tokens are single
\* use, so two programs sharing one grant would spend each other's token').
NoTokenIsReplayed == ~replayed
================================================================================
