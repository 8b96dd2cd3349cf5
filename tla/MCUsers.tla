------------------------------ MODULE MCUsers ------------------------------
(* What users decide and set: permissions and plans (HumanLoop), and the    *)
(* theme of a project (Themes).  They share no state: a behaviour runs one  *)
(* of them, chosen in its initial state.                                    *)
EXTENDS HumanLoop, Themes, TLC

VARIABLE part

SameDeciders == Permutations(Deciders)

\* Two built-in themes that differ in both tokens; the second is the default.
MCManifest == <<[accent |-> 1, surface |-> 1], [accent |-> 2, surface |-> 2]>>
NoTokens == [t \in {} |-> 0]
\* A theme by name; a theme with an override; a token like the default's over the
\* other theme; tokens from which the first theme, or none, is inferred.
MCAsks == {[theme |-> 2, overrides |-> NoTokens, tokens |-> NoTokens],
           [theme |-> 1, overrides |-> [accent |-> 2], tokens |-> NoTokens],
           [theme |-> 0, overrides |-> NoTokens, tokens |-> [surface |-> 1]],
           [theme |-> 0, overrides |-> NoTokens, tokens |-> [accent |-> 2, surface |-> 1]]}
MCLegacy == {NoTokens, [accent |-> 1, surface |-> 2]}

\* Changes during a deploy; redeploys; a link that breaks and an awesome-client
\* that fails.
Limit(s, d, b, r) == [sets |-> s, deploys |-> d, breaks |-> b, refusals |-> r]
MCThemeLimits == {Limit(2, 2, 0, 0), Limit(2, 1, 1, 1)}

UsersInit ==
  /\ HumanInit /\ ThemeInit
  /\ part \in {"verdicts", "themes"}
  /\ part = "verdicts" => left = Limit(2, 2, 0, 0) /\ project.tokens = NoTokens

UsersNext ==
  /\ UNCHANGED part
  /\ \/ part = "verdicts" /\ UNCHANGED th_vars /\ HumanNext
     \/ part = "themes" /\ UNCHANGED human_vars /\ ThemeNext

\* What tells states apart: the variables of the part that moves, without what no
\* step and no property reads any more: a response to a request that has its outcome,
\* the verdict of a mutation that has pushed, and whether a handler was alone once
\* none is open or nothing is mixed.
Live ==
  <<exec, mail, wire, agent_row, perm_status, plan_status, consumer,
    [r \in Items |-> IF exec.outcome[r] = "none" THEN responses[r] ELSE "none"],
    [u \in Deciders |-> IF user[u].pc \in {"save", "push"} THEN user[u]
                        ELSE [user[u] EXCEPT !.verdict = "none"]],
    [story EXCEPT !.alone = @ \/ Quiet \/ ~story.mixed]>>
Moving == IF part = "verdicts" THEN <<part, Live>> ELSE <<part, th_vars>>

UsersSpec == UsersInit /\ [][UsersNext]_<<human_vars, th_vars, part>>
=============================================================================
