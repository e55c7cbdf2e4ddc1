----------------------------- MODULE MCResults ------------------------------
(* One market of each type, three lines of handicap, and selections named  *)
(* by side, by team, and with a handicap in the name.                      *)
EXTENDS Results, TLC

Sel(role) == [role |-> role, named |-> "side", lined |-> FALSE, line |-> 0]
Team(role) == [Sel(role) EXCEPT !.named = "team"]
Lined(role, line) == [Sel(role) EXCEPT !.lined = TRUE, !.line = line]

MCMarkets == {"1X2", "DOUBLE_CHANCE", "DRAW_NO_BET", "OVER_UNDER",
              "BOTH_TEAMS_TO_SCORE", "AH_QUARTER", "AH_HALF", "AH_NAMED",
              "OUTRIGHT", "TOTALS_2_5"}
MCTypeOf == [m \in MCMarkets |->
    IF m \in {"AH_QUARTER", "AH_HALF", "AH_NAMED"} THEN "ASIAN_HANDICAP" ELSE m]
MCLineOf == [m \in MCMarkets |-> CASE m = "OVER_UNDER" -> 8 [] m = "AH_QUARTER" -> -1
                                    [] m = "AH_HALF" -> 6 [] OTHER -> 0]
MCOffered == [m \in MCMarkets |->
    CASE m = "1X2" -> {Sel("Home"), Sel("Draw"), Sel("Away"), Team("Home"), Team("Away")}
      [] m = "DOUBLE_CHANCE" -> {Sel("1X"), Sel("X2"), Sel("12"), Team("1X")}
      [] m = "DRAW_NO_BET" -> {Sel("Home"), Sel("Away"), Team("Home")}
      [] m \in {"OVER_UNDER", "TOTALS_2_5"} -> {Sel("Over"), Sel("Under")}
      [] m = "BOTH_TEAMS_TO_SCORE" -> {Sel("Yes"), Sel("No")}
      [] m = "AH_NAMED" -> {Lined("Home", -3), Lined("Away", 3)}
      [] m = "OUTRIGHT" -> {Sel("a"), Sel("b"), Sel("c")}
      [] OTHER -> {Sel("Home"), Sel("Away")}]

MCAnswers == {{"1X2", "TOTALS_2_5", "OUTRIGHT"}, MCMarkets \ {"1X2", "TOTALS_2_5"}}
Symmetry == Permutations(Polls)

Result(status, home, away, winners, places) ==
    [status |-> status, home |-> home, away |-> away, winners |-> winners,
     places |-> places]
MCRulings ==
    {Result("FINISHED", h, a, {}, 1) : h \in 0 .. 2, a \in 0 .. 2}
    \cup {Result("ABANDONED", 1, 0, {"a"}, 1), Result("CANCELLED", 0, 0, {}, 1)}
    \cup {Result("FINISHED", 1, 0, {"a", "b", "c"}, 2),
          Result("FINISHED", 0, 1, {"b"}, 2), Result("FINISHED", 0, 0, {"a", "b"}, 2)}
=============================================================================
