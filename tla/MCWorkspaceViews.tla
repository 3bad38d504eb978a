--------------------------- MODULE MCWorkspaceViews ---------------------------
(***************************************************************************)
(* Two periods and two input files.  A statement has transactions in May;  *)
(* corrections change them, rules move them to the other period.           *)
(***************************************************************************)
EXTENDS WorkspaceViews

MCPeriods  == {"may", "undated"}
MCFiles    == {"corrections", "rules"}
MCFacts    == {"nothing", "statement"}
MCContents == {"empty", "plain", "corrected", "moved"}

MCView(f, i) ==
    LET moved == i["rules"] = 1
    IN  [p \in MCPeriods |->
           CASE f = "nothing"                 -> "empty"
             [] p = "may" /\ ~ moved          ->
                  (IF i["corrections"] = 1 THEN "corrected" ELSE "plain")
             [] p = "undated" /\ moved        -> "moved"
             [] OTHER                         -> "empty"]
===============================================================================
