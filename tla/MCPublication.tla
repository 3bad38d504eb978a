---------------------------- MODULE MCPublication -----------------------------
(***************************************************************************)
(* A workspace with one import record and one view period.  The record's   *)
(* snapshot and attempt reports live in directories a first import         *)
(* creates; the view file lives in a directory cleanup may prune.          *)
(***************************************************************************)
EXTENDS Publication

MCFiles    == {"snapshot", "view"}
MCAttempts == {"attempt1", "attempt2"}
MCDirs     == {"record", "attempts", "views"}
MCViewDirs == {"views"}
MCAbove    == [x \in MCFiles \cup MCAttempts \cup MCDirs |->
                 CASE x = "snapshot" -> {"record"}
                   [] x = "view"     -> {"views"}
                   [] x \in MCAttempts -> {"record", "attempts"}
                   [] x = "attempts" -> {"record"}
                   [] OTHER          -> {}]

MCBytes == {"x", "y"}

\* An import writes a snapshot and a view, a correction only a view, a
\* rebuild removes a view that is no longer implied.
MCPlans ==
    { [files |-> {"snapshot", "view"}, new |-> [f \in MCFiles |-> "x"]],
      [files |-> {"view"}, new |-> [f \in MCFiles |-> "y"]],
      [files |-> {"snapshot", "view"},
       new |-> [f \in MCFiles |-> IF f = "view" THEN Absent ELSE "y"]] }
===============================================================================
