------------------------------ MODULE MCUserEdits ------------------------------
(***************************************************************************)
(* What a user settles: the profile mappings and the configuration         *)
(* (BindingCommands) and the decisions over equal rows of several          *)
(* statements (OverlapLedger).  A behaviour is one of either; the other    *)
(* stands still.                                                           *)
(***************************************************************************)
EXTENDS MCBindingCommands, OverlapLedger

CONSTANTS bank, card, wallet, row1, row2, row3, cafe, food

(***************************************************************************)
(* Three sources: the bank's statement has two or three equal rows or      *)
(* loses them all, the card's has either of two rows or both, so that      *)
(* memberships with equal counts differ, and the wallet's has one.         *)
(***************************************************************************)
MCContents ==
    bank   :> {{}, {row1, row2}, {row1, row2, row3}} @@
    card   :> {{row1}, {row2}, {row1, row2}} @@
    wallet :> {{row3}}

UserInit == EditInit /\ OverlapInit

\* The decisions are made beside one of the documents.
Waiting == EditInit /\ documents["mappings"] = NoMappings

UserNext ==
    \/ OverlapInit /\ EditNext /\ UNCHANGED overlapVars
    \/ Waiting /\ OverlapNext /\ UNCHANGED allVars

UserSpec == UserInit /\ [][UserNext]_<<allVars, overlapVars>>

\* Rows and patches of which there are two are interchangeable, and so are
\* commands; a swap of commands may go together with one of patches.
UserSymmetry ==
    {f \in Permutations(Commands \cup {cafe, food, row1, row2}) :
        /\ {f[c] : c \in Commands} = Commands /\ {f[cafe], f[food]} = {cafe, food}
        /\ f[cafe] = cafe <=> \A c \in Commands : f[c] = c}
===============================================================================
