------------------------------- MODULE MCIdentity ------------------------------
(***************************************************************************)
(* What is what: which record a statement file has, and which id each row  *)
(* of one statement has.  A behaviour is one of ImportRecords or one of    *)
(* RecordIdentity; the other stands still.                                 *)
(*                                                                         *)
(* Three places are enough for a source that moved, one that has the same  *)
(* bytes and one that is new; two contents tell a moved file from a        *)
(* changed one.                                                            *)
(***************************************************************************)
EXTENDS ImportRecords, RecordIdentity, TLC

CONSTANTS bytes1, bytes2, contract1, contract2, coffee, rent

(***************************************************************************)
(* Statements: up to three rows that look alike or two of two looks, in    *)
(* two contents, read under two parser contracts.                          *)
(***************************************************************************)
RowsOver(locators, facts) == UNION {[s -> facts] : s \in SUBSET locators}
MCStatements ==
    [revision : {bytes1, bytes2}, contract : {contract1, contract2},
     rows : RowsOver({1, 2}, {coffee}) \cup [{2, 3} -> {coffee}]
              \cup [{1, 2, 3} -> {coffee}] \cup [{1, 2} -> {coffee, rent}]]

IdentityInit == Init /\ RecordsInit

IdentityNext ==
    \/ RecordsInit /\ Next /\ UNCHANGED recordVars
    \/ Init /\ RecordsNext /\ UNCHANGED vars

IdentitySpec == IdentityInit /\ [][IdentityNext]_<<vars, recordVars>>

\* Places, contents of files, and the two of each other pair are
\* interchangeable.  Only one of the ledgers moves, so a swap of the bytes of
\* two files may go together with one of the bytes of two statements.
Symmetry ==
    Permutations(Places)
    \cup {f \in Permutations(Revisions \cup {bytes1, bytes2, contract1, contract2}) :
            /\ {f[r] : r \in Revisions} = Revisions /\ {f[bytes1], f[bytes2]} = {bytes1, bytes2}
            /\ f[bytes1] = bytes1 <=> \A r \in Revisions : f[r] = r}
===============================================================================
