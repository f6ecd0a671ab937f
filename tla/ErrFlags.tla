------------------------------ MODULE ErrFlags ------------------------------
(***************************************************************************)
(* The error flag word of SecurityChecksPass (enum ErrFlag in              *)
(* src/analyzer/src/lib/SecurityChecks.h) and the three operations that    *)
(* combine flag words: updateReturnFlag, updateHandleFlag and mergeFlag    *)
(* (SecurityChecks.cc).                                                    *)
(***************************************************************************)

(***************************************************************************)
(* ErrFlag (SecurityChecks.h): a flag word is modelled as the set of its   *)
(* bits.  The reserved bits and Completed_Flag are never set by the code.  *)
(***************************************************************************)
Must_Return_Err == "Must_Return_Err"
May_Return_Err  == "May_Return_Err"
Must_Handle_Err == "Must_Handle_Err"
May_Handle_Err  == "May_Handle_Err"
ErrReturnMask   == {Must_Return_Err, May_Return_Err}
ErrHandleMask   == {Must_Handle_Err, May_Handle_Err}
ErrFlag         == SUBSET (ErrReturnMask \cup ErrHandleMask)

RetBits(f)    == f \cap ErrReturnMask
HandleBits(f) == f \cap ErrHandleMask

\* markBBErr ORs Must_Return_Err, May_Return_Err (checkErrValueFlow) and
\* Must_Handle_Err (checkErrHandle) into a block's entry, in any combination.
SeedFlag == SUBSET {Must_Return_Err, May_Return_Err, Must_Handle_Err}

updateReturnFlag(errFlag, newFlag) ==
    IF RetBits(newFlag) # {}
    THEN (errFlag \ ErrReturnMask) \cup RetBits(newFlag)
    ELSE errFlag


updateHandleFlag(errFlag, newFlag) ==
    IF Must_Handle_Err \in errFlag \/ HandleBits(newFlag) = {}
    THEN errFlag
    ELSE (errFlag \ ErrHandleMask) \cup HandleBits(newFlag)

\* mergeFlag, with the handle half exactly as written: a May_Handle_Err
\* operand yields May_Return_Err (line 230).
mergeFlag(errFlag, newFlag) ==
    LET ret == IF Must_Return_Err \in errFlag /\ Must_Return_Err \in newFlag
                 THEN {Must_Return_Err}
               ELSE IF May_Return_Err \in errFlag \/ May_Return_Err \in newFlag
                 THEN {May_Return_Err}
               ELSE IF RetBits(errFlag) = {} THEN RetBits(newFlag)
               ELSE RetBits(errFlag)
        hdl == IF Must_Handle_Err \in errFlag /\ Must_Handle_Err \in newFlag
                 THEN {Must_Handle_Err}
               ELSE IF May_Handle_Err \in errFlag \/ May_Handle_Err \in newFlag
                 THEN {May_Return_Err}
               ELSE IF HandleBits(errFlag) = {} THEN HandleBits(newFlag)
               ELSE HandleBits(errFlag)
    IN ret \cup hdl
=============================================================================
